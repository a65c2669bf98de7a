------------------------------- MODULE Mutex -------------------------------
(***************************************************************************)
(* What a mutex promises: threads ask for it, at most one of those who ask *)
(* gets it and only while nobody has it, and it is free again only when    *)
(* its holder lets go.  A thread that asks may be turned away.             *)
(***************************************************************************)
CONSTANT Threads

VARIABLES
    asking,     \* the threads that want it
    holders     \* the threads that have it

vars == <<asking, holders>>

Init == asking = {} /\ holders = {}

Ask(t) ==
    /\ t \notin asking \cup holders
    /\ asking' = asking \cup {t}
    /\ UNCHANGED holders

TurnedAway(t) ==
    /\ t \in asking
    /\ asking' = asking \ {t}
    /\ UNCHANGED holders

\* A thread that finds it free need not ask first.
Acquire(t) ==
    /\ holders = {}
    /\ holders' = {t}
    /\ asking' = asking \ {t}

LetGo(t) ==
    /\ holders = {t}
    /\ holders' = {}
    /\ UNCHANGED asking

Next == \E t \in Threads : Ask(t) \/ TurnedAway(t) \/ Acquire(t) \/ LetGo(t)

Spec == Init /\ [][Next]_vars
=============================================================================
