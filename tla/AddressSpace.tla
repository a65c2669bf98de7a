---------------------------- MODULE AddressSpace ----------------------------
(***************************************************************************)
(* What memory is to a guest, whatever arena is behind it: pages it was    *)
(* given and what is in them.  Nothing here knows of host pages, of locks  *)
(* or of the steps a call is made of.                                      *)
(*                                                                         *)
(* Pages that are given or taken change their kind; S is always the set of *)
(* those that do.  A System V segment that is attached nowhere is "kept".  *)
(***************************************************************************)
EXTENDS Integers

CONSTANT Page

VARIABLES
    kind,       \* what each page is to the guest: "none" if it has no use of it
    mem         \* what is in it

vars == <<kind, mem>>

Kept(S) == \A p \in Page \ S : mem'[p] = mem[p]
Turns(S, from, to) == \A p \in S : kind[p] \in from /\ kind'[p] \in to
First(S) == CHOOSE p \in S : \A q \in S : p <= q

Given == {"anon", "file", "shared", "moved", "heap", "stack", "segment"}

Init == \A p \in Page : kind[p] \in {"none", "file", "stack"}

\* mmap and brk: anonymous memory and heap read as zero.
Map(S) ==
    /\ Turns(S, {"none"}, {"anon", "file", "shared", "heap"})
    /\ \A p \in S : kind'[p] \in {"anon", "heap"} => mem'[p] = "zero"
    /\ Kept(S)

\* munmap, a fixed mmap before it answers, a brk that shrinks.
Unmap(S) ==
    /\ Turns(S, Given \ {"segment"}, {"none"})
    /\ Kept(S)

\* mremap: what was there moves, and zeros follow it.
Move(S) ==
    LET to == {p \in S : kind'[p] = "moved"}
        from == S \ to
        d == First(to) - First(from)
    IN  /\ to # {} /\ from # {}
        /\ Turns(from, Given \ {"segment"}, {"none"})
        /\ Turns(to, {"none"}, {"moved"})
        /\ \A p \in to : mem'[p] = IF p - d \in from THEN mem[p - d] ELSE "zero"
        /\ Kept(S)

\* shmget, shmat, shmdt, IPC_RMID: a segment is zero when it is made, and what
\* is in it stays while it is attached or can be again.
Segment(S) ==
    \/ /\ Turns(S, {"none"}, {"kept"})
       /\ \A p \in S : mem'[p] = "zero"
       /\ Kept(S)
    \/ Turns(S, {"kept"}, {"segment"}) /\ Kept({})
    \/ Turns(S, {"segment"}, {"kept"}) /\ Kept({})
    \/ Turns(S, {"kept", "segment"}, {"none"}) /\ Kept(S)

\* execve: nothing is left but the new program, and the segments.
Exec(S) ==
    /\ \A p \in Page : kind'[p] \in {"none", "file", "stack", "kept"}
    /\ \A p \in Page : kind'[p] = "kept" <=> kind[p] \in {"segment", "kept"}
    /\ \A p \in Page : kind'[p] = "kept" => mem'[p] = mem[p]

\* The guest's own stores.
Store(p) ==
    /\ kind[p] \in Given /\ UNCHANGED kind
    /\ mem'[p] = "data" /\ Kept({p})

Next ==
    \/ LET S == {p \in Page : kind'[p] # kind[p]} IN
       S # {} /\ (Map(S) \/ Unmap(S) \/ Move(S) \/ Segment(S) \/ Exec(S))
    \/ \E p \in {q \in Page : mem'[q] # mem[q]} : Store(p)

Spec == Init /\ [][Next]_vars
=============================================================================
