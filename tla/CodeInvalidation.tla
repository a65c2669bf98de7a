-------------------------- MODULE CodeInvalidation --------------------------
(***************************************************************************)
(* Throwing compiled code away: the part of fex_engine.cpp that keeps the  *)
(* JIT's block caches in step with guest memory, the deferral of that work *)
(* while a fork has threads suspended, and the destruction of a thread a   *)
(* sweep may be about to reach into.                                       *)
(*                                                                         *)
(* Every context (a process and its arena) has one range of guest memory   *)
(* that holds code.  Its contents are a version number; a thread's cache   *)
(* holds the version its block was compiled from, or Nothing.  FEXCore's   *)
(* code-invalidation lock of a context is held shared by a thread that is  *)
(* compiling and exclusively (writer) by a sweep or a freeze.              *)
(***************************************************************************)
EXTENDS Integers, FiniteSets

CONSTANTS
    Threads,     \* guest threads
    Contexts,    \* FEXCore contexts, one for each process
    Ctx,         \* the context each thread runs in
    Invalidator, \* the runtime's own thread (RunInvalidator)
    Nothing,     \* no compiled block, and nobody holding a lock
    MaxChanges   \* bound: changes of one range's contents

ASSUME CodeAssumption ==
    /\ IsFiniteSet(Threads) /\ IsFiniteSet(Contexts)
    /\ Ctx \in [Threads -> Contexts] /\ Invalidator \notin Threads /\ MaxChanges \in Nat
    /\ Nothing \notin Threads \cup {Invalidator} \cup Contexts /\ Nothing \notin 0..MaxChanges
    /\ "freeze" \notin Threads \cup {Invalidator, Nothing}

Actors == Threads \cup {Invalidator}

VARIABLES
    content,      \* the version of the code in each context's range
    noted,        \* code_words_: the contexts something was ever compiled in
    cached,       \* what each thread's lookup cache was compiled from
    reading,      \* what a compiling thread has read
    life,         \* "unborn", "live" (on g_live_threads), "forgotten", "dead"
    pc,           \* where each actor is
    target,       \* the range an invalidating actor is throwing away
    todo,         \* its copy of g_live_threads, as far as it is still to sweep
    invalidators, \* g_invalidators
    writer,       \* who owns each context's invalidation lock exclusively
    frozen,       \* threads a fork has suspended
    child,        \* contexts with a child that has not released its parent
    freezes,      \* g_freezes
    deferred,     \* g_deferred
    queue,        \* g_queue
    batch,        \* the ranges RunInvalidator has swapped out of it
    table         \* who holds process_mutex: a freeze or a thaw, and how far it is

cache == <<content, noted, cached, reading>>
sweeps == <<target, todo, invalidators>>
forks == <<frozen, child, freezes, table>>
lists == <<deferred, queue, batch>>
vars == <<cache, life, pc, sweeps, writer, forks, lists>>

TableFree == [op |-> "free", ctx |-> Nothing]
Table(op, c) == [op |-> op, ctx |-> c]
In(c) == {t \in Threads : Ctx[t] = c}
Compiling(c) == {t \in In(c) : pc[t] = "compile"}
LockIsFree(c) == writer[c] = Nothing /\ Compiling(c) = {}
Running(t) == life[t] = "live" /\ pc[t] = "guest" /\ t \notin frozen
OutsideRuntime(t) == life[t] = "live" /\ pc[t] \in {"guest", "compile"} /\ t \notin frozen
Goes(a, where) == pc' = [pc EXCEPT ![a] = where]

(***************************************************************************)
(* A guest thread's life: StartThread or ForkThread registers it, and the  *)
(* destructor of its record forgets it, waits for the sweeps that may have *)
(* copied it, and destroys it.                                             *)
(***************************************************************************)
RegisterLiveThread(t) ==
    /\ life[t] = "unborn"
    /\ life' = [life EXCEPT ![t] = "live"]
    /\ Goes(t, "guest")
    /\ UNCHANGED <<cache, sweeps, writer, forks, lists>>

ForgetLiveThread(t) ==
    /\ Running(t)
    /\ life' = [life EXCEPT ![t] = "forgotten"]
    /\ Goes(t, "ended")
    /\ UNCHANGED <<cache, sweeps, writer, forks, lists>>

\* Mutant of DestroyThread: it does not wait for the sweeps.
DestroyWithoutWaiting(t) ==
    /\ life[t] = "forgotten"
    /\ life' = [life EXCEPT ![t] = "dead"]
    /\ UNCHANGED <<cache, pc, sweeps, writer, forks, lists>>

DestroyThread(t) ==
    /\ life[t] = "forgotten"
    /\ invalidators = 0
    /\ life' = [life EXCEPT ![t] = "dead"]
    /\ UNCHANGED <<cache, pc, sweeps, writer, forks, lists>>

(***************************************************************************)
(* Compiling a block.  FEXCore takes the lock shared, asks                 *)
(* QueryGuestExecutableRange, which marks the range (NoteExecutable),      *)
(* reads the guest's bytes and puts the block in the thread's cache.       *)
(***************************************************************************)
CompileStart(t) ==
    /\ Running(t) /\ cached[t] = Nothing /\ writer[Ctx[t]] = Nothing
    /\ noted' = noted \cup {Ctx[t]}
    /\ Goes(t, "compile")
    /\ UNCHANGED <<content, cached, reading, life, sweeps, writer, forks, lists>>

CompileRead(t) ==
    /\ pc[t] = "compile" /\ t \notin frozen /\ reading[t] = Nothing
    /\ reading' = [reading EXCEPT ![t] = content[Ctx[t]]]
    /\ UNCHANGED <<content, noted, cached, life, pc, sweeps, writer, forks, lists>>

CompileEnd(t) ==
    /\ pc[t] = "compile" /\ t \notin frozen /\ reading[t] # Nothing
    /\ cached' = [cached EXCEPT ![t] = reading[t]]
    /\ reading' = [reading EXCEPT ![t] = Nothing]
    /\ Goes(t, "guest")
    /\ UNCHANGED <<content, noted, life, sweeps, writer, forks, lists>>

(***************************************************************************)
(* A syscall that changes what is at the code's addresses: Allocate and    *)
(* CommitFixed put other bytes there and ask HasHeldCode whether anything  *)
(* was ever compiled from the range; Release takes it away and does not    *)
(* ask.  Both then call InvalidateCompiledCode with the arena unlocked.    *)
(***************************************************************************)
Replace(t) ==
    /\ Running(t) /\ content[Ctx[t]] < MaxChanges
    /\ content' = [content EXCEPT ![Ctx[t]] = @ + 1]
    /\ target' = [target EXCEPT ![t] = Ctx[t]]
    /\ Goes(t, "held?")
    /\ UNCHANGED <<noted, cached, reading, life, todo, invalidators, writer, forks, lists>>

HasHeldCode(t) ==
    /\ pc[t] = "held?"
    /\ Goes(t, IF Ctx[t] \in noted THEN "check" ELSE "guest")
    /\ UNCHANGED <<cache, life, sweeps, writer, forks, lists>>

Release(t) ==
    /\ Running(t) /\ content[Ctx[t]] < MaxChanges
    /\ content' = [content EXCEPT ![Ctx[t]] = @ + 1]
    /\ target' = [target EXCEPT ![t] = Ctx[t]]
    /\ Goes(t, "check")
    /\ UNCHANGED <<noted, cached, reading, life, todo, invalidators, writer, forks, lists>>

(***************************************************************************)
(* InvalidateCompiledCode, by a guest thread in a syscall or by the        *)
(* runtime's own thread.  Looked at twice: once without g_deferred_mutex   *)
(* and, if anything is suspended, once more holding it.                    *)
(***************************************************************************)
Returned(a) == IF a = Invalidator THEN "idle" ELSE "guest"

CheckFreezes(a) ==
    /\ pc[a] = "check"
    /\ Goes(a, IF freezes > 0 THEN "defer" ELSE "copy")
    /\ UNCHANGED <<cache, life, sweeps, writer, forks, lists>>

\* Mutant of Defer: the count is not looked at again under the lock.
DeferUnchecked(a) ==
    /\ pc[a] = "defer"
    /\ deferred' = deferred \cup {target[a]}
    /\ Goes(a, Returned(a))
    /\ UNCHANGED <<cache, life, sweeps, writer, forks, queue, batch>>

Defer(a) ==
    /\ pc[a] = "defer"
    /\ IF freezes > 0
       THEN deferred' = deferred \cup {target[a]} /\ Goes(a, Returned(a))
       ELSE UNCHANGED deferred /\ Goes(a, "copy")
    /\ UNCHANGED <<cache, life, sweeps, writer, forks, queue, batch>>

CopyLiveThreads(a) ==
    /\ pc[a] = "copy"
    /\ todo' = [todo EXCEPT ![a] = {t \in In(target[a]) : life[t] = "live"}]
    /\ invalidators' = invalidators + 1
    /\ Goes(a, IF todo'[a] = {} THEN "finish" ELSE "lock")
    /\ UNCHANGED <<cache, life, target, writer, forks, lists>>

\* Mutant of LockContext: a sweep does not wait for the threads compiling.
LockOverCompilers(a) ==
    /\ pc[a] = "lock"
    /\ writer[target[a]] = Nothing
    /\ writer' = [writer EXCEPT ![target[a]] = a]
    /\ Goes(a, "sweep")
    /\ UNCHANGED <<cache, life, sweeps, forks, lists>>

LockContext(a) ==
    /\ pc[a] = "lock"
    /\ LockIsFree(target[a])
    /\ writer' = [writer EXCEPT ![target[a]] = a]
    /\ Goes(a, "sweep")
    /\ UNCHANGED <<cache, life, sweeps, forks, lists>>

SweepThread(a, t) ==
    /\ pc[a] = "sweep" /\ t \in todo[a]
    /\ cached' = [cached EXCEPT ![t] = Nothing]
    /\ todo' = [todo EXCEPT ![a] = @ \ {t}]
    /\ UNCHANGED <<content, noted, reading, life, pc, target, invalidators, writer, forks, lists>>

UnlockContext(a) ==
    /\ pc[a] = "sweep" /\ todo[a] = {}
    /\ writer' = [writer EXCEPT ![target[a]] = Nothing]
    /\ Goes(a, "finish")
    /\ UNCHANGED <<cache, life, sweeps, forks, lists>>

FinishSweep(a) ==
    /\ pc[a] = "finish"
    /\ invalidators' = invalidators - 1
    /\ Goes(a, Returned(a))
    /\ UNCHANGED <<cache, life, target, todo, writer, forks, lists>>

(***************************************************************************)
(* RunInvalidator: the queue is swapped out and worked through.            *)
(***************************************************************************)
TakeQueue ==
    /\ pc[Invalidator] = "idle" /\ batch = {} /\ queue # {}
    /\ batch' = queue /\ queue' = {}
    /\ UNCHANGED <<cache, life, pc, sweeps, writer, forks, deferred>>

NextInBatch(c) ==
    /\ pc[Invalidator] = "idle" /\ c \in batch
    /\ batch' = batch \ {c}
    /\ target' = [target EXCEPT ![Invalidator] = c]
    /\ Goes(Invalidator, "check")
    /\ UNCHANGED <<cache, life, todo, invalidators, writer, forks, deferred, queue>>

(***************************************************************************)
(* A fork, with process_mutex held: compilation in the parent's context is *)
(* paused, each of its other threads that is in guest code is suspended    *)
(* (HoldInvalidations with the first), and compilation goes on.  A thread  *)
(* inside the syscall layer (InRuntime) is left running.                   *)
(***************************************************************************)
ForkBegins(t) ==
    /\ Running(t) /\ table = TableFree /\ Ctx[t] \notin child
    /\ table' = Table("pause", Ctx[t])
    /\ Goes(t, "fork")
    /\ UNCHANGED <<cache, life, sweeps, writer, frozen, child, freezes, lists>>

\* Mutant of PauseCompilation: it does not wait for the threads compiling.
PauseWithoutWaiting(c) ==
    /\ table = Table("pause", c)
    /\ writer[c] = Nothing
    /\ writer' = [writer EXCEPT ![c] = "freeze"]
    /\ table' = Table("suspend", c)
    /\ UNCHANGED <<cache, life, pc, sweeps, frozen, child, freezes, lists>>

PauseCompilation(c) ==
    /\ table = Table("pause", c)
    /\ LockIsFree(c)
    /\ writer' = [writer EXCEPT ![c] = "freeze"]
    /\ table' = Table("suspend", c)
    /\ UNCHANGED <<cache, life, pc, sweeps, frozen, child, freezes, lists>>

SuspendThread(c, t) ==
    /\ table = Table("suspend", c)
    /\ t \in In(c) /\ OutsideRuntime(t)
    /\ frozen' = frozen \cup {t}
    /\ freezes' = IF frozen \cap In(c) = {} THEN freezes + 1 ELSE freezes
    /\ UNCHANGED <<cache, life, pc, sweeps, writer, child, table, lists>>

\* Mutant of ResumeCompilation: the pause is not lifted.
NeverResumed(c) ==
    /\ table = Table("suspend", c)
    /\ \A t \in In(c) : ~OutsideRuntime(t)
    /\ child' = child \cup {c}
    /\ table' = TableFree
    /\ UNCHANGED <<cache, life, pc, sweeps, writer, frozen, freezes, lists>>

ResumeCompilation(c) ==
    /\ table = Table("suspend", c)
    /\ \A t \in In(c) : ~OutsideRuntime(t)
    /\ writer' = [writer EXCEPT ![c] = Nothing]
    /\ child' = child \cup {c}
    /\ table' = TableFree
    /\ UNCHANGED <<cache, life, pc, sweeps, frozen, freezes, lists>>

(***************************************************************************)
(* ReleaseParent, at the child's exec or exit or when the fork's wait of   *)
(* 400 ms runs out: ThawThreads resumes the threads and, if there were     *)
(* any, ReleaseInvalidations.                                              *)
(***************************************************************************)
ThawThreads(c) ==
    /\ table = TableFree /\ c \in child
    /\ child' = child \ {c}
    /\ frozen' = frozen \ In(c)
    /\ pc' = [a \in Actors |-> IF a \in In(c) /\ pc[a] = "fork" THEN "guest" ELSE pc[a]]
    /\ table' = IF frozen \cap In(c) = {} THEN TableFree ELSE Table("release", c)
    /\ UNCHANGED <<cache, life, sweeps, writer, freezes, lists>>

\* Mutant of ReleaseInvalidations: the list is not collected at the last thaw.
ReleaseForgets ==
    /\ table.op = "release"
    /\ freezes' = freezes - 1
    /\ table' = TableFree
    /\ UNCHANGED <<cache, life, pc, sweeps, writer, frozen, child, lists>>

ReleaseInvalidations ==
    /\ table.op = "release"
    /\ freezes' = freezes - 1
    /\ table' = IF freezes = 1 THEN [table EXCEPT !.op = "collect"] ELSE TableFree
    /\ UNCHANGED <<cache, life, pc, sweeps, writer, frozen, child, lists>>

CollectDeferred ==
    /\ table.op = "collect"
    /\ queue' = queue \cup deferred
    /\ deferred' = {}
    /\ table' = TableFree
    /\ UNCHANGED <<cache, life, pc, sweeps, writer, frozen, child, freezes, batch>>

Init ==
    /\ content = [c \in Contexts |-> 0]
    /\ noted = {}
    /\ cached = [t \in Threads |-> Nothing]
    /\ reading = [t \in Threads |-> Nothing]
    /\ life = [t \in Threads |-> "unborn"]
    /\ pc = [a \in Actors |-> "idle"]
    /\ target = [a \in Actors |-> Nothing]
    /\ todo = [a \in Actors |-> {}]
    /\ invalidators = 0
    /\ writer = [c \in Contexts |-> Nothing]
    /\ frozen = {} /\ child = {} /\ freezes = 0
    /\ deferred = {} /\ queue = {} /\ batch = {}
    /\ table = TableFree

Invalidates(a) ==
    \/ CheckFreezes(a) \/ Defer(a) \/ CopyLiveThreads(a) \/ LockContext(a)
    \/ \E t \in Threads : SweepThread(a, t)
    \/ UnlockContext(a) \/ FinishSweep(a)

Compiles(t) == CompileStart(t) \/ CompileRead(t) \/ CompileEnd(t)

TableSteps ==
    \/ \E c \in Contexts : PauseCompilation(c) \/ ResumeCompilation(c) \/ ThawThreads(c)
    \/ \E c \in Contexts, t \in Threads : SuspendThread(c, t)
    \/ ReleaseInvalidations \/ CollectDeferred

InvalidatorSteps == TakeQueue \/ \E c \in Contexts : NextInBatch(c)

Next ==
    \/ \E t \in Threads :
         \/ RegisterLiveThread(t) \/ ForgetLiveThread(t) \/ DestroyThread(t)
         \/ Compiles(t) \/ Replace(t) \/ HasHeldCode(t) \/ Release(t) \/ ForkBegins(t)
    \/ \E a \in Actors : Invalidates(a)
    \/ InvalidatorSteps
    \/ TableSteps

Spec == Init /\ [][Next]_vars

(***************************************************************************)
(* Host threads are scheduled: a call that can go on does.  The context's  *)
(* lock lets waiting writers go first, so a sweep is not overtaken for     *)
(* ever by threads compiling.  A freeze ends: the child execs, exits, or   *)
(* the fork's bounded wait gives up.  Nothing says a guest ever compiles,  *)
(* changes memory, forks or ends a thread.                                 *)
(***************************************************************************)
Fairness ==
    /\ \A a \in Actors : WF_vars(Invalidates(a)) /\ SF_vars(LockContext(a))
    /\ \A t \in Threads : WF_vars(CompileRead(t) \/ CompileEnd(t)) /\ WF_vars(HasHeldCode(t))
    /\ WF_vars(InvalidatorSteps)
    /\ WF_vars(TableSteps) /\ SF_vars(\E c \in Contexts : PauseCompilation(c))
    /\ \A c \in Contexts : SF_vars(ThawThreads(c))

FairSpec == Spec /\ Fairness

-----------------------------------------------------------------------------
Places == {"idle", "guest", "ended", "compile", "held?", "check", "defer", "copy", "lock", "sweep", "finish", "fork"}
Versions == 0..MaxChanges

TypeOK ==
    /\ content \in [Contexts -> Versions]
    /\ noted \subseteq Contexts
    /\ cached \in [Threads -> Versions \cup {Nothing}]
    /\ reading \in [Threads -> Versions \cup {Nothing}]
    /\ life \in [Threads -> {"unborn", "live", "forgotten", "dead"}]
    /\ pc \in [Actors -> Places]
    /\ target \in [Actors -> Contexts \cup {Nothing}]
    /\ todo \in [Actors -> SUBSET Threads]
    /\ invalidators \in 0..Cardinality(Actors)
    /\ writer \in [Contexts -> Actors \cup {Nothing, "freeze"}]
    /\ frozen \subseteq Threads /\ child \subseteq Contexts
    /\ freezes \in 0..Cardinality(Contexts)
    /\ deferred \subseteq Contexts /\ queue \subseteq Contexts /\ batch \subseteq Contexts
    /\ table \in [op : {"free", "pause", "suspend", "release", "collect"}, ctx : Contexts \cup {Nothing}]

Stale(t) == cached[t] # Nothing /\ cached[t] # content[Ctx[t]]

\* A sweep works from a copy of the thread list, and a thread on it may have
\* ended since: DestroyThread waits for the count of sweeps, so none of them
\* ever reaches into a destroyed thread (fex_engine.cpp:1146-1158).
SweepsReachLiveThreads == \A a \in Actors, t \in Threads : t \in todo[a] => life[t] # "dead"

\* Someone about to throw t's block away, or a list that says to.
Owed(t) ==
    \/ Ctx[t] \in deferred \cup queue \cup batch
    \/ \E a \in Actors : target[a] = Ctx[t] /\
         \/ pc[a] \in {"held?", "check", "defer", "copy"}
         \/ pc[a] \in {"lock", "sweep"} /\ t \in todo[a]

\* A block compiled from what used to be there is never forgotten: as long as
\* a thread's cache holds one, a sweep that will drop it is under way, queued
\* or deferred, whatever freezes and thaws come between the two looks at
\* g_freezes, and however the compilation overlapped the change.
NoStaleBlockForgotten == \A t \in Threads : life[t] = "live" /\ Stale(t) => Owed(t)

\* Deferred work always has a thaw ahead of it that will collect it: the list
\* is never left with ranges on it once nothing is suspended.
DeferredHasACollector == deferred # {} => freezes > 0 \/ table.op \in {"release", "collect"}

\* Stale code does not stay: a block compiled from what used to be there is
\* thrown away in the end, deferred or not, unless the process goes on forking
\* for ever (each new freeze can defer the same range again).
StaleBlocksGo ==
    \A t \in Threads : []<>(~Stale(t) \/ life[t] # "live") \/ []<><<\E u \in Threads : ForkBegins(u)>>_vars

\* No sweep waits for ever: the lock it wants is never left held by a thread
\* that is suspended or by a freeze that waits for something itself.
SweepsEnd == \A a \in Actors : pc[a] = "lock" ~> pc[a] = "finish"

\* No thread is suspended while it holds the invalidation lock to compile: the
\* next program to be loaded would wait on it, and the thaw is on the far side
\* of that load (fex_engine.h:168-174).
SuspendedHoldsNoLock == \A t \in frozen : pc[t] # "compile"

\* While anything is suspended, invalidation is recorded rather than performed
\* (fex_engine.h:128): no sweep takes a context's lock with a thread of that
\* context suspended.
\* Not kept: a sweep may have looked at the freeze count before the fork.
NothingSweptWhileFrozen ==
    [][\A a \in Actors : LockContext(a) => frozen \cap In(target[a]) = {}]_vars
=============================================================================
