------------------------------ MODULE Processes ------------------------------
(***************************************************************************)
(* The table of guest processes of one session: fork, execve, wait4 and     *)
(* the end of a process, as fathom_runtime.cpp runs them.                   *)
(*                                                                         *)
(* Every guest process but the first has a host thread of its own           *)
(* (RunChildThread).  A fork copies the parent's space into a new arena      *)
(* ("copy") or, for a clone that shares memory on a stack of its own,        *)
(* borrows it ("share").  The parent's other threads are suspended while     *)
(* the copy's child has not yet exec'd or exited, for 400 ms at most.        *)
(*                                                                         *)
(* Modelled: the default configuration (FATHOM_NO_COW_FORK,                  *)
(* FATHOM_FREEZE_FORK and FATHOM_NO_FREEZE_COPY unset), one critical         *)
(* section of process_mutex per step.  Left out: the end of the session and  *)
(* the console's stop, execve and exit made by a thread other than the       *)
(* process's first, and a wait4 for one particular pid.                      *)
(*                                                                         *)
(* A record destroyed under its users is undefined behaviour: the model      *)
(* describes a session up to the first such use and stops there.             *)
(***************************************************************************)
EXTENDS Integers, FiniteSets

CONSTANTS
    MaxPid,         \* bound: pids handed out (next_pid is an unbounded int)
    Threaded,       \* the pids whose program makes a second thread
    MaxArenas,      \* bound: arenas NewArena makes over the session
    MaxExecs,       \* bound: execve calls over the session
    Failures        \* may NewArena, ForkThread, LoadProgram... fail?

ASSUME ProcessesAssumption ==
    /\ MaxPid \in Nat \ {0}
    /\ MaxArenas \in Nat
    /\ MaxExecs \in Nat
    /\ Threaded \subseteq 1..MaxPid
    /\ Failures \in BOOLEAN

Pids == 1..MaxPid

\* A guest thread is <<pid, 1>>, the process's first, or <<pid, 2>>.
Threads == (Pids \X {1}) \cup (Threaded \X {2})
ThreadsOf(p) == {t \in Threads : t[1] = p}

\* Space 0 is the session's, the others are the arenas of arenas32.
Session == 0
NoSpace == -1
Spaces == NoSpace..MaxArenas

VARIABLES
    processes,      \* the pids in the session's table
    freed,          \* the pids whose record has been destroyed
    next_pid,
    ppid, finished, released, thread_started, joined,   \* of GuestProcess
    space, previous_space, borrowed_space, owns_program, has_previous,
    arenas32,       \* the arenas that exist
    made,           \* how many NewArena has made
    context,        \* the space whose JIT context the first GuestThread is of
    frozen,         \* the suspended guest threads (frozen_threads)
    host,           \* where the process's host thread is
    call,           \* where each guest thread is
    child,          \* the process a thread's fork or wait4 is about
    done,           \* the host threads a fork joins first
    own_stack,      \* forked with a stack of its own (stack != 0)
    execs,          \* how many execve calls have replaced an image
    lost            \* the spaces dropped by a second execve, or a failed call

flags == <<finished, released, thread_started, joined>>
spaces == <<space, previous_space, borrowed_space, owns_program, has_previous,
            arenas32, made, context, execs, lost>>
table == <<processes, freed, next_pid, ppid, own_stack>>
vars == <<table, flags, spaces, frozen, host, call, child, done>>

Init ==
    /\ processes = {1}
    /\ freed = {}
    /\ next_pid = 2
    /\ ppid = [p \in Pids |-> 0]
    /\ own_stack = {}
    /\ finished = {} /\ released = {} /\ thread_started = {} /\ joined = {}
    /\ space = [p \in Pids |-> IF p = 1 THEN Session ELSE NoSpace]
    /\ previous_space = [p \in Pids |-> NoSpace]
    /\ borrowed_space = [p \in Pids |-> NoSpace]
    /\ owns_program = {1}
    /\ has_previous = {}
    /\ arenas32 = {}
    /\ made = 0
    /\ context = [p \in Pids |-> IF p = 1 THEN Session ELSE NoSpace]
    /\ execs = 0
    /\ lost = {}
    /\ frozen = {}
    /\ host = [p \in Pids |-> IF p = 1 THEN "run" ELSE "none"]
    /\ call = [t \in Threads |-> IF t[2] = 1 THEN "run" ELSE "none"]
    /\ child = [t \in Threads |-> 0]
    /\ done = [t \in Threads |-> {}]

-----------------------------------------------------------------------------
(* What a thread may be doing.                                              *)

\* A guest thread that is not suspended and is at this point of its call.
At(t, where) ==
    /\ t \notin frozen
    /\ call[t] = where
    /\ host[t[1]] \in (IF t[2] = 1 THEN {"run"} ELSE {"run", "stopping"})

Goto(t, where) == call' = [call EXCEPT ![t] = where]

\* LinuxSyscalls::InRuntime(): in the syscall layer and not in a blocking wait.
\* wait4 is a blocking wait from end to end (EnterBlockingWait).
InRuntime(t) == call[t] \notin {"none", "run", "wait4", "wait.join", "wait.free"}

\* The records a fork reads and writes through child_raw after it has
\* dropped process_mutex.
HoldsChildRaw(t) == call[t] \in {"fork.created", "fork.wait", "fork.still"}

\* A destroyed record is used: by its own host thread, or by a fork.
UsedAfterFree ==
    \E p \in freed :
        \/ host[p] \notin {"none", "gone"}
        \/ \E t \in Threads : HoldsChildRaw(t) /\ child[t] = p

\* NewArena: a space no process has yet.  It fails when the machine has no
\* address space left, or no JIT context can be made.
NewArena == /\ made < MaxArenas
            /\ made' = made + 1
            /\ arenas32' = arenas32 \cup {made + 1}

\* ~GuestProcess: the record's fields are gone with it.
Destroy(p) ==
    /\ freed' = freed \cup {p}
    /\ ppid' = [ppid EXCEPT ![p] = 0]
    /\ own_stack' = own_stack \ {p}
    /\ finished' = finished \ {p}
    /\ released' = released \ {p}
    /\ thread_started' = thread_started \ {p}
    /\ joined' = joined \ {p}
    /\ space' = [space EXCEPT ![p] = NoSpace]
    /\ previous_space' = [previous_space EXCEPT ![p] = NoSpace]
    /\ borrowed_space' = [borrowed_space EXCEPT ![p] = NoSpace]
    /\ context' = [context EXCEPT ![p] = NoSpace]
    /\ owns_program' = owns_program \ {p}
    /\ has_previous' = has_previous \ {p}
    /\ UNCHANGED <<arenas32, made, execs>>

\* A call is over.
Return(t) == /\ Goto(t, "run")
             /\ child' = [child EXCEPT ![t] = 0]

\* ThawThreads.
Thaw(p) == frozen' = frozen \ ThreadsOf(p)

\* FreezeOtherThreads(process, caller, force): the first thread only if
\* thread_started says its host thread is running; the others always.  A
\* thread found in the runtime 200 times over is left running.
FreezeOtherThreads(t) ==
    frozen \cup {u \in ThreadsOf(t[1]) \ {t} :
                    /\ call[u] # "none"
                    /\ u[2] = 1 => t[1] \in thread_started
                    /\ ~InRuntime(u)}

\* CreateThread.
CreateThread(p) ==
    /\ At(<<p, 1>>, "run")
    /\ p \in Threaded
    /\ call[<<p, 2>>] = "none"
    /\ Goto(<<p, 2>>, "run")
    /\ UNCHANGED <<table, flags, spaces, frozen, host, child, done>>

-----------------------------------------------------------------------------
(* fork.                                                                    *)

\* JoinFinishedChildren, its critical section: every finished process is
\* marked joined, whoever's child it is.
ForkMarks(t) ==
    /\ At(t, "run")
    /\ LET ended == {p \in processes : p \in (finished \cap thread_started) \ joined}
       IN  /\ done' = [done EXCEPT ![t] = ended]
           /\ joined' = joined \cup ended
    /\ Goto(t, "fork.join")
    /\ UNCHANGED <<table, finished, released, thread_started, spaces, frozen,
                   host, child>>

\* ... and its joins.
ForkJoins(t) ==
    /\ At(t, "fork.join")
    /\ \A p \in done[t] : host[p] = "gone"
    /\ done' = [done EXCEPT ![t] = {}]
    /\ Goto(t, "fork.setup")
    /\ UNCHANGED <<table, flags, spaces, frozen, host, child>>

\* The child's record goes into the table.
Insert(t, in, borrows, own) ==
    /\ processes' = processes \cup {next_pid}
    /\ ppid' = [ppid EXCEPT ![next_pid] = t[1]]
    /\ own_stack' = IF own THEN own_stack \cup {next_pid} ELSE own_stack
    /\ space' = [space EXCEPT ![next_pid] = in]
    /\ borrowed_space' = [borrowed_space EXCEPT ![next_pid] = borrows]
    /\ context' = [context EXCEPT ![next_pid] = in]
    /\ child' = [child EXCEPT ![t] = next_pid]
    /\ Goto(t, "fork.create")

\* The locked part of ForkProcess for a clone that shares its parent's memory
\* on a stack of its own.
ForkShares(t) ==
    /\ At(t, "fork.setup")
    /\ next_pid <= MaxPid
    /\ Insert(t, space[t[1]], space[t[1]], TRUE)
    /\ next_pid' = next_pid + 1
    /\ UNCHANGED <<freed, flags, previous_space, owns_program, has_previous,
                   arenas32, made, execs, lost, frozen, host, done>>

\* ... and for every other fork: a new arena, the other threads stopped, the
\* memory copied.
ForkCopies(t, own) ==
    /\ At(t, "fork.setup")
    /\ next_pid <= MaxPid
    /\ NewArena
    /\ frozen' = FreezeOtherThreads(t)
    /\ Insert(t, made + 1, NoSpace, own)
    /\ next_pid' = next_pid + 1
    /\ UNCHANGED <<freed, flags, previous_space, owns_program, has_previous,
                   execs, lost, host, done>>

\* NewArena fails, or (sharing) ForkThread does: EAGAIN, a pid spent.  This
\* is also how a fork beyond the bounds ends.
ForkFails(t) ==
    /\ Failures \/ next_pid > MaxPid \/ made = MaxArenas
    /\ At(t, "fork.setup")
    /\ next_pid' = IF next_pid > MaxPid THEN next_pid ELSE next_pid + 1
    /\ Goto(t, "run")
    /\ UNCHANGED <<processes, freed, ppid, own_stack, flags, spaces, frozen,
                   host, child, done>>

\* ForkThread fails after the parent's threads were stopped.
ForkCopyFails(t) ==
    /\ Failures
    /\ At(t, "fork.setup")
    /\ next_pid <= MaxPid
    /\ NewArena
    /\ lost' = lost \cup {made + 1}
    /\ frozen' = FreezeOtherThreads(t)
    /\ next_pid' = next_pid + 1
    /\ Goto(t, "run")
    /\ UNCHANGED <<processes, freed, ppid, own_stack, flags, space,
                   previous_space, borrowed_space, owns_program, has_previous,
                   context, execs, host, child, done>>

\* pthread_create: the child runs before its parent has noted that it does.
ForkCreates(t) ==
    /\ At(t, "fork.create")
    /\ host' = [host EXCEPT ![child[t]] = "run"]
    /\ Goto(t, "fork.created")
    /\ UNCHANGED <<table, flags, spaces, frozen, child, done>>

\* ... or fails, and the record is erased.
ForkCreateFails(t) ==
    /\ Failures
    /\ At(t, "fork.create")
    /\ processes' = processes \ {child[t]}
    /\ Destroy(child[t])
    /\ lost' = lost \cup {space[child[t]]}
    /\ Return(t)
    /\ UNCHANGED <<next_pid, frozen, host, done>>

\* child_raw->thread_started = true, without the lock.
ForkNotes(t) ==
    /\ At(t, "fork.created")
    /\ thread_started' = thread_started \cup {child[t]}
    /\ Goto(t, "fork.wait")
    /\ UNCHANGED <<table, finished, released, joined, spaces, frozen, host,
                   child, done>>

\* Either wait ends when the child has exec'd or exited.
ForkReturns(t) ==
    /\ At(t, "fork.wait") \/ At(t, "fork.still")
    /\ child[t] \in released
    /\ Return(t)
    /\ UNCHANGED <<table, flags, spaces, frozen, host, done>>

\* (mutant) It gives up and forgets the threads it stopped.
GivesUpFrozen(t) ==
    /\ At(t, "fork.wait")
    /\ child[t] \notin released
    /\ IF child[t] \in own_stack
       THEN Return(t)
       ELSE Goto(t, "fork.still") /\ UNCHANGED child
    /\ UNCHANGED <<table, flags, spaces, frozen, host, done>>

\* (mutant) It waits without a limit.
NeverGivesUp(t) ==
    /\ At(t, "fork.wait")
    /\ FALSE
    /\ UNCHANGED vars

\* The first wait gives up after 400 ms: the parent's threads go again, and a
\* child on a stack of its own is left to itself.
ForkGivesUp(t) ==
    /\ At(t, "fork.wait")
    /\ child[t] \notin released
    /\ Thaw(t[1])
    /\ IF child[t] \in own_stack
       THEN Return(t)
       ELSE Goto(t, "fork.still") /\ UNCHANGED child
    /\ UNCHANGED <<table, flags, spaces, host, done>>

-----------------------------------------------------------------------------
(* wait4.                                                                   *)

Wait(t) ==
    /\ At(t, "run")
    /\ Goto(t, "wait4")
    /\ UNCHANGED <<table, flags, spaces, frozen, host, child, done>>

\* WaitForChild finds a finished child and lifts it out of the table.
WaitFinds(t, p) ==
    /\ At(t, "wait4")
    /\ p \in processes \cap finished
    /\ ppid[p] = t[1]
    /\ processes' = processes \ {p}
    /\ child' = [child EXCEPT ![t] = p]
    /\ Goto(t, IF p \in thread_started \ joined THEN "wait.join" ELSE "wait.free")
    /\ UNCHANGED <<freed, next_pid, ppid, own_stack, flags, spaces, frozen,
                   host, done>>

\* It joins the host thread, unless it never started or somebody else has.
WaitJoins(t) ==
    /\ At(t, "wait.join")
    /\ host[child[t]] = "gone"
    /\ joined' = joined \cup {child[t]}
    /\ Goto(t, "wait.free")
    /\ UNCHANGED <<table, finished, released, thread_started, spaces, frozen,
                   host, child, done>>

\* The node goes out of scope, and the record with it.
WaitFrees(t) ==
    /\ At(t, "wait.free")
    /\ Destroy(child[t])
    /\ Return(t)
    /\ UNCHANGED <<processes, next_pid, lost, frozen, host, done>>

Children(p) == {q \in processes : ppid[q] = p}

\* (mutant) any_children is set before the candidate's ppid is looked at.
WaitCountsAll(t) ==
    /\ At(t, "wait4")
    /\ processes = {t[1]}
    /\ Goto(t, "run")
    /\ UNCHANGED <<table, flags, spaces, frozen, host, child, done>>

\* ECHILD.
WaitHasNone(t) ==
    /\ At(t, "wait4")
    /\ Children(t[1]) = {}
    /\ Goto(t, "run")
    /\ UNCHANGED <<table, flags, spaces, frozen, host, child, done>>

\* WNOHANG's 0.
WaitFindsNone(t) ==
    /\ At(t, "wait4")
    /\ Children(t[1]) # {} /\ Children(t[1]) \cap finished = {}
    /\ Goto(t, "run")
    /\ UNCHANGED <<table, flags, spaces, frozen, host, child, done>>

-----------------------------------------------------------------------------
(* execve, and the end of a process.                                        *)

\* StopAndJoinOtherThreadsOf and StopAndJoinThreadsOf: a thread ends when it
\* is back in guest code and not suspended.
OthersStopped(p) ==
    \A u \in ThreadsOf(p) \ {<<p, 1>>} : call[u] \in {"none", "run"} /\ u \notin frozen

NoOthers(p, where) ==
    call' = [u \in Threads |-> CASE u = <<p, 1>> -> where
                                 [] u \in ThreadsOf(p) \ {<<p, 1>>} -> "none"
                                 [] OTHER -> call[u]]

ExecBegins(p) ==
    /\ At(<<p, 1>>, "run")
    /\ execs < MaxExecs
    /\ Goto(<<p, 1>>, "exec")
    /\ UNCHANGED <<table, flags, spaces, frozen, host, child, done>>

\* The image is loaded, into the session's space or an arena of its own, and
\* ExecGuest unwinds out of the JIT into RunProcess.
Replace(p, in) ==
    /\ OthersStopped(p)
    /\ NoOthers(p, "run")
    /\ has_previous' = IF p \in owns_program THEN has_previous \cup {p}
                                             ELSE has_previous \ {p}
    /\ owns_program' = owns_program \cup {p}
    /\ lost' = lost \cup {previous_space[p]}
    /\ previous_space' = [previous_space EXCEPT ![p] = space[p]]
    /\ space' = [space EXCEPT ![p] = in]
    /\ execs' = execs + 1
    /\ host' = [host EXCEPT ![p] = "execed"]
    /\ UNCHANGED <<table, flags, borrowed_space, context, frozen, child, done>>

ExecInSession(p) ==
    /\ At(<<p, 1>>, "exec")
    /\ Replace(p, Session)
    /\ UNCHANGED <<arenas32, made>>

ExecInArena(p) ==
    /\ At(<<p, 1>>, "exec")
    /\ NewArena
    /\ Replace(p, made + 1)

\* NewArena or LoadProgram fails: execve returns, to a process whose other
\* threads are gone.  An arena made for the image stays.
ExecFails(p) ==
    /\ Failures
    /\ At(<<p, 1>>, "exec")
    /\ OthersStopped(p)
    /\ NoOthers(p, "run")
    /\ \/ NewArena /\ lost' = lost \cup {made + 1}
       \/ UNCHANGED <<arenas32, made, lost>>
    /\ UNCHANGED <<table, flags, space, previous_space, borrowed_space,
                   owns_program, has_previous, context, execs, frozen, host,
                   child, done>>

\* ReleaseParent: the parent's threads go again, and its fork may return.
ReleaseParent(p) ==
    /\ IF ppid[p] \in processes THEN Thaw(ppid[p]) ELSE UNCHANGED frozen
    /\ released' = released \cup {p}

\* RunProcess, back from Run() with Execed: the new image's thread, then
\* ReleaseParent.
ExecRuns(p) ==
    /\ host[p] = "execed"
    /\ ReleaseParent(p)
    /\ context' = [context EXCEPT ![p] = space[p]]
    /\ host' = [host EXCEPT ![p] = "drop"]
    /\ UNCHANGED <<table, finished, thread_started, joined, space,
                   previous_space, borrowed_space, owns_program, has_previous,
                   arenas32, made, execs, lost, call, child, done>>

\* StartThread fails and the process ends.
ExecRunFails(p) ==
    /\ Failures
    /\ p # 1
    /\ host[p] = "execed"
    /\ host' = [host EXCEPT ![p] = "stopping"]
    /\ UNCHANGED <<table, flags, spaces, frozen, call, child, done>>

\* ReleaseProgramData of the image replaced, in previous_space.
ExecDrops(p) ==
    /\ host[p] = "drop"
    /\ has_previous' = has_previous \ {p}
    /\ host' = [host EXCEPT ![p] = "run"]
    /\ UNCHANGED <<table, flags, space, previous_space, borrowed_space,
                   owns_program, arenas32, made, context, execs, lost,
                   frozen, call, child, done>>

\* Run() returns for good.  The end of the first process is the end of the
\* session.
Exits(p) ==
    /\ p # 1
    /\ At(<<p, 1>>, "run")
    /\ host' = [host EXCEPT ![p] = "stopping"]
    /\ UNCHANGED <<table, flags, spaces, frozen, call, child, done>>

\* StopAndJoinThreadsOf, ReleaseDescriptors, ReleaseParent.
EndReleases(p) ==
    /\ host[p] = "stopping"
    /\ OthersStopped(p)
    /\ NoOthers(p, "run")
    /\ ReleaseParent(p)
    /\ host' = [host EXCEPT ![p] = "released"]
    /\ UNCHANGED <<table, finished, thread_started, joined, spaces, child, done>>

\* ReleaseProgramData of an image of its own, then the record says finished.
EndFinishes(p) ==
    /\ host[p] = "released"
    /\ finished' = finished \cup {p}
    /\ released' = released \cup {p}
    /\ host' = [host EXCEPT ![p] = "finished"]
    /\ UNCHANGED <<table, thread_started, joined, spaces, frozen, call, child, done>>

\* (mutant) Only the space the other process is in now is looked at.
UnlessRunIn(p) ==
    {s \in {space[p], previous_space[p]} \ {NoSpace, Session} :
        \A q \in processes \ {p} : q \notin finished => s # space[q]}

\* (mutant) The space an execve left behind is not a candidate.
OnlyItsSpace(p) ==
    {s \in {space[p]} \ {NoSpace, Session} :
        \A q \in processes \ {p} :
            q \notin finished => s \notin {space[q], borrowed_space[q],
                                           previous_space[q]}}

\* The spaces of a process that no unfinished other process has or had.
OnlyUsedBy(p) ==
    {s \in {space[p], previous_space[p]} \ {NoSpace, Session} :
        \A q \in processes \ {p} :
            q \notin finished => s \notin {space[q], borrowed_space[q],
                                           previous_space[q]}}

\* ReleaseOwnArenas, and the host thread is gone.
EndFrees(p) ==
    /\ host[p] = "finished"
    /\ LET doomed == OnlyUsedBy(p) \cap arenas32
       IN  /\ arenas32' = arenas32 \ doomed
           /\ space' = [space EXCEPT ![p] = IF doomed = {} \/ @ = Session
                                            THEN @ ELSE NoSpace]
           /\ previous_space' = [previous_space EXCEPT ![p] =
                                    IF doomed = {} THEN @ ELSE NoSpace]
           /\ context' = [context EXCEPT ![p] = IF doomed = {} THEN @ ELSE NoSpace]
    /\ host' = [host EXCEPT ![p] = "gone"]
    /\ UNCHANGED <<table, flags, borrowed_space, owns_program, has_previous,
                   made, execs, lost, frozen, call, child, done>>

-----------------------------------------------------------------------------
ForkStep(t) ==
    \/ ForkMarks(t) \/ ForkJoins(t)
    \/ ForkShares(t) \/ (\E own \in BOOLEAN : ForkCopies(t, own))
    \/ ForkFails(t) \/ ForkCopyFails(t)
    \/ ForkCreates(t) \/ ForkCreateFails(t) \/ ForkNotes(t)
    \/ ForkReturns(t) \/ ForkGivesUp(t)

WaitStep(t) ==
    \/ Wait(t) \/ (\E p \in Pids : WaitFinds(t, p))
    \/ WaitJoins(t) \/ WaitFrees(t) \/ WaitHasNone(t) \/ WaitFindsNone(t)

ProcessStep(p) ==
    \/ CreateThread(p)
    \/ ExecBegins(p) \/ ExecInSession(p) \/ ExecInArena(p) \/ ExecFails(p)
    \/ ExecRuns(p) \/ ExecRunFails(p) \/ ExecDrops(p)
    \/ Exits(p) \/ EndReleases(p) \/ EndFinishes(p) \/ EndFrees(p)

Next ==
    /\ ~UsedAfterFree
    /\ \/ \E t \in Threads : ForkStep(t) \/ WaitStep(t)
       \/ \E p \in Pids : ProcessStep(p)

Spec == Init /\ [][Next]_vars

-----------------------------------------------------------------------------
(* What the runtime does of its own accord.  Whether a guest calls fork,    *)
(* wait4 or execve, exits or computes for ever is the guest's choice.       *)

RuntimeStep(t) ==
    \/ ForkJoins(t) \/ ForkShares(t) \/ (\E own \in BOOLEAN : ForkCopies(t, own))
    \/ ForkFails(t) \/ ForkCreates(t) \/ ForkNotes(t)
    \/ ForkReturns(t) \/ ForkGivesUp(t)
    \/ (\E p \in Pids : WaitFinds(t, p)) \/ WaitJoins(t) \/ WaitFrees(t)
    \/ WaitHasNone(t)

HostStep(p) ==
    \/ ExecRuns(p) \/ ExecDrops(p)
    \/ EndReleases(p) \/ EndFinishes(p) \/ EndFrees(p)

\* Every host thread the system does not suspend is scheduled, and the waits
\* on process_changed wake by themselves: after 100 ms in wait4, after 400 ms
\* in a fork, at the notify_all of ReleaseParent afterwards.
FairSpec ==
    /\ Spec
    /\ \A t \in Threads : WF_vars(~UsedAfterFree /\ RuntimeStep(t))
    /\ \A p \in Pids : WF_vars(~UsedAfterFree /\ HostStep(p))

-----------------------------------------------------------------------------
(* Properties.                                                              *)

\* Every field of the process table holds what its declaration says.
TypeOK ==
    /\ processes \subseteq Pids /\ freed \subseteq Pids
    /\ next_pid \in 2..(MaxPid + 1)
    /\ ppid \in [Pids -> 0..MaxPid]
    /\ own_stack \subseteq Pids
    /\ finished \subseteq Pids /\ released \subseteq Pids
    /\ thread_started \subseteq Pids /\ joined \subseteq Pids
    /\ space \in [Pids -> Spaces]
    /\ previous_space \in [Pids -> Spaces]
    /\ borrowed_space \in [Pids -> Spaces]
    /\ context \in [Pids -> Spaces]
    /\ owns_program \subseteq Pids /\ has_previous \subseteq Pids
    /\ arenas32 \subseteq 1..MaxArenas
    /\ made \in 0..MaxArenas
    /\ execs \in Nat
    /\ lost \subseteq Spaces
    /\ frozen \subseteq Threads
    /\ host \in [Pids -> {"none", "run", "execed", "drop", "stopping", "released",
                          "finished", "gone"}]
    /\ call \in [Threads -> {"none", "run", "fork.join", "fork.setup",
                             "fork.create", "fork.created", "fork.wait",
                             "fork.still", "wait4", "wait.join", "wait.free",
                             "exec"}]
    /\ child \in [Threads -> 0..MaxPid]
    /\ done \in [Threads -> SUBSET Pids]

\* The spaces a process that has not finished is running in, or is about to
\* clear the replaced image out of.
InUse(p) ==
    {space[p]} \cup (IF host[p] = "execed" \/ (host[p] = "drop" /\ p \in has_previous)
                    THEN {previous_space[p]} ELSE {})

\* ReleaseOwnArenas never frees a space another process is still running in,
\* whoever forked, borrowed, exec'd or exited in whatever order.
NoSpaceFreedInUse ==
    \A p \in processes \ finished : InUse(p) \subseteq arenas32 \cup {Session}

\* The arenas that no process with ReleaseOwnArenas still ahead of it names
\* in a field that function looks at: nobody will free them.
Orphaned ==
    arenas32 \ UNION {{space[p], previous_space[p]} :
                        p \in {q \in Pids : host[q] # "gone"}}

\* Every arena is freed by the process that ends last among those that used
\* it.  The only ways to lose one are a second execve, which overwrites
\* previous_space (fathom_runtime.cpp:2345), and a fork or an execve that fails
\* after NewArena.
LeaksAreKnown == UsedAfterFree \/ Orphaned \subseteq lost

\* Threads are suspended for the sake of a child only: one of the process's
\* threads is in a fork whose copied child has neither exec'd nor exited, and
\* has not yet waited its 400 ms.
FrozenForAChild ==
    \A t \in frozen :
        \E u \in ThreadsOf(t[1]) \ {t} :
            /\ call[u] \in {"fork.create", "fork.created", "fork.wait"}
            /\ child[u] \notin released
            /\ borrowed_space[child[u]] = NoSpace

\* A suspended thread goes again: the fork that stopped it either sees its
\* child released or gives up.
FrozenGoesOn ==
    \A t \in Threads : []<>(t \notin frozen \/ UsedAfterFree)

\* A fork that joins other processes' host threads first, and a wait4 that
\* joins the one it has reaped, always get on: no host thread that has said
\* "finished" waits for anything a joiner holds.  And wait4 returns once every
\* child the caller has left has finished, however many threads of the process
\* are reaping them.
WaitEnds ==
    \A t \in Threads :
        /\ []<>(call[t] \notin {"fork.join", "wait.join"} \/ UsedAfterFree)
        /\ []<>(\/ call[t] # "wait4"
                \/ ~(Children(t[1]) \subseteq finished)
                \/ UsedAfterFree)

\* WaitForChild's promise: nothing can reach a process that is being
\* destroyed (fathom_runtime.cpp:2446-2448).
\* Not kept: a fork marks a process joined before it has joined it.
DestroyedIsUnreachable == ~UsedAfterFree

\* ReleaseOwnArenas' promise: no GuestThread is left whose FEXCore state
\* belongs to a context that has gone (fathom_runtime.cpp:772).
\* Not kept: an unreaped child that never executed anything has its parent's.
ContextOutlivesThread ==
    \A p \in Pids \ freed : context[p] \in arenas32 \cup {Session, NoSpace}
=============================================================================
