------------------------------- MODULE Signals -------------------------------
(***************************************************************************)
(* Guest signals (the last part of linux_syscalls.cpp): queueing to a       *)
(* thread, interrupting its waits, taking a signal at the exit of a system   *)
(* call, the frame the handler runs on, rt_sigreturn, and restarting.        *)
(*                                                                         *)
(* One process of several threads, each inside or outside a system call.     *)
(* The actions are the process's; the rest is each thread's.  A stack        *)
(* address is <<which stack, frames below its top>>: stack 0 is the thread's  *)
(* own, the others are what sigaltstack may name.  The instruction pointer   *)
(* is an ordinary one, or that of a system call to be made again.            *)
(*                                                                         *)
(* Delivery from the host's signal handler into compiled code is off by      *)
(* default and left out, and so is who sent a signal.                        *)
(***************************************************************************)
EXTENDS Integers, Sequences, FiniteSets

CONSTANTS
    Threads, First,     \* the process's threads; its first
    Sigs,               \* the signals: a set of numbers
    SIGKILL,
    Quiet,              \* the signals whose default is to be ignored
    Actions,            \* what guests pass to rt_sigaction
    Masks,              \* ... and to rt_sigprocmask
    AltStacks,          \* ... and to sigaltstack: a set of positive numbers
    AltSize,            \* the frames an alternate stack has room for
    MaxSends            \* bound: signals sent

SignalAction == [handler : {"default", "ignore", "handle"}, mask : SUBSET Sigs,
                 restart : BOOLEAN, nodefer : BOOLEAN, resethand : BOOLEAN,
                 onstack : BOOLEAN]
Default == [handler |-> "default", mask |-> {}, restart |-> FALSE,
            nodefer |-> FALSE, resethand |-> FALSE, onstack |-> FALSE]

ASSUME SignalsAssumption ==
    /\ First \in Threads
    /\ Sigs \subseteq Nat /\ IsFiniteSet(Sigs)
    /\ SIGKILL \in Sigs /\ Quiet \subseteq Sigs
    /\ Actions \subseteq SignalAction
    /\ Masks \subseteq SUBSET Sigs
    /\ AltStacks \subseteq Nat \ {0}
    /\ AltSize \in Nat \ {0} /\ MaxSends \in Nat

\* The calls that wait: in slices that look for signals, and those that do not
\* (wait4 and reading the console).
Sliced == {"sleep", "read"}
Unsliced == {"wait4"}
Calls == Sliced \cup Unsliced

Again(c) == <<"again", c>>
Rips == {<<"next">>} \cup {Again(c) : c \in Calls}
Results == {"ok", "EINTR", "ERESTARTSYS"}

VARIABLES
    actions,        \* signal_actions
    pending,        \* pending_signals_
    mask,           \* signal_mask_
    alt,            \* the alternate stack, 0 when disabled
    cpu,            \* rip, rax and rsp
    pc,             \* where the thread is
    call,           \* the waiting call it is in or was interrupted in
    result,         \* what the system call answers
    frames,         \* the frames of the handlers that have not returned
    stopping,       \* process_stopping_
    sends,          \* signals sent so far
    killed,         \* some thread has taken a signal whose default is to die
    moved           \* the threads that changed their alternate stack in use

vars == <<actions, pending, mask, alt, cpu, pc, call, result, frames, stopping,
          sends, killed, moved>>

Init ==
    /\ actions = [s \in Sigs |-> Default]
    /\ pending = [t \in Threads |-> {}]
    /\ mask = [t \in Threads |-> {}]
    /\ alt = [t \in Threads |-> 0]
    /\ cpu = [t \in Threads |-> [rip |-> <<"next">>, rax |-> "ok", sp |-> <<0, 0>>]]
    /\ pc = [t \in Threads |-> "code"]
    /\ call = [t \in Threads |-> "sleep"]
    /\ result = [t \in Threads |-> "ok"]
    /\ frames = [t \in Threads |-> <<>>]
    /\ stopping = FALSE
    /\ sends = 0
    /\ killed = FALSE
    /\ moved = {}

-----------------------------------------------------------------------------
(* Frames.                                                                  *)

\* SIGKILL is taken out of whatever mask the guest gives (SIGSTOP likewise).
Blockable(m) == m \ {SIGKILL}

\* Mutant: every handler starts at the alternate stack's top.
AlwaysTop(t, a) == IF a.onstack /\ alt[t] # 0 THEN <<alt[t], 0>> ELSE cpu[t].sp

\* SignalPending.
SignalPending(t) == pending[t] \ mask[t] # {}

\* Where the frame goes: the alternate stack's top, unless the thread is on it.
FrameBase(t, a) ==
    LET sp == cpu[t].sp
        already == sp[1] = alt[t] /\ sp[2] < AltSize
    IN  IF a.onstack /\ alt[t] # 0 /\ ~already THEN <<alt[t], 0>> ELSE sp

Frame(t, s, a, rip, rax) ==
    [sig |-> s, sp |-> FrameBase(t, a), open |-> a.nodefer,
     cpu |-> [cpu[t] EXCEPT !.rip = rip, !.rax = rax], mask |-> mask[t]]

\* The frame's place: one below where it starts.
Cell(f) == <<f.sp[1], f.sp[2] + 1>>

FramesApart(t) ==
    \A i, j \in DOMAIN frames[t] : Cell(frames[t][i]) = Cell(frames[t][j]) => i = j

-----------------------------------------------------------------------------
(* System calls.  Each answers, and the thread goes on to FinishSyscall.      *)

\* Guest code about to make a call that does not wait.
Calling(t) == pc[t] = "code" /\ ~stopping /\ cpu[t].rip = <<"next">>

\* rip and rax are the answer's to set.
Entered(t) == cpu' = [cpu EXCEPT ![t].rip = <<"next">>, ![t].rax = "ok"]

Answers(t, r) ==
    /\ pc' = [pc EXCEPT ![t] = "finish"]
    /\ result' = [result EXCEPT ![t] = r]
    /\ Entered(t)

\* QueueSignal, the session's and the thread's: SIGKILL is noted and not acted
\* on, and a thread that has gone is no target.
QueueSignal(u, s) ==
    /\ sends < MaxSends
    /\ sends' = sends + 1
    /\ pending' = IF s = SIGKILL \/ pc[u] = "ended" THEN pending
                  ELSE [pending EXCEPT ![u] = @ \cup {s}]

\* kill, tkill and tgkill, by a thread of this process and of another.
Kill(t, u, s) ==
    /\ Calling(t)
    /\ QueueSignal(u, s)
    /\ Answers(t, "ok")
    /\ UNCHANGED <<actions, mask, alt, call, frames, stopping, killed, moved>>

KillFromAfar(u, s) ==
    /\ QueueSignal(u, s)
    /\ UNCHANGED <<actions, mask, alt, cpu, pc, call, result, frames, stopping,
                   killed, moved>>

\* DoRtSigaction.
Sigaction(t, s, a) ==
    /\ Calling(t)
    /\ s # SIGKILL
    /\ actions' = [actions EXCEPT ![s] = a]
    /\ Answers(t, "ok")
    /\ UNCHANGED <<pending, mask, alt, call, frames, stopping, sends, killed, moved>>

\* The frames of handlers whose signal the guest unblocks are noted.
Opened(fs, m) ==
    [i \in DOMAIN fs |-> [fs[i] EXCEPT !.open = fs[i].open \/ fs[i].sig \notin m]]

\* DoRtSigprocmask, whichever way the new mask is made from the old.
Sigprocmask(t, m) ==
    LET new == Blockable(m)
    IN  /\ Calling(t)
        /\ mask' = [mask EXCEPT ![t] = new]
        /\ frames' = [frames EXCEPT ![t] = Opened(frames[t], new)]
        /\ Answers(t, "ok")
        /\ UNCHANGED <<actions, pending, alt, call, stopping, sends, killed, moved>>

\* DoSigaltstack.
Sigaltstack(t, k) ==
    /\ Calling(t)
    /\ alt' = [alt EXCEPT ![t] = k]
    /\ moved' = IF k # 0 /\ \E i \in DOMAIN frames[t] : frames[t][i].sp[1] \notin {0, k}
                THEN moved \cup {t} ELSE moved
    /\ Answers(t, "ok")
    /\ UNCHANGED <<actions, pending, mask, call, frames, stopping, sends, killed>>

\* A call that waits; made again, it is whatever rax says.
Wait(t, c) ==
    /\ pc[t] = "code" /\ ~stopping
    /\ cpu[t].rip # <<"next">> => c = cpu[t].rax
    /\ pc' = [pc EXCEPT ![t] = "waiting"]
    /\ call' = [call EXCEPT ![t] = c]
    /\ Entered(t)
    /\ UNCHANGED <<actions, pending, mask, alt, result, frames, stopping, sends,
                   killed, moved>>

WaitEnds(t) ==
    /\ pc[t] = "waiting"
    /\ Answers(t, "ok")
    /\ call' = [call EXCEPT ![t] = "sleep"]
    /\ UNCHANGED <<actions, pending, mask, alt, frames, stopping, sends,
                   killed, moved>>

\* Mutant: a blocked signal cuts the wait short.
SeesBlocked(t) == pending[t] # {}

\* The check each slice of a wait begins with.
Sees(t) == SignalPending(t)

WaitInterrupted(t) ==
    /\ pc[t] = "waiting" /\ call[t] \in Sliced
    /\ ~stopping
    /\ Sees(t)
    /\ Answers(t, "ERESTARTSYS")
    /\ UNCHANGED <<actions, pending, mask, alt, call, frames, stopping, sends,
                   killed, moved>>

\* The call is over.
Forget(t) ==
    /\ call' = [call EXCEPT ![t] = "sleep"]
    /\ result' = [result EXCEPT ![t] = "ok"]

\* ExitGuest: the thread is gone, and with the first thread its process.
Ends(t) ==
    /\ pc' = [pc EXCEPT ![t] = "ended"]
    /\ stopping' = (stopping \/ t = First)
    /\ pending' = [pending EXCEPT ![t] = {}]
    /\ mask' = [mask EXCEPT ![t] = {}]
    /\ alt' = [alt EXCEPT ![t] = 0]
    /\ frames' = [frames EXCEPT ![t] = <<>>]
    /\ moved' = moved \ {t}
    /\ Forget(t)

\* A process that stops is noticed at the next call and in a sliced wait.
Stop(t) ==
    /\ stopping
    /\ pc[t] = "code" \/ (pc[t] = "waiting" /\ call[t] \in Sliced)
    /\ Ends(t)
    /\ UNCHANGED <<actions, cpu, sends, killed>>

-----------------------------------------------------------------------------
(* FinishSyscall and DeliverSignal.                                         *)

\* The thread goes back to guest code at rip, with rax.
Resume(t, rip, rax) ==
    /\ pc' = [pc EXCEPT ![t] = "code"]
    /\ cpu' = [cpu EXCEPT ![t].rip = rip, ![t].rax = rax]
    /\ Forget(t)

\* DoRtSigreturn: the frame's registers and mask; what it returns is rax.
Sigreturn(t) ==
    LET f == frames[t][Len(frames[t])]
    IN  /\ Calling(t)
        /\ frames[t] # <<>>
        /\ cpu' = [cpu EXCEPT ![t] = f.cpu]
        /\ mask' = [mask EXCEPT ![t] = Blockable(f.mask)]
        /\ frames' = [frames EXCEPT ![t] = SubSeq(@, 1, Len(@) - 1)]
        /\ pc' = [pc EXCEPT ![t] = "returned"]
        /\ UNCHANGED <<actions, pending, alt, call, result, stopping, sends, killed, moved>>

Finishing(t) == pc[t] \in {"finish", "returned"}

\* What the guest is to see, had there been no signal: rt_sigreturn placed the
\* registers itself.
After(t) == IF pc[t] = "returned" THEN <<cpu[t].rip, cpu[t].rax>>
                                  ELSE <<<<"next">>, result[t]>>

\* No signal is waiting.
FinishPlain(t) ==
    /\ Finishing(t)
    /\ ~SignalPending(t)
    /\ Resume(t, After(t)[1],
              IF After(t)[2] = "ERESTARTSYS" THEN "EINTR" ELSE After(t)[2])
    /\ UNCHANGED <<actions, pending, mask, alt, frames, stopping, sends, killed, moved>>

\* TakePendingSignal's choice: the lowest that is not blocked.
Lowest(S) == CHOOSE s \in S : \A r \in S : s <= r
LowestReady(t) == Lowest(pending[t] \ mask[t])

Ignored(s) ==
    \/ actions[s].handler = "ignore"
    \/ actions[s].handler = "default" /\ s \in Quiet
Fatal(s) == actions[s].handler = "default" /\ s \notin Quiet

\* SA_RESETHAND.
Taken(s) == IF actions[s].resethand THEN [actions EXCEPT ![s] = Default] ELSE actions

\* Mutant: an ignored signal stays queued.
Keep(t, s) == UNCHANGED pending

Discard(t, s) == pending' = [pending EXCEPT ![t] = @ \ {s}]

\* An ignored signal is consumed; when it was the last, an interrupted call is
\* made again as though nothing had happened.
TakeIgnored(t) ==
    LET s == LowestReady(t)
        last == pending[t] \ (mask[t] \cup {s}) = {}
    IN  /\ Finishing(t) /\ SignalPending(t) /\ Ignored(s)
        /\ Discard(t, s)
        /\ actions' = Taken(s)
        /\ \/ /\ ~last
              /\ UNCHANGED <<pc, cpu, call, result>>
           \/ /\ last /\ After(t)[2] = "ERESTARTSYS"
              /\ Resume(t, Again(call[t]), call[t])
           \/ /\ last /\ After(t)[2] # "ERESTARTSYS"
              /\ Resume(t, After(t)[1], After(t)[2])
        /\ UNCHANGED <<mask, alt, frames, stopping, sends, killed, moved>>

TakeFatal(t) ==
    /\ Finishing(t) /\ SignalPending(t) /\ Fatal(LowestReady(t))
    /\ killed' = TRUE
    /\ Ends(t)
    /\ actions' = Taken(LowestReady(t))
    /\ UNCHANGED <<cpu, sends>>

\* Mutant: a restarted call keeps its answer in rax.
RestartsWithAnswer(t, a) ==
    IF After(t)[2] # "ERESTARTSYS" THEN After(t)
    ELSE IF a.restart THEN <<Again(call[t]), "EINTR">>
    ELSE <<<<"next">>, "EINTR">>

\* What the handler returns to: the call again, or EINTR.
Interrupted(t, a) ==
    IF After(t)[2] # "ERESTARTSYS" THEN After(t)
    ELSE IF a.restart THEN <<Again(call[t]), call[t]>>
    ELSE <<<<"next">>, "EINTR">>

\* Mutant: the handler's own signal is not blocked.
ActionMask(t, s, a) == mask[t] \cup a.mask

\* The mask a handler runs with.
HandlerMask(t, s, a) == mask[t] \cup a.mask \cup (IF a.nodefer THEN {} ELSE {s})

\* PushSignalFrame, and the registers set to the handler's.
TakeHandled(t) ==
    LET s == LowestReady(t)
        a == actions[s]
        f == Frame(t, s, a, Interrupted(t, a)[1], Interrupted(t, a)[2])
    IN  /\ Finishing(t) /\ SignalPending(t) /\ a.handler = "handle"
        /\ pending' = [pending EXCEPT ![t] = @ \ {s}]
        /\ actions' = Taken(s)
        /\ frames' = [frames EXCEPT ![t] = Append(@, f)]
        /\ mask' = [mask EXCEPT ![t] = HandlerMask(t, s, a)]
        /\ pc' = [pc EXCEPT ![t] = "code"]
        /\ cpu' = [cpu EXCEPT ![t] = [rip |-> <<"next">>, rax |-> "ok", sp |-> Cell(f)]]
        /\ Forget(t)
        /\ UNCHANGED <<alt, stopping, sends, killed, moved>>

\* The stack cannot be written: the signal is gone, and the call was cut short.
TakeFails(t) ==
    LET s == LowestReady(t)
    IN  /\ Finishing(t) /\ SignalPending(t) /\ actions[s].handler = "handle"
        /\ pending' = [pending EXCEPT ![t] = @ \ {s}]
        /\ actions' = Taken(s)
        /\ Resume(t, After(t)[1],
                  IF After(t)[2] = "ERESTARTSYS" THEN "EINTR" ELSE After(t)[2])
        /\ UNCHANGED <<mask, alt, frames, stopping, sends, killed, moved>>

-----------------------------------------------------------------------------
SystemCall(t) ==
    \/ \E u \in Threads, s \in Sigs : Kill(t, u, s)
    \/ \E s \in Sigs, a \in Actions : Sigaction(t, s, a)
    \/ \E m \in Masks : Sigprocmask(t, m)
    \/ \E k \in AltStacks \cup {0} : Sigaltstack(t, k)
    \/ \E c \in Calls : Wait(t, c)
    \/ Sigreturn(t)

Finish(t) ==
    FinishPlain(t) \/ TakeIgnored(t) \/ TakeFatal(t) \/ TakeHandled(t) \/ TakeFails(t)

\* What happens on a thread's stack once two frames overlap is not modelled.
Next ==
    /\ \A t \in Threads : FramesApart(t)
    /\ \E t \in Threads :
        \/ \E s \in Sigs : KillFromAfar(t, s)
        \/ SystemCall(t) \/ WaitEnds(t) \/ WaitInterrupted(t) \/ Stop(t) \/ Finish(t)

Spec == Init /\ [][Next]_vars

\* The host runs a thread that is in the runtime; what the guest does, and when
\* what it waits for comes, is not assumed.
FairSpec ==
    /\ Spec
    /\ \A t \in Threads : WF_vars(/\ \A u \in Threads : FramesApart(u)
                                  /\ Finish(t) \/ WaitInterrupted(t))

-----------------------------------------------------------------------------
(* Properties.                                                              *)

Contexts(t) == {cpu[t]} \cup {frames[t][i].cpu : i \in DOMAIN frames[t]}

TypeOK ==
    /\ actions \in [Sigs -> SignalAction]
    /\ pending \in [Threads -> SUBSET Sigs]
    /\ mask \in [Threads -> SUBSET Sigs]
    /\ alt \in [Threads -> AltStacks \cup {0}]
    /\ \A t \in Threads : \A c \in Contexts(t) :
            c.rip \in Rips /\ c.rax \in Results \cup Calls
    /\ pc \in [Threads -> {"code", "waiting", "finish", "returned", "ended"}]
    /\ call \in [Threads -> Calls]
    /\ result \in [Threads -> Results]
    /\ stopping \in BOOLEAN /\ killed \in BOOLEAN
    /\ sends \in 0..MaxSends
    /\ moved \subseteq Threads

\* A call that was cut short for a signal finds one to deliver when it finishes:
\* nobody else takes it and nothing blocks it meanwhile, so the EINTR that
\* FinishSyscall keeps for "a signal that turned out to be blocked" never goes
\* to a guest that ran no handler.
InterruptedForASignal ==
    \A t \in Threads : pc[t] = "finish" /\ result[t] = "ERESTARTSYS" => SignalPending(t)

\* Guest code never sees the runtime's own ERESTARTSYS, and where it is about to
\* make an interrupted call again, however many handlers have run since, rax
\* holds that call's number.
RestartsAreExact ==
    \A t \in Threads : pc[t] = "code" => \A c \in Contexts(t) :
        /\ c.rax # "ERESTARTSYS"
        /\ \A k \in Calls : c.rip = Again(k) => c.rax = k

\* A handler's frame never lands on the frame of a handler that has not
\* returned, unless the guest changed alternate stacks under it or has nested
\* more handlers than the alternate stack has room for.
FramesDisjoint ==
    \A t \in Threads :
        t \notin moved /\ Len(frames[t]) <= AltSize => FramesApart(t)

\* A handler is not entered again for its own signal before it returns, unless
\* its action said SA_NODEFER or the guest itself unblocked the signal.
NotReentered ==
    \A t \in Threads : \A i, j \in DOMAIN frames[t] :
        i < j /\ frames[t][i].sig = frames[t][j].sig => frames[t][i].open

\* A deliverable signal takes a thread out of a sliced wait, and a system call
\* that is finishing finishes.
SignalsAreActedOn ==
    \A t \in Threads :
        /\ []<>~(pc[t] = "waiting" /\ call[t] \in Sliced /\ SignalPending(t) /\ ~stopping)
        /\ []<>~(Finishing(t) /\ FramesApart(t))

\* "Default action: the process ends" (linux_syscalls.cpp:7325).
\* Not kept: the thread that takes the signal ends, and its process goes on.
DefaultEndsProcess == killed => stopping

\* SignalPending is "what every blocking loop checks" (linux_syscalls.h:233).
\* Not kept: the waits that are not sliced do not look.
EveryWaitIsInterrupted ==
    \A t \in Threads :
        (pc[t] = "waiting" /\ SignalPending(t)) ~> (pc[t] # "waiting" \/ stopping)
=============================================================================
