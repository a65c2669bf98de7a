---------------------------- MODULE Signals_proof ----------------------------
(***************************************************************************)
(* The safety invariants of Signals, for any number of threads, signals,      *)
(* actions, masks and alternate stacks, and handlers nested to any depth.     *)
(*                                                                         *)
(* None of them is inductive.  What a handler returns to is right because     *)
(* every set of registers kept in a frame is (Registers, part of Types); a    *)
(* handler is not entered twice because its signal is in the mask and in the  *)
(* mask of every frame pushed since (Blocked); and frames do not meet because *)
(* each begins where the one before it ends, or at the top of an alternate     *)
(* stack that holds none (Chained, Stacked).                                 *)
(***************************************************************************)
EXTENDS Signals, WellFoundedInduction, TLAPS

USE SMTT(30), ZenonT(30)

Pcs == {"code", "waiting", "finish", "returned", "ended"}
Places == Nat \X Nat

\* Registers guest code may go on with.
Exact(rip, rax) ==
    /\ rip \in Rips
    /\ rax \in (Results \cup Calls) \ {"ERESTARTSYS"}
    /\ \A k \in Calls : rip = Again(k) => rax = k
Registers ==
    {c \in [rip : Rips, rax : Results \cup Calls, sp : Places] : Exact(c.rip, c.rax)}

FrameRecords ==
    [sig : Sigs \ {SIGKILL}, sp : Places, open : BOOLEAN, cpu : Registers,
     mask : SUBSET Sigs]

Types ==
    /\ actions \in [Sigs -> SignalAction]
    /\ pending \in [Threads -> SUBSET (Sigs \ {SIGKILL})]
    /\ mask \in [Threads -> SUBSET Sigs]
    /\ alt \in [Threads -> Nat]
    /\ cpu \in [Threads -> Registers]
    /\ pc \in [Threads -> Pcs]
    /\ call \in [Threads -> Calls]
    /\ result \in [Threads -> Results]
    /\ frames \in [Threads -> Seq(FrameRecords)]
    /\ moved \subseteq Threads

\* The signal of a handler that has not returned is blocked, now and in whatever
\* mask a later handler's return will restore.
Blocked ==
    \A t \in Threads : \A i \in 1..Len(frames[t]) :
        ~frames[t][i].open =>
            /\ frames[t][i].sig \in mask[t]
            /\ \A j \in 1..Len(frames[t]) : i < j => frames[t][i].sig \in frames[t][j].mask

\* The stack pointer below the first n frames.
Below(fs, n) == IF n = 0 THEN <<0, 0>> ELSE Cell(fs[n])

\* Each frame keeps the stack pointer it interrupted: the end of the one before.
Chained ==
    \A t \in Threads :
        /\ pc[t] # "ended" => cpu[t].sp = Below(frames[t], Len(frames[t]))
        /\ \A i \in 1..Len(frames[t]) : frames[t][i].cpu.sp = Below(frames[t], i - 1)

\* A thread that has left its own stack stays on the alternate one, and goes down.
StackedIn(fs, k) ==
    \A i \in 1..Len(fs) :
        /\ fs[i].sp[2] < i
        /\ k # 0 => fs[i].sp[1] \in {0, k}
        /\ \A j \in 1..Len(fs) : i < j /\ j <= AltSize =>
                /\ fs[i].sp[1] = fs[j].sp[1] => fs[i].sp[2] < fs[j].sp[2]
                /\ fs[i].sp[1] # 0 => fs[j].sp[1] = fs[i].sp[1]
Stacked == \A t \in Threads \ moved : StackedIn(frames[t], alt[t])

Inv ==
    /\ Types
    /\ InterruptedForASignal
    /\ Blocked
    /\ NotReentered
    /\ Chained
    /\ Stacked

-----------------------------------------------------------------------------
(* What the operators do.                                                   *)

\* A call to be made again names the call, and is not the next instruction.
LEMMA AgainNames ==
    ASSUME NEW c \in Calls
    PROVE  /\ Again(c) \in Rips /\ Again(c) # <<"next">>
           /\ \A k \in Calls : Again(k) = Again(c) => k = c
<1>1. Again(c)[1] = "again" /\ Again(c)[2] = c
    BY Zenon DEF Again
<1>2. \A k \in Calls : Again(k)[2] = k
    BY Zenon DEF Again
<1>3. <<"next">>[1] = "next"
    BY Zenon
<1>4. Again(c) # <<"next">>
    BY <1>1, <1>3, Zenon
<1> QED
    BY <1>1, <1>2, <1>4, Zenon DEF Rips

\* The exact answers: plain, and the call again with its number.
LEMMA ExactAnswers ==
    /\ \A r \in Results : r # "ERESTARTSYS" => Exact(<<"next">>, r)
    /\ \A c \in Calls : Exact(Again(c), c)
<1>1. \A r \in Results : r # "ERESTARTSYS" => Exact(<<"next">>, r)
    BY AgainNames, Zenon DEF Exact, Rips
<1>2. ASSUME NEW c \in Calls PROVE Exact(Again(c), c)
    BY <1>2, AgainNames, Zenon DEF Exact, Calls, Sliced, Unsliced
<1> QED
    BY <1>1, <1>2, Zenon

\* TakePendingSignal takes a signal that is queued and not blocked.
LEMMA ReadyIsTaken ==
    ASSUME NEW S, S \subseteq Nat, S # {}
    PROVE  Lowest(S) \in S
<1> DEFINE R == OpToRel(<, Nat)
<1>1. IsWellFoundedOn(R, Nat)
    BY NatLessThanWellFounded, Zenon
<1>2. \A x, y \in Nat : y < x => <<y, x>> \in R
    BY Zenon DEF OpToRel
<1> HIDE DEF R
<1>3. \E x \in S : \A y \in S : ~(<<y, x>> \in R)
    BY <1>1, WFMin, Zenon
<1>4. \E x \in S : \A y \in S : ~(y < x)
    BY <1>2, <1>3, Zenon
<1>5. \E x \in S : \A y \in S : x <= y
    BY <1>4
<1> QED
    BY <1>5, Zenon DEF Lowest

\* Registers with another rip and rax are registers, on the same stack.
LEMMA RegistersSet ==
    ASSUME NEW c \in Registers, NEW rip, NEW rax, Exact(rip, rax)
    PROVE  /\ [c EXCEPT !.rip = rip, !.rax = rax] \in Registers
           /\ [c EXCEPT !.rip = rip, !.rax = rax].sp = c.sp
<1> DEFINE d == [c EXCEPT !.rip = rip, !.rax = rax]
<1>1. c \in [rip : Rips, rax : Results \cup Calls, sp : Places]
    BY Zenon DEF Registers
<1>2. rip \in Rips /\ rax \in Results \cup Calls
    BY Zenon DEF Exact
<1>3. d \in [rip : Rips, rax : Results \cup Calls, sp : Places]
    BY <1>1, <1>2, Zenon
<1>4. d.rip = rip /\ d.rax = rax /\ d.sp = c.sp
    BY <1>1, Zenon
<1> QED
    BY <1>3, <1>4, Zenon DEF Registers

\* rt_sigprocmask opens frames and changes nothing else of them.
LEMMA FramesOpened ==
    ASSUME NEW fs \in Seq(FrameRecords), NEW m, NEW gs, gs = Opened(fs, m)
    PROVE  /\ gs \in Seq(FrameRecords) /\ Len(gs) = Len(fs)
           /\ \A i \in 1..Len(fs) :
                /\ gs[i].sig = fs[i].sig /\ gs[i].sp = fs[i].sp
                /\ gs[i].cpu = fs[i].cpu /\ gs[i].mask = fs[i].mask
                /\ fs[i].open => gs[i].open
                /\ ~gs[i].open => fs[i].sig \in m
<1>1. DOMAIN fs = 1..Len(fs) /\ \A i \in 1..Len(fs) : fs[i] \in FrameRecords
    OBVIOUS
<1>2. ASSUME NEW i \in 1..Len(fs)
      PROVE  /\ gs[i] \in FrameRecords
             /\ gs[i].sig = fs[i].sig /\ gs[i].sp = fs[i].sp
             /\ gs[i].cpu = fs[i].cpu /\ gs[i].mask = fs[i].mask
             /\ gs[i].open = (fs[i].open \/ fs[i].sig \notin m)
  <2>1. gs[i] = [fs[i] EXCEPT !.open = fs[i].open \/ fs[i].sig \notin m]
        BY <1>1, Zenon DEF Opened
  <2>2. fs[i] \in FrameRecords
        BY <1>1, Zenon
  <2> QED
        BY <2>1, <2>2, Zenon DEF FrameRecords
<1>3. gs \in Seq(FrameRecords) /\ Len(gs) = Len(fs)
  <2>1. gs \in [1..Len(fs) -> FrameRecords]
        BY <1>1, <1>2, Zenon DEF Opened
  <2> QED
        BY <2>1
<1> QED
    BY <1>2, <1>3, Zenon

\* What FinishSyscall may put in rip and rax.
LEMMA AfterIsExact ==
    ASSUME Types, NEW t \in Threads, Finishing(t), NEW a
    PROVE  /\ After(t)[2] # "ERESTARTSYS" => Exact(After(t)[1], After(t)[2])
           /\ Exact(After(t)[1],
                    IF After(t)[2] = "ERESTARTSYS" THEN "EINTR" ELSE After(t)[2])
           /\ Exact(Interrupted(t, a)[1], Interrupted(t, a)[2])
<1>1. call[t] \in Calls /\ result[t] \in Results /\ Exact(cpu[t].rip, cpu[t].rax)
    BY Zenon DEF Types, Registers
<1>2. Exact(<<"next">>, "EINTR")
    BY ExactAnswers, Zenon DEF Results
<1>3. CASE pc[t] = "returned"
  <2>1. After(t)[1] = cpu[t].rip /\ After(t)[2] = cpu[t].rax
        BY <1>3, Zenon DEF After
  <2>2. After(t)[2] # "ERESTARTSYS"
        BY <1>1, <2>1, Zenon DEF Exact
  <2>3. Interrupted(t, a) = After(t)
        BY <2>2, Zenon DEF Interrupted
  <2> QED
        BY <1>1, <2>1, <2>2, <2>3, Zenon
<1>4. CASE pc[t] # "returned"
  <2>1. After(t)[1] = <<"next">> /\ After(t)[2] = result[t]
        BY <1>4, Zenon DEF After
  <2>2. result[t] # "ERESTARTSYS" => Exact(<<"next">>, result[t])
        BY <1>1, ExactAnswers, Zenon
  <2>3. CASE result[t] # "ERESTARTSYS"
    <3>1. Interrupted(t, a) = After(t)
        BY <2>1, <2>3, Zenon DEF Interrupted
    <3> QED
        BY <2>1, <2>2, <2>3, <3>1, Zenon
  <2>4. CASE result[t] = "ERESTARTSYS"
    <3>1. Interrupted(t, a) = IF a.restart THEN <<Again(call[t]), call[t]>>
                                           ELSE <<<<"next">>, "EINTR">>
        BY <2>1, <2>4, Zenon DEF Interrupted
    <3>2. Exact(Again(call[t]), call[t])
        BY <1>1, ExactAnswers, Zenon
    <3>3. Exact(Interrupted(t, a)[1], Interrupted(t, a)[2])
        BY <3>1, <3>2, <1>2
    <3> QED
        BY <2>1, <2>4, <1>2, <3>3, Zenon
  <2> QED
        BY <2>3, <2>4, Zenon
<1> QED
    BY <1>3, <1>4, Zenon

\* Setting one thread's rip and rax moves nobody's stack pointer.
LEMMA RegistersStep ==
    ASSUME Types, NEW t \in Threads, NEW rip, NEW rax, Exact(rip, rax),
           cpu' = [cpu EXCEPT ![t].rip = rip, ![t].rax = rax]
    PROVE  /\ cpu' \in [Threads -> Registers]
           /\ \A u \in Threads : cpu'[u].sp = cpu[u].sp
<1>1. cpu \in [Threads -> Registers]
    BY Zenon DEF Types
<1>2. cpu' = [cpu EXCEPT ![t] = [cpu[t] EXCEPT !.rip = rip, !.rax = rax]]
    BY <1>1, Zenon
<1>3. /\ [cpu[t] EXCEPT !.rip = rip, !.rax = rax] \in Registers
      /\ [cpu[t] EXCEPT !.rip = rip, !.rax = rax].sp = cpu[t].sp
    BY <1>1, RegistersSet, Zenon
<1> QED
    BY <1>1, <1>2, <1>3, Zenon

\* The signal taken is queued, not blocked, and not SIGKILL.
LEMMA TakenIsReady ==
    ASSUME Types, NEW t \in Threads, SignalPending(t)
    PROVE  /\ LowestReady(t) \in pending[t] /\ LowestReady(t) \notin mask[t]
           /\ LowestReady(t) \in Sigs \ {SIGKILL}
           /\ actions[LowestReady(t)] \in SignalAction
           /\ Taken(LowestReady(t)) \in [Sigs -> SignalAction]
<1>1. pending[t] \in SUBSET (Sigs \ {SIGKILL}) /\ actions \in [Sigs -> SignalAction]
    BY Zenon DEF Types
<1>2. LowestReady(t) \in pending[t] \ mask[t]
    BY <1>1, ReadyIsTaken, SignalsAssumption, Zenon DEF LowestReady, SignalPending
<1>3. Default \in SignalAction
    BY Zenon DEF Default, SignalAction
<1>4. Taken(LowestReady(t)) \in [Sigs -> SignalAction]
    BY <1>1, <1>2, <1>3, Zenon DEF Taken
<1> QED
    BY <1>1, <1>2, <1>4, Zenon

\* A new frame f: where it starts, what it keeps.
FrameFor(t, s, a, f) ==
    /\ f \in FrameRecords /\ f.sig = s /\ f.sp = FrameBase(t, a)
    /\ f.open = a.nodefer /\ f.cpu.sp = cpu[t].sp /\ f.mask = mask[t]

LEMMA FrameIsTyped ==
    ASSUME Types, NEW t \in Threads, NEW s \in Sigs \ {SIGKILL}, NEW a \in SignalAction,
           NEW rip, NEW rax, Exact(rip, rax)
    PROVE  FrameFor(t, s, a, Frame(t, s, a, rip, rax))
<1>1. cpu[t] \in Registers /\ mask[t] \in SUBSET Sigs /\ alt[t] \in Nat
    BY Zenon DEF Types
<1>2. cpu[t].sp \in Places
    BY <1>1, Zenon DEF Registers
<1>3. FrameBase(t, a) \in Places
    BY <1>1, <1>2, Zenon DEF FrameBase, Places
<1>4. a.nodefer \in BOOLEAN
    BY Zenon DEF SignalAction
<1>5. /\ [cpu[t] EXCEPT !.rip = rip, !.rax = rax] \in Registers
      /\ [cpu[t] EXCEPT !.rip = rip, !.rax = rax].sp = cpu[t].sp
    BY <1>1, RegistersSet, Zenon
<1> QED
    BY <1>1, <1>3, <1>4, <1>5, Zenon DEF FrameFor, Frame, FrameRecords

-----------------------------------------------------------------------------
(* Types.                                                                   *)

\* An answered system call: the rest of a call's action touches other variables.
LEMMA AnswerTypes ==
    ASSUME Types, NEW t \in Threads, NEW r \in Results, Answers(t, r)
    PROVE  /\ cpu' \in [Threads -> Registers]
           /\ \A u \in Threads : cpu'[u].sp = cpu[u].sp
           /\ pc' = [pc EXCEPT ![t] = "finish"] /\ pc' \in [Threads -> Pcs]
           /\ result' = [result EXCEPT ![t] = r] /\ result' \in [Threads -> Results]
<1>1. Exact(<<"next">>, "ok")
    BY ExactAnswers, Zenon DEF Results
<1>2. /\ cpu' \in [Threads -> Registers]
      /\ \A u \in Threads : cpu'[u].sp = cpu[u].sp
    BY <1>1, RegistersStep, Zenon DEF Answers, Entered
<1> QED
    BY <1>2, Zenon DEF Answers, Types, Pcs

LEMMA ResumeTypes ==
    ASSUME Types, NEW t \in Threads, NEW rip, NEW rax, Exact(rip, rax), Resume(t, rip, rax)
    PROVE  /\ cpu' \in [Threads -> Registers]
           /\ \A u \in Threads : cpu'[u].sp = cpu[u].sp
           /\ pc' = [pc EXCEPT ![t] = "code"] /\ pc' \in [Threads -> Pcs]
           /\ result' = [result EXCEPT ![t] = "ok"] /\ result' \in [Threads -> Results]
           /\ call' \in [Threads -> Calls]
<1>1. /\ cpu' \in [Threads -> Registers]
      /\ \A u \in Threads : cpu'[u].sp = cpu[u].sp
    BY RegistersStep, Zenon DEF Resume
<1> QED
    BY <1>1, Zenon DEF Resume, Forget, Types, Pcs, Results, Calls, Sliced

LEMMA QueueTypes ==
    ASSUME Types, NEW u \in Threads, NEW s \in Sigs, QueueSignal(u, s)
    PROVE  /\ pending' \in [Threads -> SUBSET (Sigs \ {SIGKILL})]
           /\ \A t \in Threads : pending[t] \subseteq pending'[t]
BY Zenon DEF Types, QueueSignal

LEMMA EndsTypes ==
    ASSUME Types, NEW t \in Threads, Ends(t), UNCHANGED cpu,
           actions' \in [Sigs -> SignalAction]
    PROVE  Types'
BY DEF Types, Ends, Forget, Pcs, Results, Calls, Sliced

LEMMA MaskOpensFrames ==
    ASSUME Types, NEW t \in Threads, NEW m, Sigprocmask(t, m)
    PROVE  /\ frames'[t] \in Seq(FrameRecords)
           /\ Len(frames'[t]) = Len(frames[t]) /\ Len(frames[t]) \in Nat
           /\ \A i \in 1..Len(frames[t]) :
                /\ frames'[t][i].sig = frames[t][i].sig
                /\ frames'[t][i].sp = frames[t][i].sp
                /\ frames'[t][i].cpu = frames[t][i].cpu
                /\ frames'[t][i].mask = frames[t][i].mask
                /\ frames[t][i].open => frames'[t][i].open
                /\ ~frames'[t][i].open => frames[t][i].sig \in Blockable(m)
<1>1. frames[t] \in Seq(FrameRecords)
    BY Zenon DEF Types
<1>2. frames'[t] = Opened(frames[t], Blockable(m))
    BY Zenon DEF Sigprocmask, Types
<1> QED
    BY <1>1, <1>2, FramesOpened

\* A call that answers at once moves no stack pointer and only its own thread.
LEMMA CallAnswers ==
    ASSUME Types, NEW t \in Threads, Calling(t), Answers(t, "ok")
    PROVE  /\ \A u \in Threads : cpu'[u].sp = cpu[u].sp
           /\ pc[t] # "ended" /\ \A u \in Threads \ {t} : pc'[u] = pc[u]
<1>1. "ok" \in Results
    BY Zenon DEF Results
<1>2. (\A u \in Threads : cpu'[u].sp = cpu[u].sp) /\ pc' = [pc EXCEPT ![t] = "finish"]
    BY <1>1, AnswerTypes, Zenon
<1>3. pc \in [Threads -> Pcs]
    BY Zenon DEF Types
<1> QED
    BY <1>2, <1>3, Zenon DEF Calling

\* Every step keeps the types.
LEMMA TypesStep ==
    ASSUME Types, Next
    PROVE  Types'
<1> PICK t \in Threads :
        \/ \E s \in Sigs : KillFromAfar(t, s)
        \/ SystemCall(t) \/ WaitEnds(t) \/ WaitInterrupted(t) \/ Stop(t) \/ Finish(t)
    BY Zenon DEF Next
<1>0. "ok" \in Results /\ "ERESTARTSYS" \in Results /\ "sleep" \in Calls
    BY Zenon DEF Results, Calls, Sliced
<1>1. ASSUME NEW s \in Sigs, KillFromAfar(t, s) PROVE Types'
    BY <1>1, QueueTypes, Zenon DEF KillFromAfar, Types
<1>2. ASSUME NEW u \in Threads, NEW s \in Sigs, Kill(t, u, s) PROVE Types'
    BY <1>0, <1>2, QueueTypes, AnswerTypes, Zenon DEF Kill, Types, Pcs
<1>3. ASSUME NEW s \in Sigs, NEW a \in Actions, Sigaction(t, s, a) PROVE Types'
  <2>1. actions' \in [Sigs -> SignalAction]
        BY <1>3, SignalsAssumption, Zenon DEF Types, Sigaction
  <2> QED
        BY <1>0, <1>3, <2>1, AnswerTypes, Zenon DEF Sigaction, Types, Pcs
<1>4. ASSUME NEW m \in Masks, Sigprocmask(t, m) PROVE Types'
  <2>2. frames'[t] \in Seq(FrameRecords)
        BY <1>4, MaskOpensFrames, Zenon
  <2>3. frames' \in [Threads -> Seq(FrameRecords)]
        BY <1>4, <2>2, Zenon DEF Sigprocmask, Types
  <2>4. mask' \in [Threads -> SUBSET Sigs]
        BY <1>4, SignalsAssumption, Zenon DEF Sigprocmask, Types, Blockable
  <2> QED
        BY <1>0, <1>4, <2>3, <2>4, AnswerTypes, Zenon DEF Sigprocmask, Types, Pcs
<1>5. ASSUME NEW k \in AltStacks \cup {0}, Sigaltstack(t, k) PROVE Types'
  <2>0. k \in Nat
        BY SignalsAssumption
  <2>1. alt' \in [Threads -> Nat] /\ moved' \subseteq Threads
    <3>1. alt' = [alt EXCEPT ![t] = k] /\ (moved' = moved \/ moved' = moved \cup {t})
          BY <1>5, Zenon DEF Sigaltstack
    <3>  QED
          BY <2>0, <3>1, Zenon DEF Types
  <2> QED
        BY <1>0, <1>5, <2>1, AnswerTypes, Zenon DEF Sigaltstack, Types, Pcs
<1>6. ASSUME NEW c \in Calls, Wait(t, c) PROVE Types'
  <2>1. cpu' \in [Threads -> Registers]
        BY <1>0, <1>6, ExactAnswers, RegistersStep, Zenon DEF Wait, Entered
  <2> QED
        BY <1>6, <2>1, Zenon DEF Wait, Types, Pcs
<1>7. CASE Sigreturn(t)
  <2>1. frames[t] \in Seq(FrameRecords) /\ frames[t] # <<>>
        BY <1>7, Zenon DEF Types, Sigreturn
  <2>2. frames[t][Len(frames[t])] \in FrameRecords
        BY <2>1
  <2>3. SubSeq(frames[t], 1, Len(frames[t]) - 1) \in Seq(FrameRecords)
        BY <2>1
  <2>4. frames' \in [Threads -> Seq(FrameRecords)]
        BY <1>7, <2>3, Zenon DEF Sigreturn, Types
  <2>5. /\ cpu' \in [Threads -> Registers]
        /\ mask' \in [Threads -> SUBSET Sigs]
        BY <1>7, <2>2, Zenon DEF Sigreturn, Types, FrameRecords, Blockable
  <2> QED
        BY <1>7, <2>4, <2>5, Zenon DEF Sigreturn, Types, Pcs
<1>8. CASE WaitEnds(t)
  <2>1. call' \in [Threads -> Calls]
        BY <1>0, <1>8, Zenon DEF WaitEnds, Types
  <2> QED
        BY <1>0, <1>8, <2>1, AnswerTypes, Zenon DEF WaitEnds, Types, Pcs
<1>9. CASE WaitInterrupted(t)
    BY <1>0, <1>9, AnswerTypes, Zenon DEF WaitInterrupted, Types, Pcs
<1>10. CASE Stop(t)
    BY <1>10, EndsTypes, Zenon DEF Stop, Types
<1>11. CASE FinishPlain(t)
    BY <1>11, AfterIsExact, ResumeTypes, Zenon DEF FinishPlain, Types, Pcs
<1>12. CASE TakeIgnored(t)
  <2>1. SignalPending(t) /\ Finishing(t)
        BY <1>12, Zenon DEF TakeIgnored
  <2>2. pending' \in [Threads -> SUBSET (Sigs \ {SIGKILL})]
        BY <1>12, Zenon DEF TakeIgnored, Discard, Types
  <2>3. actions' \in [Sigs -> SignalAction]
        BY <1>12, <2>1, TakenIsReady, Zenon DEF TakeIgnored
  <2>4. /\ cpu' \in [Threads -> Registers] /\ pc' \in [Threads -> Pcs]
        /\ call' \in [Threads -> Calls] /\ result' \in [Threads -> Results]
    <3>1. CASE UNCHANGED <<pc, cpu, call, result>>
        BY <3>1, Zenon DEF Types, Pcs
    <3>2. CASE Resume(t, Again(call[t]), call[t])
      <4>1. Exact(Again(call[t]), call[t])
            BY ExactAnswers, Zenon DEF Types
      <4> QED
            BY <3>2, <4>1, ResumeTypes, Zenon
    <3>3. CASE After(t)[2] # "ERESTARTSYS" /\ Resume(t, After(t)[1], After(t)[2])
        BY <2>1, <3>3, AfterIsExact, ResumeTypes, Zenon
    <3> QED
        BY <1>12, <3>1, <3>2, <3>3, Zenon DEF TakeIgnored
  <2> QED
        BY <1>12, <2>2, <2>3, <2>4, Zenon DEF TakeIgnored, Types, Pcs
<1>13. CASE TakeFatal(t)
    BY <1>13, TakenIsReady, EndsTypes, Zenon DEF TakeFatal
<1>14. CASE TakeHandled(t)
  <2> DEFINE s == LowestReady(t)
             a == actions[s]
             f == Frame(t, s, a, Interrupted(t, a)[1], Interrupted(t, a)[2])
  <2>1. SignalPending(t) /\ Finishing(t)
        BY <1>14, Zenon DEF TakeHandled
  <2>2. s \in Sigs \ {SIGKILL} /\ a \in SignalAction /\ actions' \in [Sigs -> SignalAction]
        BY <1>14, <2>1, TakenIsReady, Zenon DEF TakeHandled
  <2>3. f \in FrameRecords
        BY <2>1, <2>2, AfterIsExact, FrameIsTyped, Zenon DEF FrameFor
  <2>4. /\ frames' = [frames EXCEPT ![t] = Append(@, f)]
        /\ cpu' = [cpu EXCEPT ![t] = [rip |-> <<"next">>, rax |-> "ok", sp |-> Cell(f)]]
        /\ mask' = [mask EXCEPT ![t] = HandlerMask(t, s, a)]
        /\ pending' = [pending EXCEPT ![t] = @ \ {s}]
        BY <1>14, Zenon DEF TakeHandled
  <2>5. HandlerMask(t, s, a) \in SUBSET Sigs
        BY <2>2, Zenon DEF HandlerMask, Types, SignalAction
  <2>6. Cell(f) \in Places
        BY <2>3 DEF Cell, FrameRecords, Places
  <2>7. [rip |-> <<"next">>, rax |-> "ok", sp |-> Cell(f)] \in Registers
        BY <1>0, <2>6, ExactAnswers, Zenon DEF Registers, Rips
  <2> HIDE DEF f, a, s
  <2>8. frames' \in [Threads -> Seq(FrameRecords)]
        BY <2>3, <2>4 DEF Types
  <2>9. /\ cpu' \in [Threads -> Registers] /\ mask' \in [Threads -> SUBSET Sigs]
        /\ pending' \in [Threads -> SUBSET (Sigs \ {SIGKILL})]
        BY <2>4, <2>5, <2>7, Zenon DEF Types
  <2> QED
        BY <1>0, <1>14, <2>2, <2>8, <2>9, Zenon DEF TakeHandled, Forget, Types, Pcs
<1>15. CASE TakeFails(t)
  <2>1. SignalPending(t) /\ Finishing(t)
        BY <1>15, Zenon DEF TakeFails
  <2>2. pending' \in [Threads -> SUBSET (Sigs \ {SIGKILL})]
        BY <1>15, Zenon DEF TakeFails, Types
  <2>3. actions' \in [Sigs -> SignalAction]
        BY <1>15, <2>1, TakenIsReady, Zenon DEF TakeFails
  <2> QED
        BY <1>15, <2>1, <2>2, <2>3, AfterIsExact, ResumeTypes, Zenon DEF TakeFails, Types, Pcs
<1> QED
    BY <1>1, <1>2, <1>3, <1>4, <1>5, <1>6, <1>7, <1>8, <1>9, <1>10, <1>11, <1>12, <1>13,
       <1>14, <1>15, Zenon DEF SystemCall, Finish

-----------------------------------------------------------------------------
(* A call cut short for a signal finds one.                                  *)

\* What the other threads see of a step of thread t.
Apart(t) ==
    \A u \in Threads \ {t} :
        /\ pc'[u] = pc[u] /\ result'[u] = result[u] /\ mask'[u] = mask[u]
        /\ pending[u] \subseteq pending'[u]

LEMMA InterruptedStep ==
    ASSUME Types, InterruptedForASignal, Next
    PROVE  InterruptedForASignal'
<1> PICK t \in Threads :
        \/ \E s \in Sigs : KillFromAfar(t, s)
        \/ SystemCall(t) \/ WaitEnds(t) \/ WaitInterrupted(t) \/ Stop(t) \/ Finish(t)
    BY Zenon DEF Next
<1> DEFINE Mine == pc'[t] = "finish" /\ result'[t] = "ERESTARTSYS" => SignalPending(t)'
<1>0. "ok" \in Results /\ "ERESTARTSYS" \in Results
    BY Zenon DEF Results
<1>a. ASSUME Apart(t), Mine PROVE InterruptedForASignal'
  <2> SUFFICES ASSUME NEW u \in Threads, pc'[u] = "finish", result'[u] = "ERESTARTSYS"
               PROVE  SignalPending(u)'
        BY Zenon DEF InterruptedForASignal
  <2> QED
        BY <1>a, Zenon DEF Apart, InterruptedForASignal, SignalPending
<1>b. ASSUME Answers(t, "ok"), UNCHANGED pending,
             \A u \in Threads \ {t} : mask'[u] = mask[u]
      PROVE  Apart(t) /\ Mine
    BY <1>0, <1>b, AnswerTypes DEF Apart, Types
<1>c. ASSUME pc' = [pc EXCEPT ![t] = "code"] \/ pc' = [pc EXCEPT ![t] = "ended"],
             result' = [result EXCEPT ![t] = "ok"],
             \A u \in Threads \ {t} : mask'[u] = mask[u] /\ pending'[u] = pending[u]
      PROVE  Apart(t) /\ Mine
    BY <1>c, Zenon DEF Apart, Types
<1> HIDE DEF Mine
<1>1. ASSUME NEW s \in Sigs, KillFromAfar(t, s) PROVE InterruptedForASignal'
    BY <1>1, QueueTypes, Zenon DEF KillFromAfar, InterruptedForASignal, SignalPending
<1>2. ASSUME NEW u \in Threads, NEW s \in Sigs, Kill(t, u, s) PROVE InterruptedForASignal'
  <2>1. Apart(t) /\ Mine
        BY <1>0, <1>2, QueueTypes, AnswerTypes DEF Kill, Apart, Mine, Types
  <2> QED
        BY <2>1, <1>a, Zenon
<1>3. ASSUME NEW s \in Sigs, NEW a \in Actions, Sigaction(t, s, a) PROVE InterruptedForASignal'
    BY <1>a, <1>b, <1>3, Zenon DEF Sigaction
<1>4. ASSUME NEW m \in Masks, Sigprocmask(t, m) PROVE InterruptedForASignal'
    BY <1>a, <1>b, <1>4, Zenon DEF Sigprocmask, Types
<1>5. ASSUME NEW k \in AltStacks \cup {0}, Sigaltstack(t, k) PROVE InterruptedForASignal'
    BY <1>a, <1>b, <1>5, Zenon DEF Sigaltstack
<1>6. ASSUME NEW c \in Calls, Wait(t, c) PROVE InterruptedForASignal'
    BY <1>a, <1>6, Zenon DEF Wait, Apart, Mine, Types
<1>7. CASE Sigreturn(t)
  <2>1. Apart(t) /\ Mine
        BY <1>7, Zenon DEF Sigreturn, Apart, Mine, Types
  <2> QED
        BY <2>1, <1>a, Zenon
<1>8. CASE WaitEnds(t)
    BY <1>a, <1>b, <1>8, Zenon DEF WaitEnds
<1>9. CASE WaitInterrupted(t)
  <2>1. Apart(t) /\ Mine
        BY <1>0, <1>9, AnswerTypes DEF WaitInterrupted, Sees, SignalPending, Apart, Mine, Types
  <2> QED
        BY <2>1, <1>a, Zenon
<1>10. CASE Stop(t)
    BY <1>a, <1>c, <1>10, Zenon DEF Stop, Ends, Forget, Types
<1>11. CASE FinishPlain(t)
    BY <1>a, <1>c, <1>11, Zenon DEF FinishPlain, Resume, Forget
<1>12. CASE TakeIgnored(t)
  <2>1. pending' = [pending EXCEPT ![t] = @ \ {LowestReady(t)}] /\ UNCHANGED mask
        BY <1>12, Zenon DEF TakeIgnored, Discard
  <2>2. \A u \in Threads \ {t} : mask'[u] = mask[u] /\ pending'[u] = pending[u]
        BY <2>1, Zenon DEF Types
  <2>3. ASSUME NEW rip, NEW rax, Resume(t, rip, rax) PROVE Apart(t) /\ Mine
        BY <1>c, <2>2, <2>3, Zenon DEF Resume, Forget
  <2>4. CASE /\ pending[t] \ (mask[t] \cup {LowestReady(t)}) # {}
             /\ UNCHANGED <<pc, cpu, call, result>>
    <3>1. SignalPending(t)'
        BY <2>1, <2>4, Zenon DEF SignalPending, Types
    <3> QED
        BY <1>a, <2>2, <2>4, <3>1, Zenon DEF Apart, Mine
  <2> QED
        BY <1>a, <1>12, <2>3, <2>4, Zenon DEF TakeIgnored
<1>13. CASE TakeFatal(t)
    BY <1>a, <1>c, <1>13, Zenon DEF TakeFatal, Ends, Forget, Types
<1>14. CASE TakeHandled(t)
    BY <1>a, <1>c, <1>14, Zenon DEF TakeHandled, Forget, Types
<1>15. CASE TakeFails(t)
    BY <1>a, <1>c, <1>15, Zenon DEF TakeFails, Resume, Forget, Types
<1> QED
    BY <1>1, <1>2, <1>3, <1>4, <1>5, <1>6, <1>7, <1>8, <1>9, <1>10, <1>11, <1>12, <1>13,
       <1>14, <1>15, Zenon DEF SystemCall, Finish

-----------------------------------------------------------------------------
(* Frames.                                                                  *)

\* A step that moves no frame, mask or stack.
Still ==
    /\ UNCHANGED <<frames, mask, alt, moved>>
    /\ \A u \in Threads : /\ cpu'[u].sp = cpu[u].sp
                          /\ pc'[u] # "ended" => pc[u] # "ended"

\* The end of a thread.
Gone(t) ==
    /\ pc' = [pc EXCEPT ![t] = "ended"] /\ UNCHANGED cpu
    /\ mask' = [mask EXCEPT ![t] = {}] /\ alt' = [alt EXCEPT ![t] = 0]
    /\ frames' = [frames EXCEPT ![t] = <<>>] /\ moved' = moved \ {t}

\* A handler's frame f is pushed, for signal s by action a.
Pushed(t, s, a, f) ==
    /\ f \in FrameRecords /\ s \notin mask[t] /\ a \in SignalAction
    /\ f.sig = s /\ f.sp = FrameBase(t, a) /\ f.open = a.nodefer
    /\ f.cpu.sp = cpu[t].sp /\ f.mask = mask[t]
    /\ pc[t] # "ended"
    /\ frames' = [frames EXCEPT ![t] = Append(@, f)]
    /\ mask' = [mask EXCEPT ![t] = HandlerMask(t, s, a)]
    /\ cpu' = [cpu EXCEPT ![t] = [rip |-> <<"next">>, rax |-> "ok", sp |-> Cell(f)]]
    /\ pc' = [pc EXCEPT ![t] = "code"]
    /\ UNCHANGED <<alt, moved>>

\* The five ways a step touches a thread's frames, and the one it does not.
LEMMA StepKinds ==
    ASSUME Types, Next
    PROVE  \/ Still
           \/ \E t \in Threads :
                \/ \E m \in Masks : Sigprocmask(t, m)
                \/ \E k \in AltStacks \cup {0} : Sigaltstack(t, k)
                \/ Sigreturn(t)
                \/ Gone(t)
                \/ \E s \in Sigs \ {SIGKILL} : \E a, f : Pushed(t, s, a, f)
<1> PICK t \in Threads :
        \/ \E s \in Sigs : KillFromAfar(t, s)
        \/ SystemCall(t) \/ WaitEnds(t) \/ WaitInterrupted(t) \/ Stop(t) \/ Finish(t)
    BY Zenon DEF Next
<1>0. "ok" \in Results /\ "ERESTARTSYS" \in Results
    BY Zenon DEF Results
<1>a. ASSUME NEW r \in Results, Answers(t, r), UNCHANGED <<frames, mask, alt, moved>>,
             pc[t] # "ended"
      PROVE  Still
    BY <1>a, AnswerTypes DEF Still, Types
<1>b. ASSUME NEW rip, NEW rax, Exact(rip, rax), Resume(t, rip, rax), pc[t] # "ended",
             UNCHANGED <<frames, mask, alt, moved>>
      PROVE  Still
    BY <1>b, ResumeTypes DEF Still, Types
<1>1. ASSUME NEW s \in Sigs, KillFromAfar(t, s) PROVE Still
    BY <1>1, Zenon DEF KillFromAfar, Still
<1>2. ASSUME NEW u \in Threads, NEW s \in Sigs, Kill(t, u, s) PROVE Still
    BY <1>0, <1>a, <1>2, Zenon DEF Kill, Calling
<1>3. ASSUME NEW s \in Sigs, NEW a \in Actions, Sigaction(t, s, a) PROVE Still
    BY <1>0, <1>a, <1>3, Zenon DEF Sigaction, Calling
<1>6. ASSUME NEW c \in Calls, Wait(t, c) PROVE Still
  <2>1. \A u \in Threads : cpu'[u].sp = cpu[u].sp
        BY <1>0, <1>6, ExactAnswers, RegistersStep, Zenon DEF Wait, Entered
  <2> QED
        BY <1>6, <2>1, Zenon DEF Wait, Still, Types
<1>8. CASE WaitEnds(t)
    BY <1>0, <1>a, <1>8, Zenon DEF WaitEnds
<1>9. CASE WaitInterrupted(t)
    BY <1>0, <1>a, <1>9, Zenon DEF WaitInterrupted
<1>10. ASSUME Ends(t), UNCHANGED cpu PROVE Gone(t)
    BY <1>10, Zenon DEF Ends, Gone
<1>11. CASE FinishPlain(t)
    BY <1>b, <1>11, AfterIsExact, Zenon DEF FinishPlain, Finishing
<1>12. CASE TakeIgnored(t)
  <2>1. /\ Finishing(t) /\ pc[t] # "ended" /\ UNCHANGED <<frames, mask, alt, moved>>
        BY <1>12, Zenon DEF TakeIgnored, Finishing
  <2>2. CASE UNCHANGED <<pc, cpu, call, result>>
        BY <2>1, <2>2, Zenon DEF Still
  <2>3. CASE Resume(t, Again(call[t]), call[t])
    <3>1. Exact(Again(call[t]), call[t])
        BY ExactAnswers, Zenon DEF Types
    <3> QED
        BY <1>b, <2>1, <2>3, <3>1, Zenon
  <2>4. CASE After(t)[2] # "ERESTARTSYS" /\ Resume(t, After(t)[1], After(t)[2])
        BY <1>b, <2>1, <2>4, AfterIsExact, Zenon
  <2> QED
        BY <1>12, <2>2, <2>3, <2>4, Zenon DEF TakeIgnored
<1>14. CASE TakeHandled(t)
  <2> DEFINE s == LowestReady(t)
             a == actions[s]
             rip == Interrupted(t, a)[1]
             rax == Interrupted(t, a)[2]
             f == Frame(t, s, a, rip, rax)
  <2>1. SignalPending(t) /\ Finishing(t) /\ pc[t] # "ended"
        BY <1>14, Zenon DEF TakeHandled, Finishing
  <2>2. s \in Sigs \ {SIGKILL} /\ a \in SignalAction /\ s \notin mask[t]
        BY <2>1, TakenIsReady, Zenon
  <2>3. Exact(rip, rax)
        BY <2>1, AfterIsExact, Zenon
  <2>4. /\ frames' = [frames EXCEPT ![t] = Append(@, f)]
        /\ mask' = [mask EXCEPT ![t] = HandlerMask(t, s, a)]
        /\ cpu' = [cpu EXCEPT ![t] = [rip |-> <<"next">>, rax |-> "ok", sp |-> Cell(f)]]
        /\ pc' = [pc EXCEPT ![t] = "code"]
        /\ UNCHANGED <<alt, moved>>
        BY <1>14, Zenon DEF TakeHandled
  <2> HIDE DEF rip, rax, a, s
  <2>5. FrameFor(t, s, a, f)
        BY <2>2, <2>3, FrameIsTyped, Zenon
  <2> HIDE DEF f
  <2>6. Pushed(t, s, a, f)
        BY <2>1, <2>2, <2>4, <2>5, Zenon DEF Pushed, FrameFor
  <2> QED
        BY <2>2, <2>6, Zenon
<1>15. CASE TakeFails(t)
    BY <1>b, <1>15, AfterIsExact, Zenon DEF TakeFails, Finishing
<1> QED
    BY <1>1, <1>2, <1>3, <1>6, <1>8, <1>9, <1>10, <1>11, <1>12, <1>14, <1>15, Zenon
    DEF SystemCall, Finish, Stop, TakeFatal

\* Pushing a frame: the others stay where they are.
LEMMA PushedFrames ==
    ASSUME Types, NEW t \in Threads, NEW s, NEW a, NEW f, Pushed(t, s, a, f)
    PROVE  /\ Len(frames'[t]) = Len(frames[t]) + 1 /\ Len(frames[t]) \in Nat
           /\ frames'[t][Len(frames[t]) + 1] = f
           /\ \A i \in 1..Len(frames[t]) : frames'[t][i] = frames[t][i]
           /\ \A u \in Threads \ {t} : frames'[u] = frames[u]
<1>1. frames[t] \in Seq(FrameRecords) /\ f \in FrameRecords
    BY Zenon DEF Types, Pushed
<1>2. frames'[t] = Append(frames[t], f) /\ \A u \in Threads \ {t} : frames'[u] = frames[u]
    BY Zenon DEF Types, Pushed
<1> QED
    BY <1>1, <1>2

\* rt_sigreturn: the last frame is gone and the others stay.
LEMMA PoppedFrames ==
    ASSUME Types, NEW t \in Threads, Sigreturn(t)
    PROVE  /\ Len(frames[t]) \in Nat \ {0} /\ Len(frames'[t]) = Len(frames[t]) - 1
           /\ \A i \in 1..(Len(frames[t]) - 1) : frames'[t][i] = frames[t][i]
           /\ \A u \in Threads \ {t} : frames'[u] = frames[u]
           /\ cpu' = [cpu EXCEPT ![t] = frames[t][Len(frames[t])].cpu]
           /\ mask' = [mask EXCEPT ![t] = Blockable(frames[t][Len(frames[t])].mask)]
           /\ frames[t][Len(frames[t])] \in FrameRecords
<1>1. frames[t] \in Seq(FrameRecords) /\ frames[t] # <<>>
    BY Zenon DEF Types, Sigreturn
<1>2. /\ frames'[t] = SubSeq(frames[t], 1, Len(frames[t]) - 1)
      /\ \A u \in Threads \ {t} : frames'[u] = frames[u]
    BY Zenon DEF Types, Sigreturn
<1>3. /\ cpu' = [cpu EXCEPT ![t] = frames[t][Len(frames[t])].cpu]
      /\ mask' = [mask EXCEPT ![t] = Blockable(frames[t][Len(frames[t])].mask)]
    BY Zenon DEF Sigreturn
<1> QED
    BY <1>1, <1>2, <1>3

-----------------------------------------------------------------------------
(* Handlers and masks.                                                      *)

\* Blocked and NotReentered, of one thread.
BlockedIn(fs, m) ==
    \A i \in 1..Len(fs) :
        ~fs[i].open => /\ fs[i].sig \in m
                       /\ \A j \in 1..Len(fs) : i < j => fs[i].sig \in fs[j].mask
OnceIn(fs) ==
    \A i, j \in 1..Len(fs) : i < j /\ fs[i].sig = fs[j].sig => fs[i].open

LEMMA PerThread ==
    ASSUME Types
    PROVE  /\ Blocked <=> \A t \in Threads : BlockedIn(frames[t], mask[t])
           /\ NotReentered <=> \A t \in Threads : OnceIn(frames[t])
<1>1. \A t \in Threads : DOMAIN frames[t] = 1..Len(frames[t])
    BY DEF Types
<1> QED
    BY <1>1, Zenon DEF Blocked, BlockedIn, NotReentered, OnceIn

LEMMA BlockedStep ==
    ASSUME Types, Types', Blocked, NotReentered, Next
    PROVE  Blocked' /\ NotReentered'
<1> DEFINE Good(u) == BlockedIn(frames[u], mask[u]) /\ OnceIn(frames[u])
<1>0. \A u \in Threads : Good(u)
    BY PerThread, Zenon
<1>a. ASSUME \A u \in Threads : Good(u)' PROVE Blocked' /\ NotReentered'
  <2>1. \A t \in Threads : DOMAIN frames'[t] = 1..Len(frames'[t])
        BY DEF Types
  <2> QED
        BY <1>a, <2>1, Zenon DEF Blocked, BlockedIn, NotReentered, OnceIn
<1>b. ASSUME NEW t \in Threads, Good(t)',
             \A u \in Threads \ {t} : frames'[u] = frames[u] /\ mask'[u] = mask[u]
      PROVE  \A u \in Threads : Good(u)'
    BY <1>0, <1>b, Zenon
<1>1. CASE Still
    BY <1>0, <1>1, <1>a, Zenon DEF Still
<1>2. ASSUME NEW t \in Threads, NEW m \in Masks, Sigprocmask(t, m)
      PROVE  \A u \in Threads : Good(u)'
  <2>1. mask'[t] = Blockable(m) /\ \A u \in Threads \ {t} : /\ frames'[u] = frames[u]
                                                            /\ mask'[u] = mask[u]
        BY <1>2, Zenon DEF Sigprocmask, Types
  <2>2. BlockedIn(frames[t], mask[t]) /\ OnceIn(frames[t])
        BY <1>0, Zenon
  <2>3. BlockedIn(frames'[t], mask'[t])
        BY <1>2, <2>1, <2>2, MaskOpensFrames DEF BlockedIn
  <2>4. OnceIn(frames'[t])
        BY <1>2, <2>2, MaskOpensFrames DEF OnceIn
  <2> QED
        BY <1>b, <2>1, <2>3, <2>4, Zenon
<1>3. ASSUME NEW t \in Threads, NEW k, Sigaltstack(t, k)
      PROVE  \A u \in Threads : Good(u)'
    BY <1>0, <1>3, Zenon DEF Sigaltstack
<1>4. ASSUME NEW t \in Threads, Sigreturn(t)
      PROVE  \A u \in Threads : Good(u)'
  <2> DEFINE n == Len(frames[t])
  <2>1. /\ n \in Nat \ {0} /\ Len(frames'[t]) = n - 1
        /\ \A i \in 1..(n - 1) : frames'[t][i] = frames[t][i]
        BY <1>4, PoppedFrames, Zenon
  <2>2. mask'[t] = Blockable(frames[t][n].mask)
        BY <1>4, PoppedFrames DEF Types
  <2>3. \A i \in 1..n : frames[t][i].sig # SIGKILL
    <3>1. frames[t] \in Seq(FrameRecords)
        BY Zenon DEF Types
    <3>2. \A i \in 1..n : frames[t][i] \in FrameRecords
        BY <3>1
    <3> QED
        BY <3>2, Zenon DEF FrameRecords
  <2>4. BlockedIn(frames[t], mask[t]) /\ OnceIn(frames[t]) /\ n = Len(frames[t])
        BY <1>0, Zenon
  <2> HIDE DEF n
  <2>5. BlockedIn(frames'[t], mask'[t])
    <3>1. \A i \in 1..(n - 1) : i \in 1..n /\ n \in 1..n /\ i < n
        BY <2>1
    <3>2. ASSUME NEW i \in 1..(n - 1), ~frames'[t][i].open
          PROVE  /\ frames'[t][i].sig \in mask'[t]
                 /\ \A j \in 1..(n - 1) : i < j => frames'[t][i].sig \in frames'[t][j].mask
      <4>1. ~frames[t][i].open /\ frames'[t][i].sig = frames[t][i].sig
        BY <2>1, <3>2, Zenon
      <4>2. /\ frames[t][i].sig \in mask'[t]
            /\ \A j \in 1..(n - 1) : i < j => frames[t][i].sig \in frames[t][j].mask
        BY <2>2, <2>3, <2>4, <3>1, <4>1, Zenon DEF BlockedIn, Blockable
      <4> QED
        BY <2>1, <4>1, <4>2, Zenon
    <3> QED
        BY <2>1, <3>2, Zenon DEF BlockedIn
  <2>6. OnceIn(frames'[t])
    <3>1. \A i \in 1..(n - 1) : i \in 1..n
        BY <2>1
    <3> QED
        BY <2>1, <2>4, <3>1, Zenon DEF OnceIn
  <2>7. \A u \in Threads \ {t} : frames'[u] = frames[u] /\ mask'[u] = mask[u]
        BY <1>4, PoppedFrames DEF Types
  <2> QED
        BY <1>b, <2>5, <2>6, <2>7, Zenon
<1>5. ASSUME NEW t \in Threads, Gone(t)
      PROVE  \A u \in Threads : Good(u)'
  <2>1. frames'[t] = <<>> /\ \A u \in Threads \ {t} : frames'[u] = frames[u] /\ mask'[u] = mask[u]
        BY <1>5, Zenon DEF Gone, Types
  <2>2. BlockedIn(frames'[t], mask'[t]) /\ OnceIn(frames'[t])
        BY <2>1 DEF BlockedIn, OnceIn
  <2> QED
        BY <1>b, <2>1, <2>2, Zenon
<1>6. ASSUME NEW t \in Threads, NEW s \in Sigs \ {SIGKILL}, NEW a, NEW f, Pushed(t, s, a, f)
      PROVE  \A u \in Threads : Good(u)'
  <2> DEFINE n == Len(frames[t])
  <2>1. /\ n \in Nat /\ Len(frames'[t]) = n + 1 /\ frames'[t][n + 1] = f
        /\ \A i \in 1..n : frames'[t][i] = frames[t][i]
        BY <1>6, PushedFrames
  <2>2. /\ f.sig = s /\ s \notin mask[t] /\ f.mask = mask[t] /\ f.open = a.nodefer
        /\ mask'[t] = HandlerMask(t, s, a)
        BY <1>6, Zenon DEF Pushed, Types
  <2>3. mask[t] \subseteq mask'[t] /\ (~f.open => s \in mask'[t])
        BY <2>2, Zenon DEF HandlerMask
  <2>4. BlockedIn(frames[t], mask[t]) /\ OnceIn(frames[t]) /\ n = Len(frames[t])
        BY <1>0, Zenon
  <2>5. \A i \in 1..n : frames[t][i].sig = s => frames[t][i].open
        BY <2>2, <2>4, Zenon DEF BlockedIn
  <2> HIDE DEF n
  <2>a. \A i \in 1..(n + 1) : i = n + 1 \/ i \in 1..n
        BY <2>1
  <2>6. BlockedIn(frames'[t], mask'[t])
    <3> SUFFICES ASSUME NEW i \in 1..(n + 1), ~frames'[t][i].open
                 PROVE  /\ frames'[t][i].sig \in mask'[t]
                        /\ \A j \in 1..(n + 1) :
                                i < j => frames'[t][i].sig \in frames'[t][j].mask
        BY <2>1, Zenon DEF BlockedIn
    <3>1. CASE i = n + 1
        BY <2>1, <2>2, <2>3, <3>1
    <3>2. CASE i \in 1..n
      <4>1. /\ frames'[t][i] = frames[t][i] /\ frames[t][i].sig \in mask[t]
            /\ \A j \in 1..n : i < j => frames[t][i].sig \in frames[t][j].mask
            BY <2>1, <2>4, <3>2, Zenon DEF BlockedIn
      <4>2. ASSUME NEW j \in 1..(n + 1), i < j PROVE frames[t][i].sig \in frames'[t][j].mask
            BY <2>1, <2>2, <2>a, <4>1, <4>2, Zenon
      <4> QED
            BY <2>3, <4>1, <4>2, Zenon
    <3> QED
        BY <2>a, <3>1, <3>2, Zenon
  <2>7. OnceIn(frames'[t])
    <3> SUFFICES ASSUME NEW i \in 1..(n + 1), NEW j \in 1..(n + 1), i < j,
                        frames'[t][i].sig = frames'[t][j].sig
                 PROVE  frames'[t][i].open
        BY <2>1, Zenon DEF OnceIn
    <3>1. i \in 1..n /\ frames'[t][i] = frames[t][i]
        BY <2>1
    <3> QED
        BY <2>1, <2>2, <2>4, <2>5, <2>a, <3>1, Zenon DEF OnceIn
  <2>8. \A u \in Threads \ {t} : frames'[u] = frames[u] /\ mask'[u] = mask[u]
        BY <1>6, PushedFrames, Zenon DEF Pushed, Types
  <2> QED
        BY <1>b, <2>6, <2>7, <2>8, Zenon
<1> HIDE DEF Good
<1> QED
    BY <1>1, <1>2, <1>3, <1>4, <1>5, <1>6, <1>a, StepKinds, Zenon

-----------------------------------------------------------------------------
(* Stacks.                                                                  *)

\* The second half of Chained, of one thread.
ChainedIn(fs) ==
    \A i \in 1..Len(fs) : fs[i].cpu.sp = Below(fs, i - 1)

LEMMA ChainedStep ==
    ASSUME Types, Chained, Next
    PROVE  Chained'
<1> DEFINE Good(u) == /\ pc[u] # "ended" => cpu[u].sp = Below(frames[u], Len(frames[u]))
                      /\ ChainedIn(frames[u])
<1>0. \A u \in Threads : Good(u)
    BY Zenon DEF Chained, ChainedIn
<1>a. ASSUME \A u \in Threads : Good(u)' PROVE Chained'
    BY <1>a, Zenon DEF Chained, ChainedIn
<1>b. ASSUME NEW t \in Threads, Good(t)',
             \A u \in Threads \ {t} : frames'[u] = frames[u] /\ cpu'[u] = cpu[u] /\ pc'[u] = pc[u]
      PROVE  \A u \in Threads : Good(u)'
    BY <1>0, <1>b, Zenon
<1>1. CASE Still
    BY <1>0, <1>1, <1>a, Zenon DEF Still
<1>2. ASSUME NEW t \in Threads, NEW m \in Masks, Sigprocmask(t, m)
      PROVE  \A u \in Threads : Good(u)'
  <2>a. /\ \A u \in Threads : cpu'[u].sp = cpu[u].sp
        /\ pc[t] # "ended" /\ \A u \in Threads \ {t} : pc'[u] = pc[u]
        BY <1>2, CallAnswers, Zenon DEF Sigprocmask
  <2>b. \A u \in Threads \ {t} : frames'[u] = frames[u]
        BY <1>2, Zenon DEF Sigprocmask, Types
  <2>2. Len(frames'[t]) = Len(frames[t]) /\ Len(frames[t]) \in Nat
        BY <1>2, MaskOpensFrames, Zenon
  <2>3. \A i \in 1..Len(frames[t]) : /\ frames'[t][i].sp = frames[t][i].sp
                                     /\ frames'[t][i].cpu = frames[t][i].cpu
        BY <1>2, MaskOpensFrames, Zenon
  <2>4. \A i \in 0..Len(frames[t]) : Below(frames'[t], i) = Below(frames[t], i)
        BY <2>2, <2>3 DEF Below, Cell
  <2>5. Good(t)'
        BY <1>0, <2>a, <2>2, <2>3, <2>4 DEF ChainedIn
  <2> QED
        BY <1>0, <2>a, <2>b, <2>5, Zenon
<1>3. ASSUME NEW t \in Threads, NEW k, Sigaltstack(t, k)
      PROVE  \A u \in Threads : Good(u)'
  <2>1. /\ \A u \in Threads : cpu'[u].sp = cpu[u].sp
        /\ pc[t] # "ended" /\ \A u \in Threads \ {t} : pc'[u] = pc[u]
        /\ UNCHANGED frames
        BY <1>3, CallAnswers, Zenon DEF Sigaltstack
  <2> QED
        BY <1>0, <2>1, Zenon
<1>4. ASSUME NEW t \in Threads, Sigreturn(t)
      PROVE  \A u \in Threads : Good(u)'
  <2> DEFINE n == Len(frames[t])
  <2>1. /\ n \in Nat \ {0} /\ Len(frames'[t]) = n - 1
        /\ \A i \in 1..(n - 1) : frames'[t][i] = frames[t][i]
        BY <1>4, PoppedFrames, Zenon
  <2>2. cpu'[t] = frames[t][n].cpu
        BY <1>4, PoppedFrames, Zenon DEF Types
  <2>3. \A u \in Threads \ {t} : frames'[u] = frames[u] /\ cpu'[u] = cpu[u] /\ pc'[u] = pc[u]
        BY <1>4, PoppedFrames, Zenon DEF Types, Sigreturn
  <2>4. \A i \in 1..n : frames[t][i].cpu.sp = Below(frames[t], i - 1)
        BY <1>0, Zenon DEF ChainedIn
  <2> HIDE DEF n
  <2>5. \A i \in 0..(n - 1) : Below(frames'[t], i) = Below(frames[t], i)
        BY <2>1 DEF Below
  <2>6. cpu'[t].sp = Below(frames'[t], n - 1)
        BY <2>1, <2>2, <2>4, <2>5
  <2>7. ASSUME NEW i \in 1..(n - 1) PROVE frames'[t][i].cpu.sp = Below(frames'[t], i - 1)
    <3>1. i \in 1..n /\ i - 1 \in 0..(n - 1)
        BY <2>1
    <3>2. Below(frames'[t], i - 1) = Below(frames[t], i - 1)
        BY <2>5, <3>1, Zenon
    <3> QED
        BY <2>1, <2>4, <3>1, <3>2, Zenon
  <2>8. Good(t)'
        BY <2>1, <2>6, <2>7, Zenon DEF ChainedIn
  <2> QED
        BY <1>b, <2>3, <2>8, Zenon
<1>5. ASSUME NEW t \in Threads, Gone(t)
      PROVE  \A u \in Threads : Good(u)'
  <2>1. /\ frames'[t] = <<>> /\ pc'[t] = "ended"
        /\ \A u \in Threads \ {t} : frames'[u] = frames[u] /\ cpu'[u] = cpu[u] /\ pc'[u] = pc[u]
        BY <1>5, Zenon DEF Gone, Types
  <2>2. Good(t)'
        BY <2>1 DEF ChainedIn
  <2> QED
        BY <1>b, <2>1, <2>2, Zenon
<1>6. ASSUME NEW t \in Threads, NEW s, NEW a, NEW f, Pushed(t, s, a, f)
      PROVE  \A u \in Threads : Good(u)'
  <2> DEFINE n == Len(frames[t])
  <2>1. /\ n \in Nat /\ Len(frames'[t]) = n + 1 /\ frames'[t][n + 1] = f
        /\ \A i \in 1..n : frames'[t][i] = frames[t][i]
        BY <1>6, PushedFrames
  <2>2. f.cpu.sp = cpu[t].sp /\ cpu'[t].sp = Cell(f) /\ pc[t] # "ended"
        BY <1>6, Zenon DEF Pushed, Types
  <2>3. \A u \in Threads \ {t} : frames'[u] = frames[u] /\ cpu'[u] = cpu[u] /\ pc'[u] = pc[u]
        BY <1>6, PushedFrames, Zenon DEF Types, Pushed
  <2>4. /\ \A i \in 1..n : frames[t][i].cpu.sp = Below(frames[t], i - 1)
        /\ cpu[t].sp = Below(frames[t], n)
        BY <1>0, <2>2, Zenon DEF ChainedIn
  <2> HIDE DEF n
  <2>5. \A i \in 0..n : Below(frames'[t], i) = Below(frames[t], i)
        BY <2>1 DEF Below
  <2>6. Below(frames'[t], n + 1) = Cell(f)
        BY <2>1 DEF Below
  <2>7. \A i \in 1..(n + 1) : frames'[t][i].cpu.sp = Below(frames'[t], i - 1)
    <3>1. ASSUME NEW i \in 1..n PROVE frames'[t][i].cpu.sp = Below(frames'[t], i - 1)
      <4>1. i - 1 \in 0..n
            BY <2>1
      <4>2. Below(frames'[t], i - 1) = Below(frames[t], i - 1)
            BY <2>5, <4>1, Zenon
      <4> QED
            BY <2>1, <2>4, <4>2, Zenon
    <3>2. frames'[t][n + 1].cpu.sp = Below(frames'[t], (n + 1) - 1)
        BY <2>1, <2>2, <2>4, <2>5
    <3> QED
        BY <2>1, <3>1, <3>2
  <2>8. Good(t)'
        BY <2>1, <2>2, <2>6, <2>7, Zenon DEF ChainedIn
  <2> QED
        BY <1>b, <2>3, <2>8, Zenon
<1> HIDE DEF Good
<1> QED
    BY <1>1, <1>2, <1>3, <1>4, <1>5, <1>6, <1>a, StepKinds, Zenon

\* Where the next frame of a thread on an unchanged alternate stack goes.
LEMMA PushStacked ==
    ASSUME NEW n \in Nat, NEW k \in Nat, NEW fs, NEW gs, NEW sp, AltSize \in Nat,
           Len(fs) = n, Len(gs) = n + 1,
           \A i \in 1..n : fs[i].sp \in Places /\ gs[i] = fs[i],
           StackedIn(fs, k), sp = Below(fs, n),
           \/ gs[n + 1].sp = sp
           \/ gs[n + 1].sp = <<k, 0>> /\ k # 0 /\ ~(sp[1] = k /\ sp[2] < AltSize)
    PROVE  StackedIn(gs, k)
<1> DEFINE g == gs[n + 1].sp
<1>1. \A i \in 1..n : /\ fs[i].sp[1] \in Nat /\ fs[i].sp[2] \in Nat
                      /\ fs[i].sp[2] < i /\ (k # 0 => fs[i].sp[1] \in {0, k})
    BY Zenon DEF StackedIn, Places
<1>2. \A i \in 1..n : \A j \in 1..n : i < j /\ j <= AltSize =>
            /\ fs[i].sp[1] = fs[j].sp[1] => fs[i].sp[2] < fs[j].sp[2]
            /\ fs[i].sp[1] # 0 => fs[j].sp[1] = fs[i].sp[1]
    BY Zenon DEF StackedIn
<1>3. IF n = 0 THEN sp = <<0, 0>>
               ELSE n \in 1..n /\ sp[1] = fs[n].sp[1] /\ sp[2] = fs[n].sp[2] + 1
    BY DEF Below, Cell
<1>4. g[2] < n + 1 /\ (k # 0 => g[1] \in {0, k})
    BY <1>1, <1>3
<1>5. ASSUME NEW i \in 1..n, n + 1 <= AltSize
      PROVE  /\ fs[i].sp[1] = g[1] => fs[i].sp[2] < g[2]
             /\ fs[i].sp[1] # 0 => g[1] = fs[i].sp[1]
  <2>1. /\ n \in 1..n /\ n # 0 /\ (i = n \/ i < n) /\ n <= AltSize
        /\ sp[1] = fs[n].sp[1] /\ sp[2] = fs[n].sp[2] + 1
        BY <1>3, <1>5
  <2>2. /\ fs[i].sp[1] = fs[n].sp[1] => fs[i].sp[2] <= fs[n].sp[2]
        /\ fs[i].sp[1] # 0 => fs[n].sp[1] = fs[i].sp[1]
        BY <1>1, <1>2, <2>1
  <2>3. fs[i].sp[2] \in Nat /\ fs[n].sp[2] \in Nat /\ fs[n].sp[2] + 1 < AltSize
        BY <1>1, <1>5, <2>1
  <2>4. CASE g = sp
        BY <2>1, <2>2, <2>3, <2>4
  <2>5. CASE g[1] = k /\ g[2] = 0 /\ k # 0 /\ ~(sp[1] = k /\ sp[2] < AltSize)
    <3>1. sp[1] # k
        BY <2>1, <2>3, <2>5, Zenon
    <3>2. fs[i].sp[1] = 0
        BY <1>1, <2>1, <2>2, <2>5, <3>1, Zenon
    <3> QED
        BY <2>5, <3>2, Zenon
  <2> QED
        BY <2>4, <2>5
<1>6. \A i \in 1..(n + 1) : i = n + 1 \/ i \in 1..n
    OBVIOUS
<1> HIDE DEF g
<1> SUFFICES ASSUME NEW i \in 1..(n + 1)
             PROVE  /\ gs[i].sp[2] < i
                    /\ k # 0 => gs[i].sp[1] \in {0, k}
                    /\ \A j \in 1..(n + 1) : i < j /\ j <= AltSize =>
                        /\ gs[i].sp[1] = gs[j].sp[1] => gs[i].sp[2] < gs[j].sp[2]
                        /\ gs[i].sp[1] # 0 => gs[j].sp[1] = gs[i].sp[1]
    BY DEF StackedIn
<1>7. CASE i = n + 1
    BY <1>4, <1>7 DEF g
<1>8. CASE i \in 1..n
  <2>1. gs[i] = fs[i] /\ gs[i].sp[2] < i /\ (k # 0 => gs[i].sp[1] \in {0, k})
        BY <1>1, <1>8, Zenon
  <2>2. ASSUME NEW j \in 1..(n + 1), i < j, j <= AltSize
        PROVE  /\ gs[i].sp[1] = gs[j].sp[1] => gs[i].sp[2] < gs[j].sp[2]
               /\ gs[i].sp[1] # 0 => gs[j].sp[1] = gs[i].sp[1]
    <3>1. CASE j = n + 1
        BY <1>5, <1>8, <2>1, <2>2, <3>1, Zenon DEF g
    <3>2. CASE j \in 1..n
        BY <1>2, <1>8, <2>1, <2>2, <3>2
    <3> QED
        BY <1>6, <3>1, <3>2, Zenon
  <2> QED
        BY <2>1, <2>2, Zenon
<1> QED
    BY <1>6, <1>7, <1>8, Zenon

\* Fewer frames, in the same places, are stacked as well.
LEMMA PrefixStacked ==
    ASSUME NEW n \in Nat, NEW m \in Nat, m <= n, NEW k, NEW fs, NEW gs,
           Len(fs) = n, Len(gs) = m,
           \A i \in 1..m : gs[i].sp = fs[i].sp,
           StackedIn(fs, k)
    PROVE  StackedIn(gs, k)
<1>1. \A i \in 1..m : i \in 1..n
    OBVIOUS
<1> SUFFICES ASSUME NEW i \in 1..m
             PROVE  /\ gs[i].sp[2] < i
                    /\ k # 0 => gs[i].sp[1] \in {0, k}
                    /\ \A j \in 1..m : i < j /\ j <= AltSize =>
                        /\ gs[i].sp[1] = gs[j].sp[1] => gs[i].sp[2] < gs[j].sp[2]
                        /\ gs[i].sp[1] # 0 => gs[j].sp[1] = gs[i].sp[1]
    BY Zenon DEF StackedIn
<1>2. /\ gs[i].sp = fs[i].sp /\ fs[i].sp[2] < i
      /\ k # 0 => fs[i].sp[1] \in {0, k}
    BY <1>1, Zenon DEF StackedIn
<1>3. ASSUME NEW j \in 1..m, i < j, j <= AltSize
      PROVE  /\ gs[i].sp[1] = gs[j].sp[1] => gs[i].sp[2] < gs[j].sp[2]
             /\ gs[i].sp[1] # 0 => gs[j].sp[1] = gs[i].sp[1]
  <2>1. gs[j].sp = fs[j].sp /\ i \in 1..Len(fs) /\ j \in 1..Len(fs)
        BY <1>1, Zenon
  <2>2. /\ fs[i].sp[1] = fs[j].sp[1] => fs[i].sp[2] < fs[j].sp[2]
        /\ fs[i].sp[1] # 0 => fs[j].sp[1] = fs[i].sp[1]
        BY <1>3, <2>1, Zenon DEF StackedIn
  <2> QED
        BY <1>2, <2>1, <2>2, Zenon
<1> QED
    BY <1>2, <1>3, Zenon

LEMMA StackedStep ==
    ASSUME Types, Chained, Stacked, Next
    PROVE  Stacked'
<1> DEFINE Good(u) == u \notin moved => StackedIn(frames[u], alt[u])
<1>0. \A u \in Threads : Good(u)
    BY Zenon DEF Stacked
<1>a. ASSUME \A u \in Threads : Good(u)' PROVE Stacked'
    BY <1>a, Zenon DEF Stacked
<1>b. ASSUME NEW t \in Threads, Good(t)', moved \subseteq moved' \cup {t},
             \A u \in Threads \ {t} : frames'[u] = frames[u] /\ alt'[u] = alt[u]
      PROVE  \A u \in Threads : Good(u)'
    BY <1>0, <1>b, Zenon
<1>1. CASE Still
    BY <1>0, <1>1, <1>a, Zenon DEF Still
<1>2. ASSUME NEW t \in Threads, NEW m \in Masks, Sigprocmask(t, m)
      PROVE  \A u \in Threads : Good(u)'
  <2>1. /\ UNCHANGED <<alt, moved>>
        /\ \A u \in Threads \ {t} : frames'[u] = frames[u]
        BY <1>2, Zenon DEF Sigprocmask, Types
  <2>2. Len(frames'[t]) = Len(frames[t]) /\ Len(frames[t]) \in Nat
        BY <1>2, MaskOpensFrames, Zenon
  <2>3. \A i \in 1..Len(frames[t]) : frames'[t][i].sp = frames[t][i].sp
        BY <1>2, MaskOpensFrames, Zenon
  <2>4. StackedIn(frames[t], alt[t]) => StackedIn(frames'[t], alt[t])
        BY <2>2, <2>3, PrefixStacked
  <2> QED
        BY <1>0, <2>1, <2>4, Zenon
<1>3. ASSUME NEW t \in Threads, NEW k \in AltStacks \cup {0}, Sigaltstack(t, k)
      PROVE  \A u \in Threads : Good(u)'
  <2>1. /\ alt'[t] = k /\ \A u \in Threads \ {t} : alt'[u] = alt[u]
        /\ UNCHANGED frames /\ moved \subseteq moved'
        BY <1>3, Zenon DEF Sigaltstack, Types
  <2>2. DOMAIN frames[t] = 1..Len(frames[t])
        BY DEF Types
  <2>3. ASSUME t \notin moved'
        PROVE  t \notin moved /\ (k # 0 => \A i \in 1..Len(frames[t]) : frames[t][i].sp[1] \in {0, k})
        BY <1>3, <2>2, <2>3, Zenon DEF Sigaltstack
  <2>4. Good(t)'
        BY <1>0, <2>1, <2>3 DEF StackedIn
  <2> QED
        BY <1>b, <2>1, <2>4, Zenon
<1>4. ASSUME NEW t \in Threads, Sigreturn(t)
      PROVE  \A u \in Threads : Good(u)'
  <2> DEFINE n == Len(frames[t])
  <2>1. /\ n \in Nat \ {0} /\ Len(frames'[t]) = n - 1
        /\ \A i \in 1..(n - 1) : frames'[t][i] = frames[t][i]
        BY <1>4, PoppedFrames, Zenon
  <2>2. \A u \in Threads \ {t} : frames'[u] = frames[u]
        BY <1>4, PoppedFrames, Zenon
  <2>3. UNCHANGED <<alt, moved>>
        BY <1>4, Zenon DEF Sigreturn
  <2>4. n - 1 \in Nat /\ n - 1 <= n /\ n = Len(frames[t])
        BY <2>1
  <2> HIDE DEF n
  <2>5. StackedIn(frames[t], alt[t]) => StackedIn(frames'[t], alt[t])
        BY <2>1, <2>4, PrefixStacked, Zenon
  <2> QED
        BY <1>0, <2>2, <2>3, <2>5, Zenon
<1>5. ASSUME NEW t \in Threads, Gone(t)
      PROVE  \A u \in Threads : Good(u)'
  <2>1. /\ frames'[t] = <<>> /\ moved' = moved \ {t}
        /\ \A u \in Threads \ {t} : frames'[u] = frames[u] /\ alt'[u] = alt[u]
        BY <1>5, Zenon DEF Gone, Types
  <2>2. Good(t)'
        BY <2>1 DEF StackedIn
  <2> QED
        BY <1>b, <2>1, <2>2, Zenon
<1>6. ASSUME NEW t \in Threads, NEW s, NEW a, NEW f, Pushed(t, s, a, f)
      PROVE  \A u \in Threads : Good(u)'
  <2> DEFINE n == Len(frames[t])
             gs == frames'[t]
  <2>1. /\ n \in Nat /\ Len(gs) = n + 1 /\ gs[n + 1] = f
        /\ \A i \in 1..n : gs[i] = frames[t][i]
        BY <1>6, PushedFrames
  <2>2. /\ UNCHANGED <<alt, moved>> /\ alt[t] \in Nat /\ AltSize \in Nat
        /\ \A u \in Threads \ {t} : frames'[u] = frames[u]
        BY <1>6, PushedFrames, SignalsAssumption, Zenon DEF Pushed, Types
  <2>3. cpu[t].sp = Below(frames[t], n)
        BY <1>6, Zenon DEF Chained, Pushed
  <2>4. \A i \in 1..n : frames[t][i].sp \in Places
    <3>1. frames[t] \in Seq(FrameRecords)
        BY Zenon DEF Types
    <3>2. \A i \in 1..n : frames[t][i] \in FrameRecords
        BY <3>1
    <3> QED
        BY <3>2, Zenon DEF FrameRecords
  <2>5. \/ f.sp = cpu[t].sp
        \/ /\ f.sp = <<alt[t], 0>> /\ alt[t] # 0
           /\ ~(cpu[t].sp[1] = alt[t] /\ cpu[t].sp[2] < AltSize)
        BY <1>6, Zenon DEF Pushed, FrameBase
  <2> HIDE DEF gs
  <2>6. StackedIn(frames[t], alt[t]) => StackedIn(gs, alt[t])
        BY <2>1, <2>2, <2>3, <2>4, <2>5, PushStacked, Zenon
  <2> QED
        BY <1>0, <2>2, <2>6, Zenon DEF gs
<1> HIDE DEF Good
<1> QED
    BY <1>1, <1>2, <1>3, <1>4, <1>5, <1>6, <1>a, StepKinds, Zenon

-----------------------------------------------------------------------------
(* The theorems.                                                            *)

LEMMA InvInit ==
    ASSUME Init
    PROVE  Inv
<1>0. /\ \A t \in Threads : /\ frames[t] = <<>> /\ cpu[t].sp = <<0, 0>> /\ pc[t] = "code"
                            /\ Len(frames[t]) = 0 /\ DOMAIN frames[t] = {}
    BY DEF Init
<1>1. Types
  <2>1. Default \in SignalAction
        BY Zenon DEF Default, SignalAction
  <2>2. Exact(<<"next">>, "ok")
        BY ExactAnswers, Zenon DEF Results
  <2>3. [rip |-> <<"next">>, rax |-> "ok", sp |-> <<0, 0>>] \in Registers
        BY <2>2, Zenon DEF Registers, Rips, Results, Places
  <2>4. <<>> \in Seq(FrameRecords)
        OBVIOUS
  <2> QED
        BY <2>1, <2>3, <2>4, Zenon DEF Init, Types, Pcs, Calls, Sliced, Results
<1>2. InterruptedForASignal
    BY <1>0, Zenon DEF InterruptedForASignal
<1>3. Blocked /\ NotReentered
    BY <1>0 DEF Blocked, NotReentered
<1>4. Chained
    BY <1>0 DEF Chained, Below
<1>5. Stacked
    BY <1>0 DEF Stacked, StackedIn
<1> QED
    BY <1>1, <1>2, <1>3, <1>4, <1>5, Zenon DEF Inv

LEMMA InvStep ==
    ASSUME Inv, [Next]_vars
    PROVE  Inv'
<1>1. CASE Next
  <2>1. Types'
        BY <1>1, TypesStep, Zenon DEF Inv
  <2> QED
        BY <1>1, <2>1, InterruptedStep, BlockedStep, ChainedStep, StackedStep, Zenon DEF Inv
<1>2. CASE UNCHANGED vars
  <2>0. UNCHANGED <<actions, pending, mask, alt, cpu, pc, call, result, frames, moved>>
        BY <1>2, Zenon DEF vars
  <2>1. Types' /\ InterruptedForASignal'
        BY <2>0, Zenon DEF Inv, Types, InterruptedForASignal, SignalPending
  <2>2. Blocked' /\ NotReentered'
        BY <2>0, Zenon DEF Inv, Blocked, NotReentered
  <2>3. Chained' /\ Stacked'
        BY <2>0, Zenon DEF Inv, Chained, Stacked
  <2> QED
        BY <2>1, <2>2, <2>3, Zenon DEF Inv
<1> QED
    BY <1>1, <1>2, Zenon

\* The strengthened invariant holds in every reachable state: the registers in
\* every frame are fit to go on with, the masks in the frames keep the running
\* handlers' signals blocked, and the frames follow one another down a stack.
THEOREM SignalsInvariant == Spec => []Inv
<1> QED
    BY InvInit, InvStep, PTL DEF Spec

\* A call cut short for a signal finds one to deliver when it finishes
\* (FinishSyscall), whoever sends, masks and ignores signals meanwhile.
THEOREM InterruptionsAreReal == Spec => []InterruptedForASignal
<1>1. Inv => InterruptedForASignal
    BY Zenon DEF Inv
<1> QED
    BY <1>1, SignalsInvariant, PTL

\* However deeply handlers nest, no register set that DeliverSignal keeps for
\* rt_sigreturn, nor the thread's own, shows ERESTARTSYS or makes a call again
\* with another call's number.
THEOREM RestartsHold == Spec => []RestartsAreExact
<1>1. Inv => RestartsAreExact
  <2> SUFFICES ASSUME Inv, NEW t \in Threads, NEW c \in Contexts(t)
               PROVE  c.rax # "ERESTARTSYS" /\ \A k \in Calls : c.rip = Again(k) => c.rax = k
        BY Zenon DEF RestartsAreExact
  <2>1. frames[t] \in Seq(FrameRecords) /\ cpu[t] \in Registers
        BY Zenon DEF Inv, Types
  <2>a. \A i \in DOMAIN frames[t] : frames[t][i] \in FrameRecords
        BY <2>1
  <2>2. \A i \in DOMAIN frames[t] : frames[t][i].cpu \in Registers
        BY <2>a, Zenon DEF FrameRecords
  <2>3. c \in Registers
        BY <2>1, <2>2, Zenon DEF Contexts
  <2> QED
        BY <2>3, Zenon DEF Registers, Exact
<1> QED
    BY <1>1, SignalsInvariant, PTL

\* A handler is entered again before it returns only for SA_NODEFER or a signal
\* the guest unblocked: the masks PushSignalFrame saves and DoRtSigreturn restores.
THEOREM HandlersAreNotReentered == Spec => []NotReentered
<1>1. Inv => NotReentered
    BY Zenon DEF Inv
<1> QED
    BY <1>1, SignalsInvariant, PTL

\* Frames of handlers that have not returned never overlap, on the thread's own
\* stack or the alternate one, while the alternate stack is not changed under a
\* handler and has room (PushSignalFrame's choice of stack).
THEOREM FramesAreApart == Spec => []FramesDisjoint
<1>1. Inv => FramesDisjoint
  <2> SUFFICES ASSUME Inv, NEW t \in Threads, t \notin moved, Len(frames[t]) <= AltSize
               PROVE  FramesApart(t)
        BY Zenon DEF FramesDisjoint
  <2>1. frames[t] \in Seq(FrameRecords) /\ AltSize \in Nat
        BY SignalsAssumption, Zenon DEF Inv, Types
  <2>2. DOMAIN frames[t] = 1..Len(frames[t]) /\ Len(frames[t]) \in Nat
        BY <2>1
  <2>a. \A i \in DOMAIN frames[t] : frames[t][i] \in FrameRecords
        BY <2>1
  <2>3. \A i \in DOMAIN frames[t] : frames[t][i].sp[1] \in Nat /\ frames[t][i].sp[2] \in Nat
        BY <2>a, Zenon DEF FrameRecords, Places
  <2>4. ASSUME NEW i \in DOMAIN frames[t], NEW j \in DOMAIN frames[t], i < j
        PROVE  Cell(frames[t][i]) # Cell(frames[t][j])
    <3>1. StackedIn(frames[t], alt[t])
        BY Zenon DEF Inv, Stacked
    <3>2. j <= AltSize
        BY <2>1, <2>2
    <3>3. frames[t][i].sp[1] = frames[t][j].sp[1] => frames[t][i].sp[2] < frames[t][j].sp[2]
        BY <2>2, <2>4, <3>1, <3>2, Zenon DEF StackedIn
    <3> DEFINE f == frames[t][i]
               g == frames[t][j]
    <3>4. f.sp[2] \in Nat /\ g.sp[2] \in Nat
        BY <2>3, Zenon
    <3>5. f.sp[1] = g.sp[1] => f.sp[2] < g.sp[2]
        BY <3>3, Zenon
    <3> HIDE DEF f, g
    <3>6. Cell(f) # Cell(g)
        BY <3>4, <3>5 DEF Cell
    <3> QED
        BY <3>6, Zenon DEF f, g
  <2> QED
        BY <2>2, <2>4 DEF FramesApart
<1> QED
    BY <1>1, SignalsInvariant, PTL
=============================================================================
