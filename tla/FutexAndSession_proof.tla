------------------------ MODULE FutexAndSession_proof ------------------------
(***************************************************************************)
(* The futex invariants, for any number of threads and calls; and that     *)
(* nothing outlives a run of the app, for any number of runs, writes and    *)
(* ticks, as long as the view keeps a session that is running.              *)
(***************************************************************************)
EXTENDS Futex, AppSession, TLAPS

USE SMTT(30), ZenonT(30)

-----------------------------------------------------------------------------
(* The futex calls.                                                         *)

Taking(t) == pc[t] \in {"lock.take", "try.take"}

\* A thread about to exchange saw the mutex free: without this the exchange
\* could succeed over an owner, and MutexExcludes is not inductive.
TakesWhatWasFree == \A t \in Threads : Taking(t) => held[t].owner = Nobody

Inv == TypeOK /\ MutexExcludes /\ TakesWhatWasFree /\ NoWakeLost /\ CountedIsNotified

LEMMA InitInv == Init => Inv
  BY FutexAssumption DEF Init, Inv, TypeOK, MutexExcludes, TakesWhatWasFree, NoWakeLost, CountedIsNotified, Owns, Taking,
         Free, PiWord, Places

LEMMA PiWordFacts ==
  /\ Free \in PiWord
  /\ \A t \in Threads : [owner |-> t, waiters |-> FALSE] \in PiWord
  BY Zenon DEF Free, PiWord

\* A step of any thread keeps the state well typed.
LEMMA TypeStep == TypeOK /\ [Next]_vars => TypeOK'
  <1> SUFFICES ASSUME TypeOK, [Next]_vars PROVE TypeOK'
    BY Zenon
  <1> USE FutexAssumption DEF TypeOK, PiWord, Places, Free, Goes, At, Takes, Enters, Leaves, words, bucket
  <1>1. CASE UNCHANGED vars
    BY <1>1, Zenon DEF vars
  <1>2. ASSUME NEW t \in Threads, Begins(t) PROVE rounds' \in [Threads -> 0..MaxRounds]
    BY <1>2 DEF Begins
  <1>3. ASSUME NEW t \in Threads, WaitCall(t) \/ GuestStore(t) PROVE TypeOK'
    BY <1>2, <1>3 DEF WaitCall, GuestStore
  <1>4. ASSUME NEW t \in Threads, GuestLock(t) PROVE TypeOK'
    <2>1. pi' \in PiWord
      <3> HIDE DEF PiWord, Free
      <3> QED BY <1>4, PiWordFacts, Zenon DEF GuestLock
    <2>2. blocking' \subseteq Threads /\ pc' \in [Threads -> Places]
      BY <1>4 DEF GuestLock
    <2> QED BY <1>2, <1>4, <2>1, <2>2, Zenon DEF GuestLock
  <1>5. ASSUME NEW t \in Threads, Waits(t) PROVE TypeOK'
    BY <1>5 DEF Waits, WaitLock, WaitLoop, WaitInterrupted, WaitWakes
  <1>6. ASSUME NEW t \in Threads, Wakes(t) PROVE TypeOK'
    BY <1>6 DEF Wakes, WakeCount, WakeNotify
  <1>7. ASSUME NEW t \in Threads, LockLoad(t) PROVE TypeOK'
    BY <1>7, Zenon DEF LockLoad
  <1>8. ASSUME NEW t \in Threads, LockTake(t) PROVE TypeOK'
    <2>1. pi' \in PiWord
      BY <1>8, Zenon DEF LockTake
    <2> QED BY <1>8, <2>1, Zenon DEF LockTake
  <1>9. ASSUME NEW t \in Threads, LockMark(t) PROVE TypeOK'
    <2>1. pi' \in PiWord
      BY <1>9, Zenon DEF LockMark
    <2> QED BY <1>9, <2>1, Zenon DEF LockMark
  <1>10. ASSUME NEW t \in Threads, LockLock(t) \/ LockCheck(t) \/ LockWakes(t) PROVE TypeOK'
    BY <1>10 DEF LockLock, LockCheck, LockWakes
  <1>11. ASSUME NEW t \in Threads, Unlocks(t) PROVE TypeOK'
    <2>1. pi' \in PiWord
      <3> HIDE DEF PiWord, Free
      <3> QED BY <1>11, PiWordFacts, Zenon DEF Unlocks, GuestUnlock, UnlockLoad, UnlockStore
    <2> QED BY <1>11, <2>1 DEF Unlocks, GuestUnlock, UnlockLoad, UnlockStore
  <1>12. ASSUME NEW t \in Threads, SliceEnds(t) \/ Freezes(t) PROVE TypeOK'
    BY <1>12, Zenon DEF SliceEnds, Freezes, Suspend, Thaw
  <1> QED
    BY <1>1, <1>3, <1>4, <1>5, <1>6, <1>7, <1>8, <1>9, <1>10, <1>11, <1>12, Zenon DEF Next, Locks

\* Only an exchange over a free word gives the mutex away, and only its owner
\* frees it.
LEMMA MutexStep ==
  TypeOK /\ MutexExcludes /\ TakesWhatWasFree /\ [Next]_vars => MutexExcludes' /\ TakesWhatWasFree'
  <1> SUFFICES ASSUME TypeOK, MutexExcludes, TakesWhatWasFree, [Next]_vars
               PROVE MutexExcludes' /\ TakesWhatWasFree'
    BY Zenon
  <1> USE FutexAssumption DEF MutexExcludes, TakesWhatWasFree, Owns, Taking, Goes, At, words, bucket
  <1>0. /\ pc \in [Threads -> Places] /\ held \in [Threads -> PiWord]
        /\ pi \in PiWord
    BY Zenon DEF TypeOK
  <1>1. CASE UNCHANGED vars
    BY <1>1, Zenon DEF vars
  <1>2. ASSUME NEW t \in Threads, WaitCall(t) \/ GuestStore(t) PROVE MutexExcludes' /\ TakesWhatWasFree'
    BY <1>0, <1>2 DEF WaitCall, GuestStore, Begins
  <1>3. ASSUME NEW t \in Threads, GuestLock(t) PROVE MutexExcludes' /\ TakesWhatWasFree'
    <2>1. CASE pi = Free
      BY <1>0, <1>3, <2>1 DEF GuestLock, Begins, Free
    <2>2. CASE pi # Free
      BY <1>0, <1>3, <2>2, Zenon DEF GuestLock, Begins
    <2> QED BY <2>1, <2>2, Zenon
  <1>4. ASSUME NEW t \in Threads, Waits(t) PROVE MutexExcludes' /\ TakesWhatWasFree'
    BY <1>0, <1>4 DEF Waits, WaitLock, WaitLoop, WaitInterrupted, WaitWakes
  <1>5. ASSUME NEW t \in Threads, Wakes(t) PROVE MutexExcludes' /\ TakesWhatWasFree'
    BY <1>0, <1>5 DEF Wakes, WakeCount, WakeNotify
  <1>6. ASSUME NEW t \in Threads, LockLoad(t) PROVE MutexExcludes' /\ TakesWhatWasFree'
    BY <1>0, <1>6, Zenon DEF LockLoad
  <1>7. ASSUME NEW t \in Threads, LockTake(t) PROVE MutexExcludes' /\ TakesWhatWasFree'
    <2>1. CASE /\ pi = held[t]
               /\ pi' = [pi EXCEPT !.owner = t] /\ Goes(t, "cs") /\ held' = held
      <3>1. pi.owner = Nobody /\ pi'.owner = t
        BY <1>0, <1>7, <2>1, Zenon DEF LockTake, PiWord
      <3> QED BY <1>0, <1>7, <2>1, <3>1, Zenon
    <2>2. CASE /\ Goes(t, IF pc[t] = "lock.take" THEN "lock.load" ELSE "try.load")
               /\ UNCHANGED <<pi, held>>
      BY <1>0, <1>7, <2>2, Zenon DEF LockTake
    <2> QED BY <1>7, <2>1, <2>2, Zenon DEF LockTake
  <1>8. ASSUME NEW t \in Threads, LockMark(t) PROVE MutexExcludes' /\ TakesWhatWasFree'
    <2>1. pi'.owner = pi.owner
      BY <1>0, <1>8, Zenon DEF LockMark, PiWord
    <2> QED BY <1>0, <1>8, <2>1, Zenon DEF LockMark
  <1>9. ASSUME NEW t \in Threads, LockLock(t) \/ LockCheck(t) \/ LockWakes(t)
        PROVE MutexExcludes' /\ TakesWhatWasFree'
    BY <1>0, <1>9 DEF LockLock, LockCheck, LockWakes
  <1>10. ASSUME NEW t \in Threads, GuestUnlock(t) \/ UnlockLoad(t) PROVE MutexExcludes' /\ TakesWhatWasFree'
    BY <1>0, <1>10 DEF GuestUnlock, UnlockLoad, Free
  <1>11. ASSUME NEW t \in Threads, UnlockStore(t) PROVE MutexExcludes' /\ TakesWhatWasFree'
    BY <1>0, <1>11, Zenon DEF UnlockStore, Free
  <1>12. ASSUME NEW t \in Threads, SliceEnds(t) \/ Freezes(t) PROVE MutexExcludes' /\ TakesWhatWasFree'
    BY <1>0, <1>12, Zenon DEF SliceEnds, Freezes, Suspend, Thaw
  <1> QED
    BY <1>1, <1>2, <1>3, <1>4, <1>5, <1>6, <1>7, <1>8, <1>9, <1>10, <1>11, <1>12, Zenon DEF Next, Locks, Unlocks

\* A waiter goes to sleep having seen the word unset and the count it read,
\* under the mutex; whoever changes either is on its way to a notify.
LEMMA WakeStep == TypeOK /\ NoWakeLost /\ CountedIsNotified /\ [Next]_vars => NoWakeLost' /\ CountedIsNotified'
  <1> SUFFICES ASSUME TypeOK, NoWakeLost, CountedIsNotified, [Next]_vars
               PROVE NoWakeLost' /\ CountedIsNotified'
    BY Zenon
  <1> USE DEF NoWakeLost, CountedIsNotified, Goes, At, words, bucket
  <1>0. pc \in [Threads -> Places] /\ seen \in [Threads -> Nat] /\ asleep \subseteq Threads
    BY Zenon DEF TypeOK
  <1>1. CASE UNCHANGED vars
    BY <1>1, Zenon DEF vars
  <1>2. ASSUME NEW t \in Threads, WaitCall(t) \/ GuestStore(t) \/ GuestLock(t)
        PROVE NoWakeLost' /\ CountedIsNotified'
    BY <1>0, <1>2, Zenon DEF WaitCall, GuestStore, GuestLock, Begins
  <1>3. ASSUME NEW t \in Threads, Waits(t) PROVE NoWakeLost' /\ CountedIsNotified'
    BY <1>0, <1>3, Zenon DEF Waits, WaitLock, WaitLoop, WaitInterrupted, WaitWakes
  <1>4. ASSUME NEW t \in Threads, Wakes(t) PROVE NoWakeLost' /\ CountedIsNotified'
    BY <1>0, <1>4, Zenon DEF Wakes, WakeCount, WakeNotify
  <1>5. ASSUME NEW t \in Threads, Locks(t) PROVE NoWakeLost' /\ CountedIsNotified'
    BY <1>0, <1>5, Zenon DEF Locks, LockLoad, LockTake, LockMark, LockLock, LockCheck, LockWakes
  <1>6. ASSUME NEW t \in Threads, Unlocks(t) PROVE NoWakeLost' /\ CountedIsNotified'
    BY <1>0, <1>6, Zenon DEF Unlocks, GuestUnlock, UnlockLoad, UnlockStore
  <1>7. ASSUME NEW t \in Threads, SliceEnds(t) \/ Freezes(t) PROVE NoWakeLost' /\ CountedIsNotified'
    BY <1>0, <1>7, Zenon DEF SliceEnds, Freezes, Suspend, Thaw
  <1> QED BY <1>1, <1>2, <1>3, <1>4, <1>5, <1>6, <1>7, Zenon DEF Next

\* The futex call keeps its words, its bucket and its sleepers consistent,
\* for any number of threads.
THEOREM FutexInvariant == Spec => []Inv
  <1>1. Inv /\ [Next]_vars => Inv'
    BY TypeStep, MutexStep, WakeStep, Zenon DEF Inv
  <1> QED BY InitInv, <1>1, PTL DEF Spec

\* FUTEX_LOCK_PI, FUTEX_TRYLOCK_PI, FUTEX_UNLOCK_PI and the guest's fast paths
\* never let two threads hold the mutex, and its word names its holder.
THEOREM PiMutexExcludes == Spec => []MutexExcludes
  BY FutexInvariant, PTL DEF Inv

\* FUTEX_WAKE reaches every waiter of a word set before it: none is left to
\* the end of its 20 ms slice.
THEOREM WakesAreNotLost == Spec => []NoWakeLost
  BY FutexInvariant, PTL DEF Inv

\* A count WakeFutex has made is followed by its notify before any waiter it
\* counted for has to wait out its slice.
THEOREM CountsAreNotified == Spec => []CountedIsNotified
  BY FutexInvariant, PTL DEF Inv

\* The threads outside the steps of a lock or unlock are where they were.
LEMMA SameOwners ==
  ASSUME \A t \in Threads : (Asks(t) <=> Asks(t)') /\ (Owns(t) <=> Owns(t)')
  PROVE  UNCHANGED Lock!vars
  BY Zenon DEF Lock!vars

\* Every step of the futex code is a step of a mutex, or none.
LEMMA StepIsAMutexStep == Inv /\ [Next]_vars => [Lock!Next]_(Lock!vars)
  <1> SUFFICES ASSUME Inv, [Next]_vars PROVE [Lock!Next]_(Lock!vars)
    BY Zenon
  <1> USE FutexAssumption DEF Asks, Owns, Goes, At, words, bucket
  <1>0. /\ pc \in [Threads -> Places] /\ held \in [Threads -> PiWord] /\ pi \in PiWord
        /\ \A t \in Threads : Owns(t) <=> pi.owner = t
        /\ \A t \in Threads : Taking(t) => held[t].owner = Nobody
    BY Zenon DEF Inv, TypeOK, MutexExcludes, TakesWhatWasFree
  <1>1. CASE UNCHANGED vars
    BY <1>1, SameOwners, Zenon DEF vars
  <1>2. ASSUME NEW t \in Threads, WaitCall(t) \/ GuestStore(t) PROVE UNCHANGED Lock!vars
    BY <1>0, <1>2, SameOwners DEF WaitCall, GuestStore, Begins
  <1>3. ASSUME NEW t \in Threads, GuestLock(t) PROVE Lock!Ask(t) \/ Lock!Acquire(t)
    <2>1. CASE pi = Free
      BY <1>0, <1>3, <2>1, Zenon DEF GuestLock, Begins, Free, Lock!Acquire
    <2>2. CASE pi # Free
      BY <1>0, <1>3, <2>2 DEF GuestLock, Begins, Lock!Ask
    <2> QED BY <2>1, <2>2, Zenon
  <1>4. ASSUME NEW t \in Threads, Waits(t) \/ Wakes(t) PROVE UNCHANGED Lock!vars
    BY <1>0, <1>4, SameOwners DEF Waits, WaitLock, WaitLoop, WaitInterrupted, WaitWakes, Wakes, WakeCount, WakeNotify
  <1>5. ASSUME NEW t \in Threads, LockLoad(t) \/ LockCheck(t) PROVE Lock!TurnedAway(t) \/ UNCHANGED Lock!vars
    <2>1. PICK where \in {"run", "lock.take", "try.take", "lock.mark", "lock.load", "lock.sleep"} : Goes(t, where)
      BY <1>5, Zenon DEF LockLoad, LockCheck
    <2>2. Asks(t) /\ ~Owns(t)
      BY <1>0, <1>5, Zenon DEF LockLoad, LockCheck
    <2>3. CASE where = "run"
      BY <1>0, <2>1, <2>2, <2>3, Zenon DEF Lock!TurnedAway
    <2>4. CASE where # "run"
      BY <1>0, <2>1, <2>2, <2>4, SameOwners, Zenon
    <2> QED BY <2>3, <2>4, Zenon
  <1>6. ASSUME NEW t \in Threads, LockTake(t) PROVE Lock!Acquire(t) \/ UNCHANGED Lock!vars
    <2>1. CASE pi = held[t] /\ Goes(t, "cs")
      BY <1>0, <1>6, <2>1 DEF LockTake, Taking, Lock!Acquire
    <2>2. CASE Goes(t, IF pc[t] = "lock.take" THEN "lock.load" ELSE "try.load")
      BY <1>0, <1>6, <2>2, SameOwners, Zenon DEF LockTake
    <2> QED BY <1>6, <2>1, <2>2, Zenon DEF LockTake
  <1>7. ASSUME NEW t \in Threads, LockMark(t) \/ LockLock(t) \/ LockWakes(t) PROVE UNCHANGED Lock!vars
    BY <1>0, <1>7, SameOwners, Zenon DEF LockMark, LockLock, LockWakes
  <1>8. ASSUME NEW t \in Threads, Unlocks(t) PROVE Lock!LetGo(t) \/ UNCHANGED Lock!vars
    BY <1>0, <1>8 DEF Unlocks, GuestUnlock, UnlockLoad, UnlockStore, Free, Lock!LetGo, Lock!vars
  <1>9. ASSUME NEW t \in Threads, SliceEnds(t) \/ Freezes(t) PROVE UNCHANGED Lock!vars
    BY <1>0, <1>9, SameOwners, Zenon DEF SliceEnds, Freezes, Suspend, Thaw
  <1> QED
    BY <1>1, <1>2, <1>3, <1>4, <1>5, <1>6, <1>7, <1>8, <1>9, Zenon DEF Next, Locks, Lock!Next

\* FUTEX_LOCK_PI and its kind implement a mutex, for any number of threads.
THEOREM PiFutexIsAMutex == Spec => IsAMutex
  <1>1. Init => Lock!Init
    BY Zenon DEF Init, Lock!Init, Asks, Owns
  <1> QED BY <1>1, FutexInvariant, StepIsAMutexStep, PTL DEF Spec, IsAMutex, Lock!Spec

-----------------------------------------------------------------------------
(* The app's session.                                                       *)

\* The life of a run: its thread, then the posted finish, then the destruction
\* of the session, never two of them; what the main actor shows and holds
\* follows.
Phases ==
    /\ finishPosted \in BOOLEAN /\ finishing \in BOOLEAN /\ session \in BOOLEAN
    /\ thread \in {"none", "created", "run", "waiting", "joining"}
    /\ thread # "none" => ~finishPosted /\ ~finishing
    /\ ~(finishPosted /\ finishing)
    /\ session <=> thread # "none" \/ finishPosted \/ finishing
    /\ IsActive <=> thread # "none" \/ finishPosted
    /\ session => core # "none"
    /\ thread \in {"waiting", "joining"} => result # "none"
    /\ child => thread # "none"

SessionInv == Phases /\ NothingOutlivesTheRun

LEMMA SessionInitInv == SessionInit => SessionInv
  BY Zenon DEF SessionInit, SessionInv, Phases, NothingOutlivesTheRun, IsActive

\* One run at a time goes through the phases in their order.
LEMMA PhasesStep == ~ViewLeaves /\ Phases /\ [SessionNext]_sessionVars => Phases'
  <1> SUFFICES ASSUME ~ViewLeaves, Phases, [SessionNext]_sessionVars PROVE Phases'
    BY Zenon
  <1> USE DEF Phases, IsActive, MainIsFree, mainVars, coreVars
  <1>1. CASE UNCHANGED sessionVars
    BY <1>1, Zenon DEF sessionVars
  <1>2. ASSUME NEW created \in BOOLEAN, Run(created) \/ RunGraphical(created) PROVE Phases'
    <2>1. Launch(created, closesInput) \/ Launch(created, TRUE)
      BY <1>2, Zenon DEF Run, RunGraphical
    <2>2. ~finishing /\ UNCHANGED <<finishPosted, finishing>>
      BY <1>2, Zenon DEF Run, RunGraphical
    <2>3. CASE IsActive
      BY <2>1, <2>2, <2>3, Zenon DEF Launch
    <2>4. CASE ~IsActive /\ created
      BY <2>1, <2>2, <2>4, Zenon DEF Launch
    <2>5. CASE ~IsActive /\ ~created
      BY <2>1, <2>2, <2>5, Zenon DEF Launch
    <2> QED BY <2>3, <2>4, <2>5, Zenon
  <1>3. CASE Stop \/ Reset \/ InputSend
    BY <1>3 DEF Stop, Reset, InputSend
  <1>4. CASE Deinit
    BY <1>4, Zenon DEF Deinit
  <1>5. CASE StatusTimerFires \/ Tick \/ DisplayTimerFires
    BY <1>5 DEF StatusTimerFires, Tick, DisplayTimerFires
  <1>6. ASSUME NEW connected \in BOOLEAN, InputTimerFires(connected) PROVE Phases'
    BY <1>6, Zenon DEF InputTimerFires
  <1>7. CASE Finish
    BY <1>7, Zenon DEF Finish, Ending
  <1>8. CASE DestroySession
    BY <1>8, Zenon DEF DestroySession
  <1>9. CASE RunStarts \/ WaitForChildren \/ StopsChildren
    BY <1>9 DEF RunStarts, WaitForChildren, StopsChildren
  <1>10. CASE RunReturns
    BY <1>10, Zenon DEF RunReturns, Joined
  <1>11. ASSUME NEW s \in Streams, GuestWrites(s) PROVE Phases'
    BY <1>11, Zenon DEF GuestWrites
  <1>12. CASE GuestForks \/ ChildExits \/ XServerChanges
    BY <1>12 DEF GuestForks, ChildExits, XServerChanges
  <1>13. ASSUME NEW outcome \in {"exited", "stopped", "faulted"}, NEW waits \in BOOLEAN, RunProcessReturns(outcome, waits)
         PROVE Phases'
    BY <1>13, Zenon DEF RunProcessReturns
  <1> QED
    BY <1>1, <1>2, <1>3, <1>4, <1>5, <1>6, <1>7, <1>8, <1>9, <1>10, <1>11, <1>12, <1>13, Zenon DEF SessionNext, User, Main, Core, Guest

\* What lives with the run ends with it.
LEMMA LifetimeStep == ~ViewLeaves /\ Phases /\ NothingOutlivesTheRun /\ [SessionNext]_sessionVars => NothingOutlivesTheRun'
  <1> SUFFICES ASSUME ~ViewLeaves, Phases, NothingOutlivesTheRun, [SessionNext]_sessionVars PROVE NothingOutlivesTheRun'
    BY Zenon
  <1>a. Phases'
    BY PhasesStep, Zenon
  <1> DEFINE Lives == (input \/ statusTimer => IsActive) /\ (pending # Nothing => IsActive)
  <1> SUFFICES Lives'
    BY <1>a, Zenon DEF Phases, NothingOutlivesTheRun
  <1>b. Lives
    BY Zenon DEF NothingOutlivesTheRun
  <1> USE <1>b DEF Phases, IsActive, MainIsFree, mainVars, coreVars
  <1>1. CASE UNCHANGED sessionVars
    BY <1>1, Zenon DEF sessionVars
  <1>2. ASSUME NEW created \in BOOLEAN, Run(created) \/ RunGraphical(created) PROVE Lives'
    BY <1>2 DEF Run, RunGraphical, Launch
  <1>3. CASE Stop \/ Reset \/ InputSend
    BY <1>3 DEF Stop, Reset, InputSend
  <1>4. CASE Deinit
    BY <1>4, Zenon DEF Deinit
  <1>5. CASE StatusTimerFires \/ Tick \/ DisplayTimerFires
    BY <1>5 DEF StatusTimerFires, Tick, DisplayTimerFires, FlushOutput
  <1>6. ASSUME NEW connected \in BOOLEAN, InputTimerFires(connected) PROVE Lives'
    BY <1>6, Zenon DEF InputTimerFires
  <1>7. CASE Finish
    BY <1>7, Zenon DEF Finish, FlushOutput
  <1>8. CASE DestroySession
    BY <1>8, Zenon DEF DestroySession
  <1>9. CASE RunStarts \/ WaitForChildren \/ StopsChildren \/ RunReturns
    BY <1>9, Zenon DEF RunStarts, WaitForChildren, StopsChildren, RunReturns
  <1>10. ASSUME NEW s \in Streams, GuestWrites(s) PROVE Lives'
    BY <1>10, Zenon DEF GuestWrites
  <1>11. CASE GuestForks \/ ChildExits \/ XServerChanges
    BY <1>11, Zenon DEF GuestForks, ChildExits, XServerChanges
  <1>12. ASSUME NEW outcome \in {"exited", "stopped", "faulted"}, NEW waits \in BOOLEAN, RunProcessReturns(outcome, waits)
         PROVE Lives'
    BY <1>12, Zenon DEF RunProcessReturns
  <1> QED
    BY <1>1, <1>2, <1>3, <1>4, <1>5, <1>6, <1>7, <1>8, <1>9, <1>10, <1>11, <1>12, Zenon DEF SessionNext, User, Main, Core, Guest

\* As long as the view keeps a running session, and whatever the order of the
\* user's taps, the timers' ticks, the guest's steps and finish: the run's
\* thread, the guest's processes and the app's pointer never outlive the
\* fathom_session, and no timer, connection or output of a run outlives the run.
THEOREM RunIsOutlived == ASSUME ~ViewLeaves PROVE SessionSpec => []NothingOutlivesTheRun
  <1>1. SessionInv /\ [SessionNext]_sessionVars => SessionInv'
    BY PhasesStep, LifetimeStep, Zenon DEF SessionInv
  <1>2. SessionInv => NothingOutlivesTheRun
    BY Zenon DEF SessionInv
  <1> QED BY SessionInitInv, <1>1, <1>2, PTL DEF SessionSpec

=============================================================================
