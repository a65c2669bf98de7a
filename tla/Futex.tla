------------------------------- MODULE Futex -------------------------------
(***************************************************************************)
(* The futex system call of linux_syscalls.cpp: FUTEX_WAIT, FUTEX_WAKE,    *)
(* FUTEX_LOCK_PI, FUTEX_TRYLOCK_PI and FUTEX_UNLOCK_PI, with the guest     *)
(* code around them.                                                       *)
(*                                                                         *)
(* Two words are enough for every pair of calls to meet: word, which       *)
(* threads wait on and set, and pi, a priority-inheritance mutex.  Both    *)
(* hash to one bucket (FutexQueue), so a wake for one reaches the waiters  *)
(* of the other.  A waiter sleeps in slices of 20 ms, modelled as a step   *)
(* that may end the sleep at any time.                                     *)
(***************************************************************************)
EXTENDS Integers, FiniteSets

CONSTANTS
    Threads,     \* guest threads, of any processes sharing the words
    Nobody,      \* the id 0 in the mutex word
    Freezable,   \* the threads a fork elsewhere in their process may suspend
    MaxRounds    \* bound: calls each thread makes

ASSUME FutexAssumption == Nobody \notin Threads /\ Freezable \subseteq Threads /\ MaxRounds \in Nat

VARIABLES
    word,        \* the plain futex word: 0 until some thread sets it to 1
    pi,          \* the mutex word: the owner's id and the FUTEX_WAITERS bit
    mutex,       \* who holds the bucket's mutex
    generation,  \* the bucket's count of wakes
    seen,        \* the generation each waiter read
    held,        \* the mutex word as each locker last loaded it
    asleep,      \* threads inside wait_for that nothing has woken
    blocking,    \* in_blocking_wait_
    frozen,      \* threads suspended by a fork
    pc, rounds

words == <<word, pi>>
bucket == <<mutex, generation>>
vars == <<word, pi, mutex, generation, seen, held, asleep, blocking, frozen, pc, rounds>>

Free == [owner |-> Nobody, waiters |-> FALSE]
At(t, where) == pc[t] = where /\ t \notin frozen
Goes(t, where) == pc' = [pc EXCEPT ![t] = where]
Takes == mutex = Nobody
Enters(t) == blocking' = blocking \cup {t}
Leaves(t) == blocking' = blocking \ {t}
Begins(t) ==
    /\ At(t, "run") /\ rounds[t] < MaxRounds
    /\ rounds' = [rounds EXCEPT ![t] = @ + 1]

(***************************************************************************)
(* FUTEX_WAIT on word, expecting 0.  The bucket's mutex is held from the   *)
(* first look at the word until the sleep, and again after it.             *)
(***************************************************************************)
WaitCall(t) ==
    /\ Begins(t) /\ Enters(t) /\ Goes(t, "wait.lock")
    /\ UNCHANGED <<words, bucket, seen, held, asleep, frozen>>

\* Mutant of WaitLock: it goes to sleep without having read the generation.
WaitWithoutReading(t) ==
    /\ At(t, "wait.lock") /\ Takes
    /\ IF word # 0
       THEN Goes(t, "run") /\ Leaves(t) /\ UNCHANGED <<mutex, seen, asleep>>
       ELSE /\ Goes(t, "wait.sleep") /\ asleep' = asleep \cup {t}
            /\ UNCHANGED <<blocking, mutex, seen>>
    /\ UNCHANGED <<words, generation, held, frozen, rounds>>

WaitLock(t) ==
    /\ At(t, "wait.lock") /\ Takes
    /\ IF word # 0
       THEN Goes(t, "run") /\ Leaves(t) /\ UNCHANGED <<mutex, seen>>
       ELSE /\ mutex' = t /\ seen' = [seen EXCEPT ![t] = generation]
            /\ Goes(t, "wait.loop") /\ UNCHANGED blocking
    /\ UNCHANGED <<words, generation, held, asleep, frozen, rounds>>

\* One turn of the loop: woken, the word moved, or back to sleep.
WaitLoop(t) ==
    /\ At(t, "wait.loop")
    /\ mutex' = Nobody
    /\ IF generation # seen[t] \/ word # 0
       THEN Goes(t, "run") /\ Leaves(t) /\ UNCHANGED asleep
       ELSE Goes(t, "wait.sleep") /\ asleep' = asleep \cup {t} /\ UNCHANGED blocking
    /\ UNCHANGED <<words, generation, seen, held, frozen, rounds>>

\* Mutant of WaitInterrupted: it returns with the bucket locked.
InterruptedLocked(t) ==
    /\ At(t, "wait.loop")
    /\ Goes(t, "run") /\ Leaves(t)
    /\ UNCHANGED <<words, bucket, seen, held, asleep, frozen, rounds>>

\* SignalPending or a timeout: ERESTARTSYS or ETIMEDOUT.  (ShouldStop ends the
\* thread, with the whole session, and is left out.)
WaitInterrupted(t) ==
    /\ At(t, "wait.loop")
    /\ mutex' = Nobody /\ Goes(t, "run") /\ Leaves(t)
    /\ UNCHANGED <<words, generation, seen, held, asleep, frozen, rounds>>

WaitWakes(t) ==
    /\ At(t, "wait.sleep") /\ t \notin asleep /\ Takes
    /\ mutex' = t /\ Goes(t, "wait.loop")
    /\ UNCHANGED <<words, generation, seen, held, asleep, blocking, frozen, rounds>>

\* Mutant of SliceEnds: the wait is not bounded.
SliceNeverEnds(t) ==
    /\ t \in asleep \cap frozen
    /\ UNCHANGED vars

SliceEnds(t) ==
    /\ t \in asleep \ frozen
    /\ asleep' = asleep \ {t}
    /\ UNCHANGED <<words, bucket, seen, held, blocking, frozen, pc, rounds>>

(***************************************************************************)
(* The guest sets word and calls FUTEX_WAKE (a requeue is the same, for    *)
(* two words, and so is ReleaseThreadId when a thread ends).  WakeFutex    *)
(* counts under the mutex and notifies after letting go of it.             *)
(***************************************************************************)
GuestStore(t) ==
    /\ Begins(t)
    /\ word' = 1 /\ Goes(t, "wake.count")
    /\ UNCHANGED <<pi, bucket, seen, held, asleep, blocking, frozen>>

WakeCount(t) ==
    /\ At(t, "wake.count") /\ Takes
    /\ generation' = generation + 1 /\ Goes(t, "wake.notify")
    /\ UNCHANGED <<words, mutex, seen, held, asleep, blocking, frozen, rounds>>

\* Mutant of WakeNotify: one waiter is notified, whichever it is.
WakeNotifyOne(t) ==
    /\ At(t, "wake.notify")
    /\ IF asleep = {} THEN UNCHANGED asleep ELSE \E u \in asleep : asleep' = asleep \ {u}
    /\ Goes(t, "run")
    /\ UNCHANGED <<words, bucket, seen, held, blocking, frozen, rounds>>

WakeNotify(t) ==
    /\ At(t, "wake.notify")
    /\ asleep' = {} /\ Goes(t, "run")
    /\ UNCHANGED <<words, bucket, seen, held, blocking, frozen, rounds>>

(***************************************************************************)
(* The guest's own fast paths: a free mutex is taken, and one without      *)
(* waiters given up, without a system call.                                *)
(***************************************************************************)
GuestLock(t) ==
    /\ Begins(t)
    /\ IF pi = Free
       THEN pi' = [owner |-> t, waiters |-> FALSE] /\ Goes(t, "cs") /\ UNCHANGED blocking
       ELSE \E call \in {"lock.load", "try.load"} : Goes(t, call) /\ Enters(t) /\ UNCHANGED pi
    /\ UNCHANGED <<word, bucket, seen, held, asleep, frozen>>

GuestUnlock(t) ==
    /\ At(t, "cs")
    /\ IF pi = [owner |-> t, waiters |-> FALSE]
       THEN pi' = Free /\ Goes(t, "run")
       ELSE UNCHANGED pi /\ Goes(t, "unlock.load")
    /\ UNCHANGED <<word, bucket, seen, held, asleep, blocking, frozen, rounds>>

(***************************************************************************)
(* FUTEX_LOCK_PI and FUTEX_TRYLOCK_PI.  Every compare_exchange_weak may    *)
(* fail; the one that sets the waiters bit is not tried again before the   *)
(* sleep.                                                                  *)
(***************************************************************************)
LockLoad(t) ==
    /\ At(t, "lock.load") \/ At(t, "try.load")
    /\ held' = [held EXCEPT ![t] = pi]
    /\ CASE pi.owner = Nobody ->
              Goes(t, IF pc[t] = "lock.load" THEN "lock.take" ELSE "try.take") /\ UNCHANGED blocking
         [] pi.owner # Nobody /\ pc[t] = "try.load" -> Goes(t, "run") /\ Leaves(t)     \* EBUSY
         [] pi.owner # Nobody /\ pc[t] = "lock.load" -> Goes(t, "lock.mark") /\ UNCHANGED blocking
    /\ UNCHANGED <<words, bucket, seen, asleep, frozen, rounds>>

\* Mutant of LockTake: a store where the code exchanges.
LockTakeByStore(t) ==
    /\ At(t, "lock.take") \/ At(t, "try.take")
    /\ pi' = [held[t] EXCEPT !.owner = t] /\ Goes(t, "cs") /\ Leaves(t)
    /\ UNCHANGED <<word, bucket, seen, held, asleep, frozen, rounds>>

LockTake(t) ==
    /\ At(t, "lock.take") \/ At(t, "try.take")
    /\ \/ /\ pi = held[t]
          /\ pi' = [pi EXCEPT !.owner = t] /\ Goes(t, "cs") /\ Leaves(t)
       \/ /\ Goes(t, IF pc[t] = "lock.take" THEN "lock.load" ELSE "try.load")
          /\ UNCHANGED <<pi, blocking>>
    /\ UNCHANGED <<word, bucket, seen, held, asleep, frozen, rounds>>

LockMark(t) ==
    /\ At(t, "lock.mark")
    /\ \/ pi = held[t] /\ pi' = [pi EXCEPT !.waiters = TRUE]
       \/ UNCHANGED pi
    /\ Goes(t, "lock.lock")
    /\ UNCHANGED <<word, bucket, seen, held, asleep, blocking, frozen, rounds>>

LockLock(t) ==
    /\ At(t, "lock.lock") /\ Takes
    /\ mutex' = t /\ Goes(t, "lock.check")
    /\ UNCHANGED <<words, generation, seen, held, asleep, blocking, frozen, rounds>>

LockCheck(t) ==
    /\ At(t, "lock.check")
    /\ mutex' = Nobody
    /\ IF pi.owner = Nobody
       THEN Goes(t, "lock.load") /\ UNCHANGED <<asleep, blocking>>
       ELSE \/ Goes(t, "run") /\ Leaves(t) /\ UNCHANGED asleep          \* SignalPending
            \/ Goes(t, "lock.sleep") /\ asleep' = asleep \cup {t} /\ UNCHANGED blocking
    /\ UNCHANGED <<words, generation, seen, held, frozen, rounds>>

\* wait_for takes the mutex again before the loop lets go of it.
LockWakes(t) ==
    /\ At(t, "lock.sleep") /\ t \notin asleep /\ Takes
    /\ Goes(t, "lock.load")
    /\ UNCHANGED <<words, bucket, seen, held, asleep, blocking, frozen, rounds>>

(***************************************************************************)
(* FUTEX_UNLOCK_PI: the owner stores 0, whatever else the word holds, and  *)
(* wakes the bucket.                                                       *)
(***************************************************************************)
UnlockLoad(t) ==
    /\ At(t, "unlock.load")
    /\ Goes(t, IF pi.owner = t THEN "unlock.store" ELSE "run")
    /\ UNCHANGED <<words, bucket, seen, held, asleep, blocking, frozen, rounds>>

UnlockStore(t) ==
    /\ At(t, "unlock.store")
    /\ pi' = Free /\ Goes(t, "wake.count")
    /\ UNCHANGED <<word, bucket, seen, held, asleep, blocking, frozen, rounds>>

(***************************************************************************)
(* A fork suspends a thread that is not InRuntime: in guest code, or in a  *)
(* stretch marked as a blocking wait.                                      *)
(***************************************************************************)
InRuntime(t) == pc[t] \notin {"run", "cs"} /\ t \notin blocking

Suspend(t) ==
    /\ t \in Freezable \ frozen /\ ~InRuntime(t)
    /\ frozen' = frozen \cup {t}
    /\ UNCHANGED <<words, bucket, seen, held, asleep, blocking, pc, rounds>>

Thaw(t) ==
    /\ t \in frozen
    /\ frozen' = frozen \ {t}
    /\ UNCHANGED <<words, bucket, seen, held, asleep, blocking, pc, rounds>>

Init ==
    /\ word = 0 /\ pi = Free
    /\ mutex = Nobody /\ generation = 0
    /\ seen = [t \in Threads |-> 0] /\ held = [t \in Threads |-> Free]
    /\ asleep = {} /\ blocking = {} /\ frozen = {}
    /\ pc = [t \in Threads |-> "run"] /\ rounds = [t \in Threads |-> 0]

Wakes(t) == WakeCount(t) \/ WakeNotify(t)
Waits(t) == WaitLock(t) \/ WaitLoop(t) \/ WaitInterrupted(t) \/ WaitWakes(t)
Locks(t) == LockLoad(t) \/ LockTake(t) \/ LockMark(t) \/ LockLock(t) \/ LockCheck(t) \/ LockWakes(t)
Unlocks(t) == GuestUnlock(t) \/ UnlockLoad(t) \/ UnlockStore(t)
Freezes(t) == Suspend(t) \/ Thaw(t)

Next == \E t \in Threads :
    \/ WaitCall(t) \/ GuestStore(t) \/ GuestLock(t)
    \/ Waits(t) \/ Wakes(t) \/ Locks(t) \/ Unlocks(t)
    \/ SliceEnds(t) \/ Freezes(t)

Spec == Init /\ [][Next]_vars

(***************************************************************************)
(* A thread in a call goes on whenever it can; a slice and a freeze end; a *)
(* contended bucket mutex is got in the end, and a compare_exchange_weak   *)
(* does not fail for ever.  Guest code lets go of a mutex it holds.        *)
(***************************************************************************)
Fairness == \A t \in Threads :
    /\ WF_vars(Waits(t) \/ Wakes(t) \/ Locks(t) \/ Unlocks(t))
    /\ WF_vars(SliceEnds(t)) /\ WF_vars(Thaw(t))
    /\ SF_vars(WaitLock(t) \/ WaitWakes(t) \/ WakeCount(t) \/ LockLock(t) \/ LockWakes(t))
    /\ SF_vars(LockTake(t) /\ pi' # pi)

FairSpec == Spec /\ Fairness

-----------------------------------------------------------------------------
Places == {"run", "cs", "wait.lock", "wait.loop", "wait.sleep", "wake.count", "wake.notify",
           "lock.load", "try.load", "lock.take", "try.take", "lock.mark", "lock.lock",
           "lock.check", "lock.sleep", "unlock.load", "unlock.store"}
PiWord == [owner : Threads \cup {Nobody}, waiters : BOOLEAN]

TypeOK ==
    /\ word \in {0, 1} /\ pi \in PiWord
    /\ mutex \in Threads \cup {Nobody} /\ generation \in Nat
    /\ seen \in [Threads -> Nat] /\ held \in [Threads -> PiWord]
    /\ asleep \subseteq Threads /\ blocking \subseteq Threads /\ frozen \subseteq Threads
    /\ pc \in [Threads -> Places] /\ rounds \in [Threads -> 0..MaxRounds]

Owns(t) == pc[t] \in {"cs", "unlock.load", "unlock.store"}

\* The PI mutex excludes: guest fast paths, lockers, unlockers and failing
\* exchanges in any order never let two threads hold it, and the word names
\* the one that does.
MutexExcludes == \A t \in Threads : Owns(t) <=> pi.owner = t

Asks(t) == pc[t] \in {"lock.load", "try.load", "lock.take", "try.take", "lock.mark", "lock.lock",
                       "lock.check", "lock.sleep"}
Lock == INSTANCE Mutex WITH asking <- {t \in Threads : Asks(t)}, holders <- {t \in Threads : Owns(t)}

\* The PI futex is a mutex: the guest's fast paths and the three calls, with
\* exchanges that fail, loads that are old by the time they are used, signals
\* and suspended threads, take no step a mutex does not take.
IsAMutex == Lock!Spec

\* No wake is lost: a waiter that is still asleep although its word has been
\* set is asleep only until a thread that set it gets to its notify; it never
\* has to wait for its slice to end.
NoWakeLost ==
    \A t \in asleep : pc[t] = "wait.sleep" /\ word # 0 =>
        \E u \in Threads : pc[u] \in {"wake.count", "wake.notify"}

\* A thread asleep for a wake that has been counted is about to be notified.
CountedIsNotified ==
    \A t \in asleep : pc[t] = "wait.sleep" /\ generation # seen[t] =>
        \E u \in Threads : pc[u] = "wake.notify"

ForksGoOn == []<>(frozen # {})

\* Every call comes back, whatever else the threads do with the two words and
\* even where the waiters bit was not set or was stored over: a thread in a
\* lock call gets the mutex, fails or is interrupted, unless forks go on
\* freezing threads for ever.
LockCallsReturn == ForksGoOn \/ \A t \in Threads : pc[t] = "lock.load" ~> pc[t] \in {"run", "cs"}

\* Once the word is set every waiter that is asleep on it comes back, unless
\* forks go on freezing threads for ever.
WaitersReturn == ForksGoOn \/ \A t \in Threads : (word = 1 /\ pc[t] = "wait.sleep") ~> pc[t] = "run"

\* A thread that may be stopped holds nothing a forking child needs
\* (linux_syscalls.h:311): nobody is suspended holding a bucket's mutex.
\* Not kept: a waiter is marked as waiting before it locks the bucket.
SuspendedHoldsNothing == mutex \notin frozen
=============================================================================
