----------------------- MODULE CodeInvalidation_proof -----------------------
(***************************************************************************)
(* The safety invariants of CodeInvalidation, for any number of threads,   *)
(* processes and changes of memory.                                        *)
(***************************************************************************)
EXTENDS CodeInvalidation, TLAPS

USE SMTT(30), ZenonT(30)

Types ==
    /\ content \in [Contexts -> Versions]
    /\ noted \subseteq Contexts
    /\ cached \in [Threads -> Versions \cup {Nothing}]
    /\ reading \in [Threads -> Versions \cup {Nothing}]
    /\ life \in [Threads -> {"unborn", "live", "forgotten", "dead"}]
    /\ pc \in [Actors -> Places]
    /\ target \in [Actors -> Contexts \cup {Nothing}]
    /\ todo \in [Actors -> SUBSET Threads]
    /\ invalidators \in Int /\ freezes \in Int
    /\ writer \in [Contexts -> Actors \cup {Nothing, "freeze"}]
    /\ frozen \subseteq Threads /\ child \subseteq Contexts
    /\ deferred \subseteq Contexts /\ queue \subseteq Contexts /\ batch \subseteq Contexts
    /\ table \in [op : {"free", "pause", "suspend", "release", "collect"}, ctx : Contexts \cup {Nothing}]

\* Who owns a context's lock, and that nobody compiles then: a freeze owns it
\* exactly while it suspends threads, a sweep exactly while it sweeps.
LockOwners ==
    \A c \in Contexts :
        /\ writer[c] = "freeze" <=> table = Table("suspend", c)
        /\ \A a \in Actors : writer[c] = a <=> pc[a] = "sweep" /\ target[a] = c
        /\ writer[c] # Nothing => Compiling(c) = {}

\* A suspended thread is in guest code and not compiling.
FrozenInGuest == \A t \in frozen : pc[t] = "guest"

\* g_invalidators counts the sweeps that have a copy of the thread list.
Sweepers == {a \in Actors : pc[a] \in {"lock", "sweep", "finish"}}
SweepsCounted == invalidators = Cardinality(Sweepers)

\* g_freezes counts the contexts with suspended threads, and the one whose
\* threads have just been resumed.
Held == {c \in Contexts : frozen \cap In(c) # {}}
FreezesCounted == freezes = Cardinality(Held) + (IF table.op = "release" THEN 1 ELSE 0)

\* What an invalidating actor is about.
Invalidating == {"held?", "check", "defer", "copy", "lock", "sweep", "finish"}
Targets ==
    \A a \in Actors :
        /\ pc[a] \in Invalidating => target[a] \in Contexts
        /\ a \in Threads /\ pc[a] = "held?" => target[a] = Ctx[a]
        /\ todo[a] # {} => pc[a] \in {"lock", "sweep"}
        /\ \A t \in todo[a] : Ctx[t] = target[a] /\ life[t] # "dead"

\* What was compiled, or is being, is noted, and by a thread that is alive; a
\* thread that is not registered yet has done nothing.
Compiled ==
    \A t \in Threads :
        /\ cached[t] # Nothing \/ pc[t] = "compile" => Ctx[t] \in noted
        /\ reading[t] # Nothing => pc[t] = "compile"
        /\ pc[t] = "compile" => life[t] = "live"
        /\ life[t] = "unborn" => cached[t] = Nothing /\ pc[t] = "idle"

\* What a compiling thread has read is thrown away too if it has changed since.
NoStaleReadForgotten ==
    \A t \in Threads : reading[t] # Nothing /\ reading[t] # content[Ctx[t]] => Owed(t)

Inv ==
    /\ Types /\ LockOwners /\ FrozenInGuest /\ SweepsCounted /\ FreezesCounted /\ Targets /\ Compiled
    /\ DeferredHasACollector /\ NoStaleBlockForgotten /\ NoStaleReadForgotten

-----------------------------------------------------------------------------
LEMMA ActorFacts ==
  /\ Invalidator \in Actors /\ Threads \subseteq Actors
  /\ Nothing \notin Actors /\ "freeze" \notin Actors /\ Nothing \notin Versions
  BY CodeAssumption, Zenon DEF Actors, Versions

\* Every variable keeps its type.
LEMMA TypeStep == Types /\ Targets /\ [Next]_vars => Types'
  <1> SUFFICES ASSUME Types, Targets, [Next]_vars PROVE Types'
    BY Zenon
  <1> USE CodeAssumption, ActorFacts DEF Types, Places, Versions, Goes, cache, sweeps, forks, lists
  <1>1. CASE UNCHANGED vars
    BY <1>1, Zenon DEF vars
  <1>2. ASSUME NEW t \in Threads, RegisterLiveThread(t) \/ ForgetLiveThread(t) \/ DestroyThread(t) PROVE Types'
    BY <1>2 DEF RegisterLiveThread, ForgetLiveThread, DestroyThread
  <1>3. ASSUME NEW t \in Threads, Compiles(t) PROVE Types'
    BY <1>3 DEF Compiles, CompileStart, CompileRead, CompileEnd
  <1>4. ASSUME NEW t \in Threads, Replace(t) \/ Release(t) PROVE Types'
    BY <1>4 DEF Replace, Release, Running
  <1>5. ASSUME NEW t \in Threads, HasHeldCode(t) PROVE Types'
    BY <1>5, Zenon DEF HasHeldCode
  <1>6. ASSUME NEW t \in Threads, ForkBegins(t) PROVE Types'
    BY <1>6, Zenon DEF ForkBegins, Table
  <1>7. ASSUME NEW a \in Actors, CheckFreezes(a) \/ Defer(a) PROVE Types'
    BY <1>7 DEF CheckFreezes, Defer, Returned, Targets, Invalidating
  <1>8. ASSUME NEW a \in Actors, CopyLiveThreads(a) \/ FinishSweep(a) PROVE Types'
    BY <1>8 DEF CopyLiveThreads, FinishSweep, Returned, In
  <1>9. ASSUME NEW a \in Actors, LockContext(a) \/ UnlockContext(a) PROVE Types'
    BY <1>9 DEF LockContext, UnlockContext
  <1>10. ASSUME NEW a \in Actors, NEW t \in Threads, SweepThread(a, t) PROVE Types'
    BY <1>10, Zenon DEF SweepThread
  <1>11. CASE InvalidatorSteps
    BY <1>11 DEF InvalidatorSteps, TakeQueue, NextInBatch
  <1>12. ASSUME NEW c \in Contexts, PauseCompilation(c) \/ ResumeCompilation(c) PROVE Types'
    BY <1>12 DEF PauseCompilation, ResumeCompilation, Table, TableFree
  <1>13. ASSUME NEW c \in Contexts, ThawThreads(c) PROVE Types'
    BY <1>13, Zenon DEF ThawThreads, Table, TableFree
  <1>14. ASSUME NEW c \in Contexts, NEW t \in Threads, SuspendThread(c, t) PROVE Types'
    BY <1>14 DEF SuspendThread
  <1>15. CASE ReleaseInvalidations \/ CollectDeferred
    BY <1>15 DEF ReleaseInvalidations, CollectDeferred, TableFree
  <1> QED
    BY <1>1, <1>2, <1>3, <1>4, <1>5, <1>6, <1>7, <1>8, <1>9, <1>10, <1>11, <1>12, <1>13, <1>14, <1>15, Zenon
    DEF Next, Invalidates, TableSteps

\* The lock of a context is owned by the freeze or the sweep that took it, and
\* nobody who compiles is suspended or swept past.
LEMMA LockStep ==
  Types /\ Targets /\ Compiled /\ LockOwners /\ FrozenInGuest /\ [Next]_vars => (LockOwners /\ FrozenInGuest)'
  <1> SUFFICES ASSUME Types, Targets, Compiled, LockOwners, FrozenInGuest, [Next]_vars PROVE (LockOwners /\ FrozenInGuest)'
    BY Zenon
  <1> USE CodeAssumption, ActorFacts DEF Types, LockOwners, FrozenInGuest, Compiling, In, Goes, Table, cache, sweeps, forks, lists
  <1>1. CASE UNCHANGED vars
    BY <1>1 DEF vars
  <1>2. ASSUME NEW t \in Threads, RegisterLiveThread(t) \/ ForgetLiveThread(t) \/ DestroyThread(t)
        PROVE (LockOwners /\ FrozenInGuest)'
    BY <1>2 DEF RegisterLiveThread, ForgetLiveThread, DestroyThread, Running, Compiled
  <1>3. ASSUME NEW t \in Threads, Compiles(t) PROVE (LockOwners /\ FrozenInGuest)'
    BY <1>3 DEF Compiles, CompileStart, CompileRead, CompileEnd, Running
  <1>4. ASSUME NEW t \in Threads, Replace(t) \/ Release(t) PROVE (LockOwners /\ FrozenInGuest)'
    BY <1>4 DEF Replace, Release, Running
  <1>5. ASSUME NEW t \in Threads, HasHeldCode(t) PROVE (LockOwners /\ FrozenInGuest)'
    BY <1>5 DEF HasHeldCode
  <1>6. ASSUME NEW t \in Threads, ForkBegins(t) PROVE (LockOwners /\ FrozenInGuest)'
    BY <1>6 DEF ForkBegins, Running, TableFree
  <1>7. ASSUME NEW a \in Actors, CheckFreezes(a) \/ Defer(a) PROVE (LockOwners /\ FrozenInGuest)'
    BY <1>7 DEF CheckFreezes, Defer, Returned
  <1>8. ASSUME NEW a \in Actors, CopyLiveThreads(a) \/ FinishSweep(a) PROVE (LockOwners /\ FrozenInGuest)'
    BY <1>8 DEF CopyLiveThreads, FinishSweep, Returned
  <1>9. ASSUME NEW a \in Actors, LockContext(a) \/ UnlockContext(a) PROVE (LockOwners /\ FrozenInGuest)'
    BY <1>9 DEF LockContext, UnlockContext, LockIsFree, Targets, Invalidating
  <1>10. ASSUME NEW a \in Actors, NEW t \in Threads, SweepThread(a, t) PROVE (LockOwners /\ FrozenInGuest)'
    BY <1>10 DEF SweepThread
  <1>11. CASE InvalidatorSteps
    BY <1>11 DEF InvalidatorSteps, TakeQueue, NextInBatch
  <1>12. ASSUME NEW c \in Contexts, PauseCompilation(c) \/ ResumeCompilation(c) PROVE (LockOwners /\ FrozenInGuest)'
    BY <1>12 DEF PauseCompilation, ResumeCompilation, TableFree, LockIsFree
  <1>13. ASSUME NEW c \in Contexts, ThawThreads(c) PROVE (LockOwners /\ FrozenInGuest)'
    BY <1>13 DEF ThawThreads, TableFree, Actors
  <1>14. ASSUME NEW c \in Contexts, NEW t \in Threads, SuspendThread(c, t) PROVE (LockOwners /\ FrozenInGuest)'
    BY <1>14 DEF SuspendThread, OutsideRuntime
  <1>15. CASE ReleaseInvalidations \/ CollectDeferred
    BY <1>15 DEF ReleaseInvalidations, CollectDeferred, TableFree
  <1> QED
    BY <1>1, <1>2, <1>3, <1>4, <1>5, <1>6, <1>7, <1>8, <1>9, <1>10, <1>11, <1>12, <1>13, <1>14, <1>15, Zenon
    DEF Next, Invalidates, TableSteps

\* What each actor invalidates, and for whom, stays so, and no thread a sweep
\* still has to visit is destroyed: the count it waits for is that of the sweeps.
LEMMA TargetStep ==
  ASSUME Types, SweepsCounted, Compiled, FrozenInGuest, Targets, [Next]_vars,
         Cardinality(Sweepers) = 0 => Sweepers = {}
  PROVE  Targets'
  <1> USE CodeAssumption, ActorFacts DEF Types, Targets, Invalidating, Goes, cache, sweeps, forks, lists
  <1>1. CASE UNCHANGED vars
    BY <1>1 DEF vars
  <1>2. ASSUME NEW t \in Threads, RegisterLiveThread(t) \/ ForgetLiveThread(t) PROVE Targets'
    BY <1>2 DEF RegisterLiveThread, ForgetLiveThread, Running, Compiled
  <1>3. ASSUME NEW t \in Threads, DestroyThread(t) PROVE Targets'
    <2>1. Sweepers = {}
      <3>1. Cardinality(Sweepers) = 0
        BY <1>3, Zenon DEF DestroyThread, SweepsCounted
      <3> QED BY <3>1, Zenon
    <2>2. \A a \in Actors : todo[a] = {}
      BY <2>1, Zenon DEF Sweepers
    <2> QED BY <1>3, <2>2, Zenon DEF DestroyThread
  <1>4. ASSUME NEW t \in Threads, Compiles(t) PROVE Targets'
    BY <1>4 DEF Compiles, CompileStart, CompileRead, CompileEnd, Running
  <1>5. ASSUME NEW t \in Threads, Replace(t) \/ Release(t) PROVE Targets'
    BY <1>5 DEF Replace, Release, Running
  <1>6. ASSUME NEW t \in Threads, HasHeldCode(t) \/ ForkBegins(t) PROVE Targets'
    BY <1>6 DEF HasHeldCode, ForkBegins, Running
  <1>7. ASSUME NEW a \in Actors, CheckFreezes(a) \/ Defer(a) PROVE Targets'
    BY <1>7 DEF CheckFreezes, Defer, Returned
  <1>8. ASSUME NEW a \in Actors, CopyLiveThreads(a) \/ FinishSweep(a) PROVE Targets'
    BY <1>8 DEF CopyLiveThreads, FinishSweep, Returned, In
  <1>9. ASSUME NEW a \in Actors, LockContext(a) \/ UnlockContext(a) PROVE Targets'
    BY <1>9 DEF LockContext, UnlockContext
  <1>10. ASSUME NEW a \in Actors, NEW t \in Threads, SweepThread(a, t) PROVE Targets'
    BY <1>10 DEF SweepThread
  <1>11. CASE InvalidatorSteps
    BY <1>11 DEF InvalidatorSteps, TakeQueue, NextInBatch
  <1>12. ASSUME NEW c \in Contexts, PauseCompilation(c) \/ ResumeCompilation(c) PROVE Targets'
    BY <1>12 DEF PauseCompilation, ResumeCompilation
  <1>13. ASSUME NEW c \in Contexts, ThawThreads(c) PROVE Targets'
    BY <1>13 DEF ThawThreads
  <1>14. ASSUME NEW c \in Contexts, NEW t \in Threads, SuspendThread(c, t) PROVE Targets'
    BY <1>14 DEF SuspendThread
  <1>15. CASE ReleaseInvalidations \/ CollectDeferred
    BY <1>15 DEF ReleaseInvalidations, CollectDeferred
  <1> QED
    BY <1>1, <1>2, <1>3, <1>4, <1>5, <1>6, <1>7, <1>8, <1>9, <1>10, <1>11, <1>12, <1>13, <1>14, <1>15, Zenon
    DEF Next, Invalidates, TableSteps

\* What is compiled stays noted.
LEMMA CompiledStep == Types /\ Compiled /\ [Next]_vars => Compiled'
  <1> SUFFICES ASSUME Types, Compiled, [Next]_vars PROVE Compiled'
    BY Zenon
  <1> USE CodeAssumption, ActorFacts DEF Types, Compiled, Goes, cache, sweeps, forks, lists
  <1>1. CASE UNCHANGED vars
    BY <1>1, Zenon DEF vars
  <1>2. ASSUME NEW t \in Threads, RegisterLiveThread(t) \/ ForgetLiveThread(t) \/ DestroyThread(t) PROVE Compiled'
    BY <1>2 DEF RegisterLiveThread, ForgetLiveThread, DestroyThread, Running
  <1>3. ASSUME NEW t \in Threads, Compiles(t) PROVE Compiled'
    BY <1>3 DEF Compiles, CompileStart, CompileRead, CompileEnd, Running
  <1>4. ASSUME NEW t \in Threads, Replace(t) \/ Release(t) \/ HasHeldCode(t) \/ ForkBegins(t) PROVE Compiled'
    BY <1>4 DEF Replace, Release, HasHeldCode, ForkBegins, Running
  <1>5. ASSUME NEW a \in Actors, CheckFreezes(a) \/ Defer(a) \/ CopyLiveThreads(a) \/ FinishSweep(a) PROVE Compiled'
    BY <1>5 DEF CheckFreezes, Defer, CopyLiveThreads, FinishSweep, Returned
  <1>6. ASSUME NEW a \in Actors, LockContext(a) \/ UnlockContext(a) PROVE Compiled'
    BY <1>6 DEF LockContext, UnlockContext
  <1>7. ASSUME NEW a \in Actors, NEW t \in Threads, SweepThread(a, t) PROVE Compiled'
    BY <1>7, Zenon DEF SweepThread
  <1>8. CASE InvalidatorSteps
    BY <1>8 DEF InvalidatorSteps, TakeQueue, NextInBatch
  <1>9. ASSUME NEW c \in Contexts, PauseCompilation(c) \/ ResumeCompilation(c) \/ ThawThreads(c) PROVE Compiled'
    BY <1>9 DEF PauseCompilation, ResumeCompilation, ThawThreads
  <1>10. ASSUME NEW c \in Contexts, NEW t \in Threads, SuspendThread(c, t) PROVE Compiled'
    BY <1>10, Zenon DEF SuspendThread
  <1>11. CASE ReleaseInvalidations \/ CollectDeferred
    BY <1>11, Zenon DEF ReleaseInvalidations, CollectDeferred
  <1> QED
    BY <1>1, <1>2, <1>3, <1>4, <1>5, <1>6, <1>7, <1>8, <1>9, <1>10, <1>11, Zenon DEF Next, Invalidates, TableSteps

\* Whoever defers has seen a freeze, and the thaw that ends the last one collects.
LEMMA CollectorStep ==
  ASSUME Types, FreezesCounted, DeferredHasACollector, [Next]_vars, Cardinality(Held) \in Nat
  PROVE  DeferredHasACollector'
  <1> USE CodeAssumption DEF Types, DeferredHasACollector, cache, sweeps, forks, lists
  <1>1. CASE UNCHANGED vars
    BY <1>1, Zenon DEF vars
  <1>2. ASSUME NEW t \in Threads, RegisterLiveThread(t) \/ ForgetLiveThread(t) \/ DestroyThread(t) \/ Compiles(t)
        PROVE DeferredHasACollector'
    BY <1>2, Zenon DEF RegisterLiveThread, ForgetLiveThread, DestroyThread, Compiles, CompileStart, CompileRead, CompileEnd
  <1>3. ASSUME NEW t \in Threads, Replace(t) \/ Release(t) \/ HasHeldCode(t) \/ ForkBegins(t)
        PROVE DeferredHasACollector'
    BY <1>3 DEF Replace, Release, HasHeldCode, ForkBegins, Table, TableFree
  <1>4. ASSUME NEW a \in Actors, Invalidates(a) PROVE DeferredHasACollector'
    BY <1>4, Zenon DEF Invalidates, CheckFreezes, Defer, CopyLiveThreads, LockContext, SweepThread, UnlockContext, FinishSweep
  <1>5. CASE InvalidatorSteps
    BY <1>5, Zenon DEF InvalidatorSteps, TakeQueue, NextInBatch
  <1>6. ASSUME NEW c \in Contexts, PauseCompilation(c) \/ ResumeCompilation(c) \/ ThawThreads(c)
        PROVE DeferredHasACollector'
    BY <1>6 DEF PauseCompilation, ResumeCompilation, ThawThreads, Table, TableFree
  <1>7. ASSUME NEW c \in Contexts, NEW t \in Threads, SuspendThread(c, t) PROVE DeferredHasACollector'
    BY <1>7 DEF SuspendThread
  <1>8. CASE ReleaseInvalidations
    <2>1. freezes >= 1 /\ freezes' = freezes - 1 /\ (freezes = 1 => table'.op = "collect")
      BY <1>8 DEF ReleaseInvalidations, FreezesCounted
    <2> QED BY <2>1
  <1>9. CASE CollectDeferred
    BY <1>9, Zenon DEF CollectDeferred
  <1> QED BY <1>1, <1>2, <1>3, <1>4, <1>5, <1>6, <1>7, <1>8, <1>9, Zenon DEF Next, TableSteps

\* A sweep that has to be made stays owed until it has been made.  The thread
\* whose block it is may be compiling, suspended or in the runtime.
LEMMA StaleStep == Inv /\ [Next]_vars => (NoStaleBlockForgotten /\ NoStaleReadForgotten)'
  <1> DEFINE Kept(t) == /\ life[t] = "live" /\ Stale(t) => Owed(t)
                        /\ reading[t] # Nothing /\ reading[t] # content[Ctx[t]] => Owed(t)
  <1> SUFFICES ASSUME Inv, [Next]_vars, NEW t \in Threads PROVE Kept(t)'
    BY Zenon DEF NoStaleBlockForgotten, NoStaleReadForgotten
  <1> USE CodeAssumption, ActorFacts DEF Goes, cache, sweeps, forks, lists
  <1>a. Types /\ Kept(t) /\ Ctx[t] \in Contexts
    BY Zenon DEF Inv, Types, NoStaleBlockForgotten, NoStaleReadForgotten
  <1>1. CASE UNCHANGED vars
    BY <1>a, <1>1, Zenon DEF vars, Stale, Owed
  <1>2. ASSUME NEW u \in Threads, RegisterLiveThread(u) \/ ForgetLiveThread(u) \/ DestroyThread(u) PROVE Kept(t)'
    BY <1>a, <1>2 DEF RegisterLiveThread, ForgetLiveThread, DestroyThread, Running, Stale, Owed, Types, Inv, Compiled
  <1>3. ASSUME NEW u \in Threads, Compiles(u) PROVE Kept(t)'
    <2>1. Owed(t) => Owed(t)'
      BY <1>3, <1>a DEF Compiles, CompileStart, CompileRead, CompileEnd, Running, Owed, Types
    <2> QED BY <1>3, <1>a, <2>1 DEF Compiles, CompileStart, CompileRead, CompileEnd, Running, Stale, Types
  <1>4. ASSUME NEW u \in Threads, Replace(u) \/ Release(u) PROVE Kept(t)'
    <2>1. CASE Ctx[u] = Ctx[t]
      BY <1>4, <1>a, <2>1, Zenon DEF Replace, Release, Owed, Types
    <2>2. CASE Ctx[u] # Ctx[t]
      <3>1. Owed(t) => Owed(t)'
        BY <1>4, <1>a DEF Replace, Release, Running, Owed, Types
      <3> QED BY <1>4, <1>a, <2>2, <3>1, Zenon DEF Replace, Release, Stale, Types
    <2> QED BY <2>1, <2>2, Zenon
  <1>5. ASSUME NEW u \in Threads, HasHeldCode(u) PROVE Kept(t)'
    <2>1. CASE Ctx[u] = Ctx[t]
      BY <1>5, <1>a, <2>1 DEF HasHeldCode, Owed, Types, Inv, Compiled, Targets, Stale
    <2>2. CASE Ctx[u] # Ctx[t]
      BY <1>5, <1>a, <2>2 DEF HasHeldCode, Owed, Types, Inv, Targets, Stale
    <2> QED BY <2>1, <2>2, Zenon
  <1>6. ASSUME NEW u \in Threads, ForkBegins(u) PROVE Kept(t)'
    BY <1>6, <1>a, Zenon DEF ForkBegins, Running, Owed, Types, Stale
  <1>7. ASSUME NEW a \in Actors, CheckFreezes(a) \/ Defer(a) PROVE Kept(t)'
    BY <1>7, <1>a DEF CheckFreezes, Defer, Returned, Owed, Types, Stale
  <1>8. ASSUME NEW a \in Actors, CopyLiveThreads(a) PROVE Kept(t)'
    BY <1>8, <1>a DEF CopyLiveThreads, In, Owed, Types, Stale, Inv, Compiled
  <1>9. ASSUME NEW a \in Actors, FinishSweep(a) \/ LockContext(a) \/ UnlockContext(a) PROVE Kept(t)'
    BY <1>9, <1>a DEF FinishSweep, LockContext, UnlockContext, Returned, Owed, Types, Stale
  <1>10. ASSUME NEW a \in Actors, NEW u \in Threads, SweepThread(a, u) PROVE Kept(t)'
    <2>1. CASE u = t
      <3>1. reading[t] = Nothing /\ cached'[t] = Nothing /\ reading' = reading
        BY <1>10, <1>a, <2>1 DEF SweepThread, Types, Inv, Targets, LockOwners, Compiling, In, Compiled
      <3> QED BY <3>1, Zenon DEF Stale
    <2>2. CASE u # t
      BY <1>10, <1>a, <2>2, Zenon DEF SweepThread, Owed, Types, Stale
    <2> QED BY <2>1, <2>2, Zenon
  <1>11. CASE InvalidatorSteps
    BY <1>11, <1>a DEF InvalidatorSteps, TakeQueue, NextInBatch, Owed, Types, Stale
  <1>12. ASSUME NEW c \in Contexts, PauseCompilation(c) \/ ResumeCompilation(c) PROVE Kept(t)'
    BY <1>12, <1>a, Zenon DEF PauseCompilation, ResumeCompilation, Owed, Types, Stale
  <1>13. ASSUME NEW c \in Contexts, ThawThreads(c) PROVE Kept(t)'
    BY <1>13, <1>a, Zenon DEF ThawThreads, Owed, Types, Stale
  <1>14. ASSUME NEW c \in Contexts, NEW u \in Threads, SuspendThread(c, u) PROVE Kept(t)'
    BY <1>14, <1>a, Zenon DEF SuspendThread, Owed, Types, Stale
  <1>15. CASE ReleaseInvalidations \/ CollectDeferred
    BY <1>15, <1>a, Zenon DEF ReleaseInvalidations, CollectDeferred, Owed, Types, Stale
  <1> QED
    BY <1>1, <1>2, <1>3, <1>4, <1>5, <1>6, <1>7, <1>8, <1>9, <1>10, <1>11, <1>12, <1>13, <1>14, <1>15, Zenon
    DEF Next, Invalidates, TableSteps

-----------------------------------------------------------------------------
(* The counters.                                                            *)

INSTANCE FiniteSetTheorems

\* What is counted is finite.
LEMMA FiniteCounts ==
  /\ IsFiniteSet(Sweepers) /\ IsFiniteSet(Held)
  /\ Cardinality(Sweepers) \in Nat /\ Cardinality(Held) \in Nat
  /\ Cardinality(Sweepers) = 0 => Sweepers = {}
  <1>1. Sweepers \subseteq Actors /\ Held \subseteq Contexts
    BY Zenon DEF Sweepers, Held
  <1>2. IsFiniteSet(Actors)
    BY CodeAssumption, FS_AddElement, Zenon DEF Actors
  <1>3. IsFiniteSet(Sweepers) /\ IsFiniteSet(Held)
    BY <1>1, <1>2, CodeAssumption, FS_Subset, Zenon
  <1> QED BY <1>3, FS_EmptySet, FS_CardinalityType, Zenon

\* g_invalidators goes up where a sweep copies the list and down where it ends.
LEMMA SweepsCountedStep == Types /\ Compiled /\ SweepsCounted /\ [Next]_vars => SweepsCounted'
  <1> SUFFICES ASSUME Types, Compiled, SweepsCounted, [Next]_vars PROVE SweepsCounted'
    BY Zenon
  <1> USE CodeAssumption, ActorFacts DEF Types, SweepsCounted, Goes, cache, sweeps, forks, lists
  <1>1. ASSUME NEW a \in Actors, CopyLiveThreads(a) PROVE SweepsCounted'
    <2>1. a \notin Sweepers /\ Sweepers' = Sweepers \cup {a} /\ invalidators' = invalidators + 1
      BY <1>1 DEF CopyLiveThreads, Sweepers
    <2> QED BY <2>1, FiniteCounts, FS_AddElement, Zenon
  <1>2. ASSUME NEW a \in Actors, FinishSweep(a) PROVE SweepsCounted'
    <2>1. a \in Sweepers /\ Sweepers' = Sweepers \ {a} /\ invalidators' = invalidators - 1
      BY <1>2, Zenon DEF FinishSweep, Sweepers, Returned
    <2> QED BY <2>1, FiniteCounts, FS_RemoveElement, Zenon
  <1> DEFINE Same == Sweepers' = Sweepers /\ invalidators' = invalidators
  <1>3. CASE UNCHANGED vars
    BY <1>3, Zenon DEF vars, Sweepers
  <1>4. ASSUME NEW t \in Threads, RegisterLiveThread(t) \/ ForgetLiveThread(t) \/ DestroyThread(t) PROVE Same
    BY <1>4 DEF RegisterLiveThread, ForgetLiveThread, DestroyThread, Running, Compiled, Sweepers
  <1>5. ASSUME NEW t \in Threads, Compiles(t) PROVE Same
    BY <1>5 DEF Compiles, CompileStart, CompileRead, CompileEnd, Running, Sweepers
  <1>6. ASSUME NEW t \in Threads, Replace(t) \/ Release(t) \/ HasHeldCode(t) \/ ForkBegins(t) PROVE Same
    BY <1>6 DEF Replace, Release, HasHeldCode, ForkBegins, Running, Sweepers
  <1>7. ASSUME NEW a \in Actors, CheckFreezes(a) \/ Defer(a) PROVE Same
    BY <1>7, Zenon DEF CheckFreezes, Defer, Returned, Sweepers
  <1>8. ASSUME NEW a \in Actors, LockContext(a) \/ UnlockContext(a) PROVE Same
    BY <1>8 DEF LockContext, UnlockContext, Sweepers
  <1>9. ASSUME NEW a \in Actors, NEW t \in Threads, SweepThread(a, t) PROVE Same
    BY <1>9, Zenon DEF SweepThread, Sweepers
  <1>10. ASSUME InvalidatorSteps PROVE Same
    BY <1>10, Zenon DEF InvalidatorSteps, TakeQueue, NextInBatch, Sweepers
  <1>11. ASSUME TableSteps PROVE Same
    BY <1>11 DEF TableSteps, PauseCompilation, ResumeCompilation, ThawThreads, SuspendThread,
                 ReleaseInvalidations, CollectDeferred, Sweepers
  <1> QED
    BY <1>1, <1>2, <1>3, <1>4, <1>5, <1>6, <1>7, <1>8, <1>9, <1>10, <1>11, Zenon DEF Next, Invalidates

\* g_freezes goes up with the first thread a freeze suspends, and down once
\* for each thaw that had threads to resume.
LEMMA FreezesCountedStep == Types /\ FreezesCounted /\ [Next]_vars => FreezesCounted'
  <1> SUFFICES ASSUME Types, FreezesCounted, [Next]_vars PROVE FreezesCounted'
    BY Zenon
  <1> USE CodeAssumption, ActorFacts DEF Types, FreezesCounted, cache, sweeps, forks, lists
  <1>1. ASSUME NEW c \in Contexts, NEW t \in Threads, SuspendThread(c, t) PROVE FreezesCounted'
    <2>1. Held' = Held \cup {c} /\ table' = table /\ table.op = "suspend"
      BY <1>1 DEF SuspendThread, Held, In, Table
    <2>2. CASE c \in Held
      <3>1. Held' = Held /\ freezes' = freezes
        BY <1>1, <2>1, <2>2, Zenon DEF SuspendThread, Held
      <3> QED BY <2>1, <3>1, Zenon
    <2>3. CASE c \notin Held
      <3>1. freezes' = freezes + 1
        BY <1>1, <2>3, Zenon DEF SuspendThread, Held
      <3>2. Cardinality(Held') = Cardinality(Held) + 1
        BY <2>1, <2>3, FiniteCounts, FS_AddElement, Zenon
      <3> QED BY <2>1, <3>1, <3>2, FiniteCounts
    <2> QED BY <2>2, <2>3, Zenon
  <1>2. ASSUME NEW c \in Contexts, ThawThreads(c) PROVE FreezesCounted'
    <2>1. Held' = Held \ {c} /\ freezes' = freezes /\ table.op = "free"
      BY <1>2 DEF ThawThreads, Held, In, TableFree
    <2>2. CASE c \in Held
      <3>1. table'.op = "release"
        BY <1>2, <2>2, Zenon DEF ThawThreads, Held, Table
      <3>2. Cardinality(Held') = Cardinality(Held) - 1
        BY <2>1, <2>2, FiniteCounts, FS_RemoveElement, Zenon
      <3> QED BY <2>1, <3>1, <3>2, FiniteCounts
    <2>3. CASE c \notin Held
      <3>1. table'.op = "free" /\ Held' = Held
        BY <1>2, <2>1, <2>3, Zenon DEF ThawThreads, Held, TableFree
      <3> QED BY <2>1, <3>1, Zenon
    <2> QED BY <2>2, <2>3, Zenon
  <1>3. CASE ReleaseInvalidations
    <2>1. Held' = Held /\ table.op = "release" /\ freezes' = freezes - 1 /\ table'.op \in {"collect", "free"}
      BY <1>3, Zenon DEF ReleaseInvalidations, Held, TableFree
    <2> QED BY <2>1, FiniteCounts
  <1> DEFINE Same == /\ Held' = Held /\ freezes' = freezes
                     /\ table'.op = "release" <=> table.op = "release"
  <1>4. CASE UNCHANGED vars
    BY <1>4, Zenon DEF vars, Held
  <1>5. ASSUME NEW t \in Threads, RegisterLiveThread(t) \/ ForgetLiveThread(t) \/ DestroyThread(t) \/ Compiles(t)
        PROVE Same
    BY <1>5 DEF RegisterLiveThread, ForgetLiveThread, DestroyThread, Compiles, CompileStart, CompileRead, CompileEnd, Held
  <1>6. ASSUME NEW t \in Threads, Replace(t) \/ Release(t) \/ HasHeldCode(t) \/ ForkBegins(t) PROVE Same
    BY <1>6 DEF Replace, Release, HasHeldCode, ForkBegins, Held, Table, TableFree
  <1>7. ASSUME NEW a \in Actors, Invalidates(a) PROVE Same
    BY <1>7, Zenon DEF Invalidates, CheckFreezes, Defer, CopyLiveThreads, LockContext, SweepThread, UnlockContext, FinishSweep, Held
  <1>8. ASSUME InvalidatorSteps PROVE Same
    BY <1>8 DEF InvalidatorSteps, TakeQueue, NextInBatch, Held
  <1>9. ASSUME NEW c \in Contexts, PauseCompilation(c) \/ ResumeCompilation(c) PROVE Same
    BY <1>9 DEF PauseCompilation, ResumeCompilation, Held, Table, TableFree
  <1>10. ASSUME CollectDeferred PROVE Same
    BY <1>10, Zenon DEF CollectDeferred, Held, TableFree
  <1> HIDE DEF Same
  <1>11. Same => FreezesCounted'
    BY Zenon DEF Same
  <1> QED
    BY <1>1, <1>2, <1>3, <1>4, <1>5, <1>6, <1>7, <1>8, <1>9, <1>10, <1>11, Zenon DEF Next, TableSteps, Same, vars

LEMMA InitInv == Init => Inv
  <1> SUFFICES ASSUME Init PROVE Inv
    BY Zenon
  <1> USE CodeAssumption, ActorFacts DEF Init
  <1>1. Types
    BY DEF Types, Places, Versions, TableFree
  <1>2. LockOwners /\ FrozenInGuest
    BY Zenon DEF LockOwners, FrozenInGuest, Compiling, In, TableFree, Table
  <1>3. SweepsCounted
    <2>1. Sweepers = {}
      BY Zenon DEF Sweepers
    <2> QED BY <2>1, FS_EmptySet, Zenon DEF SweepsCounted
  <1>4. FreezesCounted
    <2>1. Held = {}
      BY Zenon DEF Held
    <2> QED BY <2>1, FS_EmptySet DEF FreezesCounted, TableFree
  <1>5. Targets /\ Compiled /\ DeferredHasACollector
    BY Zenon DEF Targets, Compiled, DeferredHasACollector, Invalidating
  <1>6. NoStaleBlockForgotten /\ NoStaleReadForgotten
    BY Zenon DEF NoStaleBlockForgotten, NoStaleReadForgotten, Stale
  <1> QED BY <1>1, <1>2, <1>3, <1>4, <1>5, <1>6, Zenon DEF Inv

-----------------------------------------------------------------------------
\* The inductive invariant: who owns which lock and which counter counts what,
\* from which the four properties of the component follow.
THEOREM CodeInvariant == Spec => []Inv
  <1>1. Inv /\ [Next]_vars => Inv'
    BY TypeStep, LockStep, TargetStep, FiniteCounts, CompiledStep, SweepsCountedStep, FreezesCountedStep, CollectorStep, StaleStep, Zenon DEF Inv
  <1> QED BY InitInv, <1>1, PTL DEF Spec

\* For any number of threads and processes, no sweep reaches into a destroyed
\* thread: ~Thread waits for g_invalidators, which counts every sweep holding a
\* copy of the list.
THEOREM SweepsAreSafe == Spec => []SweepsReachLiveThreads
  <1>1. Inv => SweepsReachLiveThreads
    BY Zenon DEF Inv, Targets, SweepsReachLiveThreads
  <1> QED BY CodeInvariant, <1>1, PTL

\* For any number of threads, processes and changes of memory, a block compiled
\* from what used to be there has a sweep coming: under way, queued or deferred.
THEOREM StaleBlocksAreOwed == Spec => []NoStaleBlockForgotten
  <1>1. Inv => NoStaleBlockForgotten
    BY Zenon DEF Inv
  <1> QED BY CodeInvariant, <1>1, PTL

\* Whatever ReleaseInvalidations and InvalidateCompiledCode interleave, a range
\* on g_deferred has a thaw ahead of it that collects it.
THEOREM DeferredIsCollected == Spec => []DeferredHasACollector
  <1>1. Inv => DeferredHasACollector
    BY Zenon DEF Inv
  <1> QED BY CodeInvariant, <1>1, PTL

\* FreezeThreads never suspends a thread that holds the invalidation lock:
\* PauseCompilation has waited for every compiler of the context.
THEOREM SuspendedAreNotCompiling == Spec => []SuspendedHoldsNoLock
  <1>1. Inv => SuspendedHoldsNoLock
    BY Zenon DEF Inv, FrozenInGuest, SuspendedHoldsNoLock
  <1> QED BY CodeInvariant, <1>1, PTL

=============================================================================
