-------------------------- MODULE Processes_proof --------------------------
(***************************************************************************)
(* What ReleaseOwnArenas frees and what is left behind, for any number of  *)
(* processes, arenas and execve calls, and who may be suspended.           *)
(***************************************************************************)
EXTENDS Processes, TLAPS

USE SMTT(30), ZenonT(30)

Hosts == {"none", "run", "execed", "drop", "stopping", "released", "finished", "gone"}
Calls == {"none", "run", "fork.join", "fork.setup", "fork.create", "fork.created", "fork.wait",
          "fork.still", "wait4", "wait.join", "wait.free", "exec"}

PidsOrNone == Pids \cup {0}
Arenas == 1..MaxArenas

Types ==
    /\ processes \subseteq Pids /\ freed \subseteq Pids
    /\ finished \subseteq Pids /\ released \subseteq Pids
    /\ ppid \in [Pids -> PidsOrNone]
    /\ space \in [Pids -> Spaces] /\ previous_space \in [Pids -> Spaces] /\ borrowed_space \in [Pids -> Spaces]
    /\ next_pid \in Nat /\ next_pid > 0
    /\ made \in Nat /\ arenas32 \subseteq Arenas
    /\ host \in [Pids -> Hosts]
    /\ call \in [Threads -> Calls]
    /\ child \in [Threads -> PidsOrNone]
    /\ frozen \subseteq Threads

\* Where a process's host thread is, and what its record says.
Records ==
    \A p \in Pids :
        /\ host[p] \in {"run", "execed", "drop", "stopping", "released"} => p \in processes \ finished
        /\ p \in finished => host[p] \in {"finished", "gone"}
        /\ p \in processes /\ host[p] \in {"finished", "gone"} => p \in finished
        /\ p \in processes => p \notin freed
        /\ host[p] = "released" => p \in released
        /\ host[p] = "none" => previous_space[p] = NoSpace
        /\ p >= next_pid => p \notin processes \cup freed \cup released /\ host[p] = "none" /\ space[p] = NoSpace

\* The process a thread's call is about.
CallOf(t) ==
    /\ call[t] \notin {"none", "run"} => host[t[1]] = "run" \/ (host[t[1]] = "stopping" /\ t[2] = 2)
    /\ call[t] \in {"fork.create", "fork.created", "fork.wait", "fork.still", "wait.join", "wait.free"}
       => child[t] \in Pids /\ child[t] < next_pid
    /\ call[t] = "fork.create" => child[t] \in processes /\ host[child[t]] = "none"
    /\ call[t] = "fork.create" => \A u \in Threads \ {t} : call[u] = "fork.create" => child[u] # child[t]
    /\ call[t] \in {"fork.create", "fork.created", "fork.wait"} /\ child[t] \notin freed => ppid[child[t]] = t[1]
    /\ call[t] \in {"wait.join", "wait.free"} => child[t] \notin processes /\ host[child[t]] \in {"finished", "gone"}
Called == \A t \in Threads : CallOf(t)

\* A borrowed space is one the borrower is in, or was in before its execve,
\* or is lost.
Borrowed ==
    \A q \in processes \ finished :
        borrowed_space[q] \in {NoSpace, space[q], previous_space[q]} \cup lost

Inv == Types /\ Records /\ Called /\ Borrowed /\ NoSpaceFreedInUse /\ LeaksAreKnown

-----------------------------------------------------------------------------
LEMMA ThreadFacts == \A t \in Threads : t[1] \in Pids /\ t[2] \in {1, 2}
  BY ProcessesAssumption, Zenon DEF Threads, Pids

\* A process's threads are told apart by their number.
LEMMA ThreadNames ==
  /\ \A p \in Pids : <<p, 1>> \in Threads
  /\ \A p \in Threaded : <<p, 2>> \in Threads
  /\ \A t \in Threads : t = <<t[1], 1>> \/ t = <<t[1], 2>>
  BY ProcessesAssumption DEF Threads, Pids

LEMMA PidFacts ==
  /\ Pids \subseteq Nat /\ 0 \notin Pids /\ Pids \subseteq PidsOrNone /\ 0 \in PidsOrNone
  /\ \A n \in Nat : n <= MaxPid /\ n # 0 => n \in Pids
  BY ProcessesAssumption DEF Pids, PidsOrNone

LEMMA SpaceFacts ==
  /\ NoSpace \in Spaces /\ Session \in Spaces /\ Arenas \subseteq Spaces
  /\ NoSpace \notin Arenas /\ Session \notin Arenas /\ NoSpace # Session
  /\ \A n \in Nat : n < MaxArenas => n + 1 \in Arenas
  BY ProcessesAssumption DEF NoSpace, Session, Spaces, Arenas

\* What the types are when a record is made, ...
LEMMA InsertTypes ==
  ASSUME Types, next_pid <= MaxPid, NEW t \in Threads, NEW in \in Spaces, NEW borrows \in Spaces, NEW own,
         Insert(t, in, borrows, own)
  PROVE  /\ (processes \subseteq Pids)' /\ (ppid \in [Pids -> PidsOrNone])'
         /\ (space \in [Pids -> Spaces] /\ borrowed_space \in [Pids -> Spaces])'
         /\ (call \in [Threads -> Calls] /\ child \in [Threads -> PidsOrNone])'
  <1>1. next_pid \in Pids /\ t[1] \in Pids
    BY PidFacts, ThreadFacts DEF Types
  <1>2. (processes \subseteq Pids)' /\ (ppid \in [Pids -> PidsOrNone])'
    BY <1>1, PidFacts, Zenon DEF Types, Insert
  <1>3. (space \in [Pids -> Spaces] /\ borrowed_space \in [Pids -> Spaces])'
    BY <1>1, Zenon DEF Types, Insert
  <1>4. (call \in [Threads -> Calls])' /\ (child \in [Threads -> PidsOrNone])'
    BY <1>1, PidFacts, Zenon DEF Types, Insert, Goto, Calls
  <1> QED BY <1>2, <1>3, <1>4, Zenon

\* ... destroyed, ...
LEMMA DestroyTypes ==
  ASSUME Types, NEW p \in Pids, Destroy(p)
  PROVE  /\ (freed \subseteq Pids /\ finished \subseteq Pids /\ released \subseteq Pids)'
         /\ (ppid \in [Pids -> PidsOrNone])'
         /\ (space \in [Pids -> Spaces] /\ previous_space \in [Pids -> Spaces] /\ borrowed_space \in [Pids -> Spaces])'
         /\ made' = made /\ (arenas32 \subseteq Arenas)'
  <1>1. (freed \subseteq Pids /\ finished \subseteq Pids /\ released \subseteq Pids)'
    BY Zenon DEF Types, Destroy
  <1>2. (ppid \in [Pids -> PidsOrNone])'
    BY PidFacts, Zenon DEF Types, Destroy
  <1>3. (space \in [Pids -> Spaces] /\ previous_space \in [Pids -> Spaces] /\ borrowed_space \in [Pids -> Spaces])'
    BY SpaceFacts, Zenon DEF Types, Destroy
  <1> QED BY <1>1, <1>2, <1>3, Zenon DEF Types, Destroy

\* ... and a call is over.
LEMMA ReturnTypes ==
  ASSUME Types, NEW t \in Threads, Return(t)
  PROVE  (call \in [Threads -> Calls] /\ child \in [Threads -> PidsOrNone])'
  BY PidFacts, Zenon DEF Types, Return, Goto, Calls

\* Every variable keeps its type.
LEMMA TypeStep == Types /\ Called /\ [Next]_vars => Types'
  <1> SUFFICES ASSUME Types, Called, [Next]_vars PROVE Types'
    BY Zenon
  <1> USE ThreadFacts, SpaceFacts, PidFacts
      DEF Types, Hosts, Calls, Goto, table, flags, spaces
  <1>1. CASE UNCHANGED vars
    BY <1>1, Zenon DEF vars
  <1>2. ASSUME NEW t \in Threads, ForkMarks(t) \/ ForkJoins(t) PROVE Types'
    BY <1>2, Zenon DEF ForkMarks, ForkJoins
  <1>3. ASSUME NEW t \in Threads, ForkShares(t) PROVE Types'
    <2>1. Insert(t, space[t[1]], space[t[1]], TRUE) /\ space[t[1]] \in Spaces /\ next_pid <= MaxPid
      BY <1>3, Zenon DEF ForkShares
    <2>2. /\ (processes \subseteq Pids)' /\ (ppid \in [Pids -> PidsOrNone])'
          /\ (space \in [Pids -> Spaces] /\ borrowed_space \in [Pids -> Spaces])'
          /\ (call \in [Threads -> Calls] /\ child \in [Threads -> PidsOrNone])'
      BY <2>1, InsertTypes, Zenon
    <2> QED BY <1>3, <2>2 DEF ForkShares
  <1>4. ASSUME NEW t \in Threads, NEW own \in BOOLEAN, ForkCopies(t, own) PROVE Types'
    <2>1. made + 1 \in Spaces /\ (arenas32 \subseteq Arenas)'
      BY <1>4, Zenon DEF ForkCopies, NewArena
    <2>2. (frozen \subseteq Threads)'
      BY <1>4, Zenon DEF ForkCopies, FreezeOtherThreads, ThreadsOf
    <2> QED BY <1>4, <2>1, <2>2, InsertTypes DEF ForkCopies, NewArena
  <1>5. ASSUME NEW t \in Threads, ForkFails(t) PROVE Types'
    BY <1>5 DEF ForkFails
  <1>6. ASSUME NEW t \in Threads, ForkCopyFails(t) PROVE Types'
    BY <1>6 DEF ForkCopyFails, NewArena, FreezeOtherThreads, ThreadsOf
  <1>7. ASSUME NEW t \in Threads, ForkCreates(t) PROVE Types'
    BY <1>7, Zenon DEF ForkCreates
  <1>8. ASSUME NEW t \in Threads, ForkCreateFails(t) PROVE Types'
    <2>1. child[t] \in Pids /\ Destroy(child[t]) /\ Return(t)
      BY <1>8, Zenon DEF ForkCreateFails, Called, CallOf, At
    <2> QED BY <1>8, <2>1, DestroyTypes, ReturnTypes, Zenon DEF ForkCreateFails
  <1>9. ASSUME NEW t \in Threads, ForkNotes(t) PROVE Types'
    BY <1>9, Zenon DEF ForkNotes
  <1>10. ASSUME NEW t \in Threads, ForkReturns(t) \/ ForkGivesUp(t) PROVE Types'
    <2>1. ASSUME ForkReturns(t) PROVE Types'
      BY <2>1, ReturnTypes, Zenon DEF ForkReturns
    <2>2. ASSUME ForkGivesUp(t) PROVE Types'
      BY <2>2, ReturnTypes, Zenon DEF ForkGivesUp, Thaw
    <2> QED BY <1>10, <2>1, <2>2, Zenon
  <1>11. ASSUME NEW t \in Threads, Wait(t) \/ WaitHasNone(t) \/ WaitFindsNone(t) PROVE Types'
    BY <1>11, Zenon DEF Wait, WaitHasNone, WaitFindsNone
  <1>12. ASSUME NEW t \in Threads, NEW p \in Pids, WaitFinds(t, p) PROVE Types'
    BY <1>12, Zenon DEF WaitFinds
  <1>13. ASSUME NEW t \in Threads, WaitJoins(t) PROVE Types'
    BY <1>13, Zenon DEF WaitJoins
  <1>14. ASSUME NEW t \in Threads, WaitFrees(t) PROVE Types'
    <2>1. child[t] \in Pids /\ Destroy(child[t]) /\ Return(t)
      BY <1>14, Zenon DEF WaitFrees, Called, CallOf, At
    <2> QED BY <1>14, <2>1, DestroyTypes, ReturnTypes, Zenon DEF WaitFrees
  <1>15. ASSUME NEW p \in Pids, CreateThread(p) \/ ExecBegins(p) PROVE Types'
    BY <1>15, ThreadNames, Zenon DEF CreateThread, ExecBegins
  <1>16. ASSUME NEW p \in Pids, ExecInSession(p) PROVE Types'
    BY <1>16, Zenon DEF ExecInSession, Replace, NoOthers
  <1>17. ASSUME NEW p \in Pids, ExecInArena(p) PROVE Types'
    BY <1>17 DEF ExecInArena, NewArena, Replace, NoOthers
  <1>18. ASSUME NEW p \in Pids, ExecFails(p) PROVE Types'
    BY <1>18 DEF ExecFails, NewArena, NoOthers
  <1>19. ASSUME NEW p \in Pids, ExecRuns(p) PROVE Types'
    BY <1>19, Zenon DEF ExecRuns, ReleaseParent, Thaw
  <1>20. ASSUME NEW p \in Pids, ExecRunFails(p) \/ ExecDrops(p) \/ Exits(p) PROVE Types'
    BY <1>20, Zenon DEF ExecRunFails, ExecDrops, Exits
  <1>21. ASSUME NEW p \in Pids, EndReleases(p) PROVE Types'
    BY <1>21, Zenon DEF EndReleases, ReleaseParent, Thaw, NoOthers
  <1>22. ASSUME NEW p \in Pids, EndFinishes(p) PROVE Types'
    BY <1>22, Zenon DEF EndFinishes
  <1>23. ASSUME NEW p \in Pids, EndFrees(p) PROVE Types'
    BY <1>23, Zenon DEF EndFrees, OnlyUsedBy
  <1> HIDE DEF Types, Hosts, Calls, Goto, table, flags, spaces
  <1> QED
    BY <1>1, <1>2, <1>3, <1>4, <1>5, <1>6, <1>7, <1>8, <1>9, <1>10, <1>11, <1>12, <1>13, <1>14, <1>15, <1>16, <1>17, <1>18, <1>19, <1>20, <1>21, <1>22, <1>23, Zenon
    DEF Next, ForkStep, WaitStep, ProcessStep

\* A record and its host thread agree: only a process that has finished is
\* lifted out of the table, and a pid is never given out twice.
LEMMA RecordsStep == Types /\ Called /\ Records /\ [Next]_vars => Records'
  <1> SUFFICES ASSUME Types, Called, Records, [Next]_vars PROVE Records'
    BY Zenon
  <1> USE ThreadFacts, PidFacts DEF Types, Records, Goto, table, flags, spaces
  <1>1. CASE UNCHANGED vars
    BY <1>1, Zenon DEF vars
  <1>2. ASSUME NEW t \in Threads, ForkMarks(t) \/ ForkJoins(t) PROVE Records'
    BY <1>2 DEF ForkMarks, ForkJoins
  <1>3. ASSUME NEW t \in Threads, ForkShares(t) PROVE Records'
    BY <1>3 DEF ForkShares, Insert
  <1>4. ASSUME NEW t \in Threads, NEW own \in BOOLEAN, ForkCopies(t, own) PROVE Records'
    BY <1>4 DEF ForkCopies, Insert, NewArena
  <1>5. ASSUME NEW t \in Threads, ForkFails(t) PROVE Records'
    BY <1>5 DEF ForkFails
  <1>6. ASSUME NEW t \in Threads, ForkCopyFails(t) PROVE Records'
    BY <1>6 DEF ForkCopyFails, NewArena
  <1>7. ASSUME NEW t \in Threads, ForkCreates(t) PROVE Records'
    BY <1>7 DEF ForkCreates, Called, CallOf, At
  <1>8. ASSUME NEW t \in Threads, ForkCreateFails(t) PROVE Records'
    BY <1>8 DEF ForkCreateFails, Destroy, Return, Called, CallOf, At
  <1>9. ASSUME NEW t \in Threads, ForkNotes(t) PROVE Records'
    BY <1>9, Zenon DEF ForkNotes
  <1>10. ASSUME NEW t \in Threads, ForkReturns(t) \/ ForkGivesUp(t) PROVE Records'
    BY <1>10, Zenon DEF ForkReturns, ForkGivesUp, Return, Thaw
  <1>11. ASSUME NEW t \in Threads, Wait(t) \/ WaitHasNone(t) \/ WaitFindsNone(t) PROVE Records'
    BY <1>11 DEF Wait, WaitHasNone, WaitFindsNone
  <1>12. ASSUME NEW t \in Threads, NEW p \in Pids, WaitFinds(t, p) PROVE Records'
    BY <1>12, Zenon DEF WaitFinds
  <1>13. ASSUME NEW t \in Threads, WaitJoins(t) PROVE Records'
    BY <1>13, Zenon DEF WaitJoins
  <1>14. ASSUME NEW t \in Threads, WaitFrees(t) PROVE Records'
    BY <1>14 DEF WaitFrees, Destroy, Return, Called, CallOf, At
  <1>15. ASSUME NEW p \in Pids, CreateThread(p) \/ ExecBegins(p) PROVE Records'
    BY <1>15 DEF CreateThread, ExecBegins
  <1>16. ASSUME NEW p \in Pids, ExecInSession(p) PROVE Records'
    BY <1>16, Zenon DEF ExecInSession, Replace, NoOthers, At
  <1>17. ASSUME NEW p \in Pids, ExecInArena(p) PROVE Records'
    BY <1>17, Zenon DEF ExecInArena, NewArena, Replace, NoOthers, At
  <1>18. ASSUME NEW p \in Pids, ExecFails(p) PROVE Records'
    BY <1>18, Zenon DEF ExecFails, NewArena, NoOthers
  <1>19. ASSUME NEW p \in Pids, ExecRuns(p) PROVE Records'
    BY <1>19, Zenon DEF ExecRuns, ReleaseParent, Thaw
  <1>20. ASSUME NEW p \in Pids, ExecRunFails(p) \/ ExecDrops(p) \/ Exits(p) PROVE Records'
    BY <1>20 DEF ExecRunFails, ExecDrops, Exits, At
  <1>21. ASSUME NEW p \in Pids, EndReleases(p) PROVE Records'
    BY <1>21, Zenon DEF EndReleases, ReleaseParent, Thaw, NoOthers
  <1>22. ASSUME NEW p \in Pids, EndFinishes(p) PROVE Records'
    BY <1>22, Zenon DEF EndFinishes
  <1>23. ASSUME NEW p \in Pids, EndFrees(p) PROVE Records'
    BY <1>23, Zenon DEF EndFrees, OnlyUsedBy
  <1> HIDE DEF Types, Records, Goto, table, flags, spaces
  <1> QED
    BY <1>1, <1>2, <1>3, <1>4, <1>5, <1>6, <1>7, <1>8, <1>9, <1>10, <1>11, <1>12, <1>13, <1>14, <1>15, <1>16, <1>17, <1>18, <1>19, <1>20, <1>21, <1>22, <1>23, Zenon
    DEF Next, ForkStep, WaitStep, ProcessStep

\* A fork's record is new: no call under way is about it.
LEMMA InsertCalled ==
  ASSUME Types, Records, Called, NEW t \in Threads, At(t, "fork.setup"), NEW in, NEW borrows, NEW own,
         Insert(t, in, borrows, own), next_pid <= MaxPid, next_pid' = next_pid + 1, UNCHANGED <<freed, host>>
  PROVE  Called'
  <1>1. next_pid \in Pids /\ next_pid \in Nat
    BY PidFacts DEF Types
  <1>2. next_pid \notin processes \cup freed /\ host[next_pid] = "none"
    BY <1>1 DEF Records
  <1>a. \A n \in Pids : n < next_pid => n # next_pid /\ n < next_pid'
    BY <1>1, PidFacts
  <1>3. /\ child'[t] = next_pid /\ call'[t] = "fork.create" /\ ppid'[next_pid] = t[1] /\ next_pid \in processes'
        /\ next_pid < next_pid' /\ t[1] \in Pids
    BY <1>1, ThreadFacts DEF Insert, Goto, Types
  <1>4. \A u \in Threads \ {t} : child'[u] = child[u] /\ call'[u] = call[u]
    BY Zenon DEF Insert, Goto, Types
  <1>5. processes \subseteq processes' /\ \A p \in Pids \ {next_pid} : (p \in processes' <=> p \in processes) /\ ppid'[p] = ppid[p]
    BY <1>1, Zenon DEF Insert, Types
  <1>6. call[t] = "fork.setup" /\ (host[t[1]] = "run" \/ (host[t[1]] = "stopping" /\ t[2] = 2))
    BY ThreadFacts, Zenon DEF At
  <1> SUFFICES ASSUME NEW u \in Threads PROVE CallOf(u)'
    BY Zenon DEF Called
  <1>7. CASE u = t
    BY <1>7, <1>1, <1>2, <1>a, <1>3, <1>4, <1>5, <1>6 DEF Called, CallOf
  <1>8. CASE u # t
    <2>1. CallOf(u) /\ child'[u] = child[u] /\ call'[u] = call[u]
      BY <1>8, <1>4, Zenon DEF Called
    <2>2. call[u] = "fork.create" => \A v \in Threads \ {u} : call'[v] = "fork.create" => child'[v] # child[u]
      BY <2>1, <1>1, <1>a, <1>3, <1>4, Zenon DEF CallOf
    <2> QED BY <2>1, <2>2, <1>1, <1>a, <1>5, Zenon DEF CallOf
  <1> QED BY <1>7, <1>8, Zenon

\* A failed fork only spends a pid.
LEMMA PidSpent ==
  ASSUME Called, \A n \in Pids : n < next_pid => n < next_pid',
         \A u \in Threads : call'[u] = call[u] \/ call'[u] = "run",
         UNCHANGED <<child, processes, freed, ppid, host>>
  PROVE  Called'
  BY DEF Called, CallOf

\* The calls under way keep naming the process they are about.
LEMMA CalledStep == Types /\ Records /\ Called /\ [Next]_vars => Called'
  <1> SUFFICES ASSUME Types, Records, Called, [Next]_vars PROVE Called'
    BY Zenon
  <1> USE ThreadFacts, PidFacts DEF Types, Called, CallOf, Goto, table, flags, spaces
  <1>1. CASE UNCHANGED vars
    BY <1>1 DEF vars, At
  <1>2. ASSUME NEW t \in Threads, ForkMarks(t) \/ ForkJoins(t) PROVE Called'
    BY <1>2 DEF ForkMarks, ForkJoins, At
  <1>3. ASSUME NEW t \in Threads, ForkShares(t) PROVE Called'
    BY <1>3, InsertCalled, Zenon DEF ForkShares
  <1>4. ASSUME NEW t \in Threads, NEW own \in BOOLEAN, ForkCopies(t, own) PROVE Called'
    BY <1>4, InsertCalled, Zenon DEF ForkCopies
  <1>5. ASSUME NEW t \in Threads, ForkFails(t) PROVE Called'
    <2>1. next_pid' >= next_pid /\ next_pid' \in Nat
      BY <1>5 DEF ForkFails
    <2>2. \A n \in Pids : n < next_pid => n < next_pid'
      BY <2>1
    <2>3. /\ \A u \in Threads : call'[u] = call[u] \/ call'[u] = "run"
          /\ UNCHANGED <<child, processes, freed, ppid, host>>
      BY <1>5, Zenon DEF ForkFails
    <2> QED BY <2>2, <2>3, PidSpent, Zenon
  <1>6. ASSUME NEW t \in Threads, ForkCopyFails(t) PROVE Called'
    <2>1. next_pid' >= next_pid /\ next_pid' \in Nat
      BY <1>6 DEF ForkCopyFails
    <2>2. \A n \in Pids : n < next_pid => n < next_pid'
      BY <2>1
    <2>3. /\ \A u \in Threads : call'[u] = call[u] \/ call'[u] = "run"
          /\ UNCHANGED <<child, processes, freed, ppid, host>>
      BY <1>6, Zenon DEF ForkCopyFails
    <2> QED BY <2>2, <2>3, PidSpent, Zenon
  <1>7. ASSUME NEW t \in Threads, ForkCreates(t) PROVE Called'
    BY <1>7 DEF ForkCreates, At
  <1>8. ASSUME NEW t \in Threads, ForkCreateFails(t) PROVE Called'
    BY <1>8 DEF ForkCreateFails, Destroy, Return, At
  <1>9. ASSUME NEW t \in Threads, ForkNotes(t) PROVE Called'
    BY <1>9 DEF ForkNotes, At
  <1>10. ASSUME NEW t \in Threads, ForkReturns(t) \/ ForkGivesUp(t) PROVE Called'
    BY <1>10 DEF ForkReturns, ForkGivesUp, Return, Thaw, At
  <1>11. ASSUME NEW t \in Threads, Wait(t) \/ WaitHasNone(t) \/ WaitFindsNone(t) PROVE Called'
    BY <1>11 DEF Wait, WaitHasNone, WaitFindsNone, At
  <1>12. ASSUME NEW t \in Threads, NEW p \in Pids, WaitFinds(t, p) PROVE Called'
    BY <1>12 DEF WaitFinds, At, Records
  <1>13. ASSUME NEW t \in Threads, WaitJoins(t) PROVE Called'
    BY <1>13 DEF WaitJoins, At
  <1>14. ASSUME NEW t \in Threads, WaitFrees(t) PROVE Called'
    BY <1>14 DEF WaitFrees, Destroy, Return, At
  <1>15. ASSUME NEW p \in Pids, CreateThread(p) \/ ExecBegins(p) PROVE Called'
    BY <1>15, ThreadNames DEF CreateThread, ExecBegins, At
  <1>16. ASSUME NEW p \in Pids, ExecInSession(p) PROVE Called'
    BY <1>16, ThreadNames DEF ExecInSession, Replace, NoOthers, At, OthersStopped, ThreadsOf
  <1>17. ASSUME NEW p \in Pids, ExecInArena(p) PROVE Called'
    BY <1>17, ThreadNames DEF ExecInArena, NewArena, Replace, NoOthers, At, OthersStopped, ThreadsOf
  <1>18. ASSUME NEW p \in Pids, ExecFails(p) PROVE Called'
    BY <1>18, ThreadNames DEF ExecFails, NewArena, NoOthers, At, OthersStopped, ThreadsOf
  <1>19. ASSUME NEW p \in Pids, ExecRuns(p) PROVE Called'
    BY <1>19 DEF ExecRuns, ReleaseParent, Thaw, At
  <1>20. ASSUME NEW p \in Pids, ExecRunFails(p) \/ ExecDrops(p) \/ Exits(p) PROVE Called'
    BY <1>20, ThreadNames DEF ExecRunFails, ExecDrops, Exits, At
  <1>21. ASSUME NEW p \in Pids, EndReleases(p) PROVE Called'
    BY <1>21, ThreadNames DEF EndReleases, ReleaseParent, Thaw, NoOthers, At, OthersStopped, ThreadsOf
  <1>22. ASSUME NEW p \in Pids, EndFinishes(p) PROVE Called'
    BY <1>22 DEF EndFinishes, At
  <1>23. ASSUME NEW p \in Pids, EndFrees(p) PROVE Called'
    BY <1>23 DEF EndFrees, OnlyUsedBy, At
  <1> HIDE DEF Types, Called, Goto, table, flags, spaces
  <1> QED
    BY <1>1, <1>2, <1>3, <1>4, <1>5, <1>6, <1>7, <1>8, <1>9, <1>10, <1>11, <1>12, <1>13, <1>14, <1>15, <1>16, <1>17, <1>18, <1>19, <1>20, <1>21, <1>22, <1>23, Zenon
    DEF Next, ForkStep, WaitStep, ProcessStep

\* ReleaseOwnArenas frees what no unfinished process names, and every space a
\* process runs in or has to clear is one it names.
LEMMA SpaceStep == Types /\ Records /\ Called /\ NoSpaceFreedInUse /\ [Next]_vars => NoSpaceFreedInUse'
  <1> SUFFICES ASSUME Types, Records, Called, NoSpaceFreedInUse, [Next]_vars PROVE NoSpaceFreedInUse'
    BY Zenon
  <1> USE ThreadFacts DEF Types, NoSpaceFreedInUse, InUse, table, flags, spaces
  <1>1. CASE UNCHANGED vars
    BY <1>1, Zenon DEF vars
  <1>2. ASSUME NEW t \in Threads, ForkMarks(t) \/ ForkJoins(t) PROVE NoSpaceFreedInUse'
    BY <1>2, Zenon DEF ForkMarks, ForkJoins
  <1>3. ASSUME NEW t \in Threads, ForkShares(t) PROVE NoSpaceFreedInUse'
    <2>1. next_pid \in Pids /\ next_pid \notin processes /\ host[next_pid] = "none"
      BY <1>3, PidFacts DEF ForkShares, Records
    <2>2. t[1] \in processes \ finished
      BY <1>3, Zenon DEF ForkShares, At, Records
    <2>3. space[t[1]] \in arenas32 \cup {Session}
      BY <2>2, Zenon
    <2> QED BY <1>3, <2>1, <2>3 DEF ForkShares, Insert
  <1>4. ASSUME NEW t \in Threads, NEW own \in BOOLEAN, ForkCopies(t, own) PROVE NoSpaceFreedInUse'
    <2>1. next_pid \in Pids /\ next_pid \notin processes /\ host[next_pid] = "none"
      BY <1>4, PidFacts DEF ForkCopies, Records
    <2> QED BY <1>4, <2>1 DEF ForkCopies, Insert, NewArena
  <1>5. ASSUME NEW t \in Threads, ForkFails(t) PROVE NoSpaceFreedInUse'
    BY <1>5, Zenon DEF ForkFails
  <1>6. ASSUME NEW t \in Threads, ForkCopyFails(t) PROVE NoSpaceFreedInUse'
    BY <1>6 DEF ForkCopyFails, NewArena
  <1>7. ASSUME NEW t \in Threads, ForkCreates(t) PROVE NoSpaceFreedInUse'
    BY <1>7 DEF ForkCreates, At, Called, CallOf
  <1>8. ASSUME NEW t \in Threads, ForkCreateFails(t) PROVE NoSpaceFreedInUse'
    BY <1>8 DEF ForkCreateFails, Destroy, Return, At, Called, CallOf
  <1>9. ASSUME NEW t \in Threads, ForkNotes(t) PROVE NoSpaceFreedInUse'
    BY <1>9, Zenon DEF ForkNotes
  <1>10. ASSUME NEW t \in Threads, ForkReturns(t) \/ ForkGivesUp(t) PROVE NoSpaceFreedInUse'
    BY <1>10, Zenon DEF ForkReturns, ForkGivesUp, Return, Thaw
  <1>11. ASSUME NEW t \in Threads, Wait(t) \/ WaitHasNone(t) \/ WaitFindsNone(t) PROVE NoSpaceFreedInUse'
    BY <1>11, Zenon DEF Wait, WaitHasNone, WaitFindsNone
  <1>12. ASSUME NEW t \in Threads, NEW p \in Pids, WaitFinds(t, p) PROVE NoSpaceFreedInUse'
    BY <1>12, Zenon DEF WaitFinds
  <1>13. ASSUME NEW t \in Threads, WaitJoins(t) PROVE NoSpaceFreedInUse'
    BY <1>13, Zenon DEF WaitJoins
  <1>14. ASSUME NEW t \in Threads, WaitFrees(t) PROVE NoSpaceFreedInUse'
    BY <1>14 DEF WaitFrees, Destroy, Return, At, Called, CallOf
  <1>15. ASSUME NEW p \in Pids, CreateThread(p) \/ ExecBegins(p) PROVE NoSpaceFreedInUse'
    BY <1>15, Zenon DEF CreateThread, ExecBegins
  <1>16. ASSUME NEW p \in Pids, ExecInSession(p) PROVE NoSpaceFreedInUse'
    BY <1>16, Zenon DEF ExecInSession, Replace, NoOthers
  <1>17. ASSUME NEW p \in Pids, ExecInArena(p) PROVE NoSpaceFreedInUse'
    BY <1>17 DEF ExecInArena, NewArena, Replace, NoOthers
  <1>18. ASSUME NEW p \in Pids, ExecFails(p) PROVE NoSpaceFreedInUse'
    BY <1>18, Zenon DEF ExecFails, NewArena, NoOthers
  <1>19. ASSUME NEW p \in Pids, ExecRuns(p) PROVE NoSpaceFreedInUse'
    BY <1>19 DEF ExecRuns, ReleaseParent, Thaw
  <1>20. ASSUME NEW p \in Pids, ExecRunFails(p) \/ ExecDrops(p) \/ Exits(p) PROVE NoSpaceFreedInUse'
    BY <1>20 DEF ExecRunFails, ExecDrops, Exits
  <1>21. ASSUME NEW p \in Pids, EndReleases(p) PROVE NoSpaceFreedInUse'
    BY <1>21, Zenon DEF EndReleases, ReleaseParent, Thaw, NoOthers
  <1>22. ASSUME NEW p \in Pids, EndFinishes(p) PROVE NoSpaceFreedInUse'
    BY <1>22, Zenon DEF EndFinishes
  <1>23. ASSUME NEW p \in Pids, EndFrees(p) PROVE NoSpaceFreedInUse'
    BY <1>23 DEF EndFrees, OnlyUsedBy, Records
  <1> HIDE DEF Types, NoSpaceFreedInUse, InUse, table, flags, spaces
  <1> QED
    BY <1>1, <1>2, <1>3, <1>4, <1>5, <1>6, <1>7, <1>8, <1>9, <1>10, <1>11, <1>12, <1>13, <1>14, <1>15, <1>16, <1>17, <1>18, <1>19, <1>20, <1>21, <1>22, <1>23, Zenon
    DEF Next, ForkStep, WaitStep, ProcessStep

\* A borrower is in the space it borrowed until its execve, and names it in
\* previous_space until the next.
LEMMA BorrowedStep == Types /\ Records /\ Called /\ Borrowed /\ [Next]_vars => Borrowed'
  <1> SUFFICES ASSUME Types, Records, Called, Borrowed, [Next]_vars PROVE Borrowed'
    BY Zenon
  <1> USE ThreadFacts DEF Types, Borrowed, table, flags, spaces
  <1>1. CASE UNCHANGED vars
    BY <1>1, Zenon DEF vars
  <1>2. ASSUME NEW t \in Threads, ForkMarks(t) \/ ForkJoins(t) PROVE Borrowed'
    BY <1>2, Zenon DEF ForkMarks, ForkJoins
  <1>3. ASSUME NEW t \in Threads, ForkShares(t) PROVE Borrowed'
    <2>1. next_pid \in Pids /\ next_pid \notin processes
      BY <1>3, PidFacts DEF ForkShares, Records
    <2> QED BY <1>3, <2>1 DEF ForkShares, Insert
  <1>4. ASSUME NEW t \in Threads, NEW own \in BOOLEAN, ForkCopies(t, own) PROVE Borrowed'
    <2>1. next_pid \in Pids /\ next_pid \notin processes
      BY <1>4, PidFacts DEF ForkCopies, Records
    <2> QED BY <1>4, <2>1 DEF ForkCopies, Insert
  <1>5. ASSUME NEW t \in Threads, ForkFails(t) PROVE Borrowed'
    BY <1>5, Zenon DEF ForkFails
  <1>6. ASSUME NEW t \in Threads, ForkCopyFails(t) PROVE Borrowed'
    BY <1>6, Zenon DEF ForkCopyFails, NewArena
  <1>7. ASSUME NEW t \in Threads, ForkCreates(t) PROVE Borrowed'
    BY <1>7, Zenon DEF ForkCreates
  <1>8. ASSUME NEW t \in Threads, ForkCreateFails(t) PROVE Borrowed'
    BY <1>8 DEF ForkCreateFails, Destroy, Return, At, Called, CallOf
  <1>9. ASSUME NEW t \in Threads, ForkNotes(t) PROVE Borrowed'
    BY <1>9, Zenon DEF ForkNotes
  <1>10. ASSUME NEW t \in Threads, ForkReturns(t) \/ ForkGivesUp(t) PROVE Borrowed'
    BY <1>10, Zenon DEF ForkReturns, ForkGivesUp, Return, Thaw
  <1>11. ASSUME NEW t \in Threads, Wait(t) \/ WaitHasNone(t) \/ WaitFindsNone(t) PROVE Borrowed'
    BY <1>11, Zenon DEF Wait, WaitHasNone, WaitFindsNone
  <1>12. ASSUME NEW t \in Threads, NEW p \in Pids, WaitFinds(t, p) PROVE Borrowed'
    BY <1>12, Zenon DEF WaitFinds
  <1>13. ASSUME NEW t \in Threads, WaitJoins(t) PROVE Borrowed'
    BY <1>13, Zenon DEF WaitJoins
  <1>14. ASSUME NEW t \in Threads, WaitFrees(t) PROVE Borrowed'
    BY <1>14 DEF WaitFrees, Destroy, Return, At, Called, CallOf
  <1>15. ASSUME NEW p \in Pids, CreateThread(p) \/ ExecBegins(p) PROVE Borrowed'
    BY <1>15, Zenon DEF CreateThread, ExecBegins
  <1>16. ASSUME NEW p \in Pids, ExecInSession(p) PROVE Borrowed'
    BY <1>16, Zenon DEF ExecInSession, Replace, NoOthers
  <1>17. ASSUME NEW p \in Pids, ExecInArena(p) PROVE Borrowed'
    BY <1>17, Zenon DEF ExecInArena, NewArena, Replace, NoOthers
  <1>18. ASSUME NEW p \in Pids, ExecFails(p) PROVE Borrowed'
    BY <1>18, Zenon DEF ExecFails, NewArena, NoOthers
  <1>19. ASSUME NEW p \in Pids, ExecRuns(p) PROVE Borrowed'
    BY <1>19, Zenon DEF ExecRuns, ReleaseParent, Thaw
  <1>20. ASSUME NEW p \in Pids, ExecRunFails(p) \/ ExecDrops(p) \/ Exits(p) PROVE Borrowed'
    BY <1>20, Zenon DEF ExecRunFails, ExecDrops, Exits
  <1>21. ASSUME NEW p \in Pids, EndReleases(p) PROVE Borrowed'
    BY <1>21, Zenon DEF EndReleases, ReleaseParent, Thaw, NoOthers
  <1>22. ASSUME NEW p \in Pids, EndFinishes(p) PROVE Borrowed'
    BY <1>22, Zenon DEF EndFinishes
  <1>23. ASSUME NEW p \in Pids, EndFrees(p) PROVE Borrowed'
    BY <1>23, Zenon DEF EndFrees, OnlyUsedBy, Records
  <1> HIDE DEF Types, Borrowed, table, flags, spaces
  <1> QED
    BY <1>1, <1>2, <1>3, <1>4, <1>5, <1>6, <1>7, <1>8, <1>9, <1>10, <1>11, <1>12, <1>13, <1>14, <1>15, <1>16, <1>17, <1>18, <1>19, <1>20, <1>21, <1>22, <1>23, Zenon
    DEF Next, ForkStep, WaitStep, ProcessStep

\* LeaksAreKnown, with a process that will free it for each arena not lost.
Kept(a) == \E p \in Pids : host[p] # "gone" /\ a \in {space[p], previous_space[p]}
LEMMA LeaksInWords == (Orphaned \subseteq lost) <=> \A a \in arenas32 \ lost : Kept(a)
  BY Zenon DEF Orphaned, Kept

LEMMA LeakStep == Types /\ Records /\ Called /\ Borrowed /\ LeaksAreKnown /\ [Next]_vars => LeaksAreKnown'
  <1> SUFFICES ASSUME Types, Records, Called, Borrowed, Orphaned \subseteq lost, Next, ~UsedAfterFree'
               PROVE  (\A a \in arenas32 \ lost : Kept(a))'
    <2>1. ASSUME UNCHANGED vars PROVE LeaksAreKnown <=> LeaksAreKnown'
      <3>1. /\ arenas32' = arenas32 /\ space' = space /\ previous_space' = previous_space /\ lost' = lost
            /\ host' = host /\ freed' = freed /\ call' = call /\ child' = child
        BY <2>1 DEF vars, table, spaces
      <3>2. Orphaned' = Orphaned
        BY <3>1, Zenon DEF Orphaned
      <3>3. UsedAfterFree' <=> UsedAfterFree
        BY <3>1, Zenon DEF UsedAfterFree, HoldsChildRaw
      <3> QED BY <3>1, <3>2, <3>3, Zenon DEF LeaksAreKnown
    <2>2. Next => ~UsedAfterFree
      BY Zenon DEF Next
    <2>3. (Orphaned \subseteq lost)' <=> (\A a \in arenas32 \ lost : Kept(a))'
      BY LeaksInWords, PTL
    <2> QED BY <2>1, <2>2, <2>3, Zenon DEF LeaksAreKnown
  <1> SUFFICES ASSUME NEW a \in arenas32', a \notin lost' PROVE Kept(a)'
    BY Zenon
  <1>a. a \in arenas32 /\ a \notin lost => Kept(a)
    BY LeaksInWords, Zenon
  <1> USE ThreadFacts, SpaceFacts DEF Types, Kept, table, flags, spaces
    <1>2. ASSUME NEW t \in Threads, ForkMarks(t) \/ ForkJoins(t) PROVE Kept(a)'
    BY <1>a, <1>2, Zenon DEF ForkMarks, ForkJoins
  <1>3. ASSUME NEW t \in Threads, ForkShares(t) PROVE Kept(a)'
    <2>1. next_pid \in Pids /\ next_pid \notin processes /\ host[next_pid] = "none" /\ space[next_pid] = NoSpace
          /\ previous_space[next_pid] = NoSpace
      BY <1>a, <1>3, PidFacts DEF ForkShares, Records
    <2> QED BY <1>3, <2>1, <1>a, Zenon DEF ForkShares, Insert
  <1>4. ASSUME NEW t \in Threads, NEW own \in BOOLEAN, ForkCopies(t, own) PROVE Kept(a)'
    <2>1. next_pid \in Pids /\ next_pid \notin processes /\ host[next_pid] = "none" /\ space[next_pid] = NoSpace
          /\ previous_space[next_pid] = NoSpace
      BY <1>a, <1>4, PidFacts DEF ForkCopies, Records
    <2> QED BY <1>4, <2>1, <1>a, Zenon DEF ForkCopies, Insert, NewArena
  <1>5. ASSUME NEW t \in Threads, ForkFails(t) PROVE Kept(a)'
    BY <1>a, <1>5, Zenon DEF ForkFails
  <1>6. ASSUME NEW t \in Threads, ForkCopyFails(t) PROVE Kept(a)'
    BY <1>a, <1>6, Zenon DEF ForkCopyFails, NewArena
  <1>7. ASSUME NEW t \in Threads, ForkCreates(t) PROVE Kept(a)'
    BY <1>a, <1>7, <1>a DEF ForkCreates, At, Called, CallOf
  <1>8. ASSUME NEW t \in Threads, ForkCreateFails(t) PROVE Kept(a)'
    BY <1>a, <1>8, <1>a DEF ForkCreateFails, Destroy, Return, At, Called, CallOf, Records
  <1>9. ASSUME NEW t \in Threads, ForkNotes(t) PROVE Kept(a)'
    BY <1>a, <1>9, Zenon DEF ForkNotes
  <1>10. ASSUME NEW t \in Threads, ForkReturns(t) \/ ForkGivesUp(t) PROVE Kept(a)'
    BY <1>a, <1>10, Zenon DEF ForkReturns, ForkGivesUp, Return, Thaw
  <1>11. ASSUME NEW t \in Threads, Wait(t) \/ WaitHasNone(t) \/ WaitFindsNone(t) PROVE Kept(a)'
    BY <1>a, <1>11, Zenon DEF Wait, WaitHasNone, WaitFindsNone
  <1>12. ASSUME NEW t \in Threads, NEW p \in Pids, WaitFinds(t, p) PROVE Kept(a)'
    BY <1>a, <1>12, Zenon DEF WaitFinds
  <1>13. ASSUME NEW t \in Threads, WaitJoins(t) PROVE Kept(a)'
    BY <1>a, <1>13, Zenon DEF WaitJoins
  <1>14. ASSUME NEW t \in Threads, WaitFrees(t) PROVE Kept(a)'
    BY <1>a, <1>14, <1>a DEF WaitFrees, Destroy, Return, At, Called, CallOf, UsedAfterFree
  <1>15. ASSUME NEW p \in Pids, CreateThread(p) \/ ExecBegins(p) PROVE Kept(a)'
    BY <1>a, <1>15, Zenon DEF CreateThread, ExecBegins
  <1>16. ASSUME NEW p \in Pids, ExecInSession(p) PROVE Kept(a)'
    BY <1>a, <1>16, Zenon DEF ExecInSession, Replace, NoOthers
  <1>17. ASSUME NEW p \in Pids, ExecInArena(p) PROVE Kept(a)'
    BY <1>a, <1>17, Zenon DEF ExecInArena, NewArena, Replace, NoOthers
  <1>18. ASSUME NEW p \in Pids, ExecFails(p) PROVE Kept(a)'
    BY <1>a, <1>18, Zenon DEF ExecFails, NewArena, NoOthers
  <1>19. ASSUME NEW p \in Pids, ExecRuns(p) PROVE Kept(a)'
    BY <1>a, <1>19, Zenon DEF ExecRuns, ReleaseParent, Thaw
  <1>20. ASSUME NEW p \in Pids, ExecRunFails(p) \/ ExecDrops(p) \/ Exits(p) PROVE Kept(a)'
    BY <1>a, <1>20, Zenon DEF ExecRunFails, ExecDrops, Exits
  <1>21. ASSUME NEW p \in Pids, EndReleases(p) PROVE Kept(a)'
    BY <1>a, <1>21, Zenon DEF EndReleases, ReleaseParent, Thaw, NoOthers
  <1>22. ASSUME NEW p \in Pids, EndFinishes(p) PROVE Kept(a)'
    BY <1>a, <1>22, Zenon DEF EndFinishes
  <1>23. ASSUME NEW p \in Pids, EndFrees(p) PROVE Kept(a)'
    BY <1>a, <1>23, <1>a DEF EndFrees, OnlyUsedBy, Records, Borrowed
  <1> HIDE DEF Types, Kept, table, flags, spaces
  <1> QED
    BY <1>2, <1>3, <1>4, <1>5, <1>6, <1>7, <1>8, <1>9, <1>10, <1>11, <1>12, <1>13, <1>14, <1>15, <1>16, <1>17, <1>18, <1>19, <1>20, <1>21, <1>22, <1>23, Zenon
    DEF Next, ForkStep, WaitStep, ProcessStep

-----------------------------------------------------------------------------
\* The fork a suspended thread waits for.
Cause(t) ==
    \E u \in Threads :
        /\ u[1] = t[1] /\ u # t
        /\ call[u] \in {"fork.create", "fork.created", "fork.wait"}
        /\ child[u] \notin released /\ borrowed_space[child[u]] = NoSpace

LEMMA FrozenInWords == FrozenForAChild <=> \A t \in frozen : Cause(t)
  BY Zenon DEF FrozenForAChild, Cause, ThreadsOf

\* Whoever ends a fork's wait, or the wait itself, resumes the threads first.
LEMMA FrozenStep ==
  ~Failures /\ Types /\ Records /\ Called /\ FrozenForAChild /\ [Next]_vars => FrozenForAChild'
  <1> SUFFICES ASSUME ~Failures, Types, Records, Called, FrozenForAChild, [Next]_vars, NEW x \in frozen' PROVE Cause(x)'
    <2>1. FrozenForAChild' <=> (\A t \in frozen : Cause(t))'
      BY FrozenInWords, PTL
    <2> QED BY <2>1, Zenon
  <1>a. x \in frozen => x \in Threads /\ Cause(x)
    BY FrozenInWords, Zenon DEF Types
  <1> USE ThreadFacts DEF Types, Cause, Goto, table, flags, spaces
  <1>1. CASE UNCHANGED vars
    BY <1>a, <1>1, Zenon DEF vars, At
  <1>2. ASSUME NEW t \in Threads, ForkMarks(t) \/ ForkJoins(t) PROVE Cause(x)'
    BY <1>a, <1>2, Zenon DEF ForkMarks, ForkJoins, At
  <1>3. ASSUME NEW t \in Threads, ForkShares(t) PROVE Cause(x)'
    <2>1. next_pid \in Pids /\ \A n \in Pids : n < next_pid => n # next_pid
      BY <1>a, <1>3, PidFacts DEF ForkShares
    <2> QED BY <1>3, <2>1, <1>a DEF ForkShares, Insert, At, Called, CallOf
  <1>4. ASSUME NEW t \in Threads, NEW own \in BOOLEAN, ForkCopies(t, own) PROVE Cause(x)'
    <2>1. next_pid \in Pids /\ next_pid \notin released /\ \A n \in Pids : n < next_pid => n # next_pid
      BY <1>a, <1>4, PidFacts DEF ForkCopies, Records
    <2>2. CASE x \in frozen
      BY <1>a, <1>4, <2>1, <2>2, <1>a DEF ForkCopies, Insert, At, Called, CallOf
    <2>3. CASE x \notin frozen
      BY <1>a, <1>4, <2>1, <2>3, Zenon DEF ForkCopies, Insert, FreezeOtherThreads, ThreadsOf
    <2> QED BY <2>2, <2>3, Zenon
  <1>5. ASSUME NEW t \in Threads, ForkFails(t) PROVE Cause(x)'
    BY <1>a, <1>5, Zenon DEF ForkFails, At
  <1>6. ASSUME NEW t \in Threads, ForkCopyFails(t) PROVE Cause(x)'
    BY <1>a, <1>6, Zenon DEF ForkCopyFails
  <1>7. ASSUME NEW t \in Threads, ForkCreates(t) PROVE Cause(x)'
    BY <1>a, <1>7, Zenon DEF ForkCreates, At
  <1>8. ASSUME NEW t \in Threads, ForkCreateFails(t) PROVE Cause(x)'
    BY <1>a, <1>8, Zenon DEF ForkCreateFails
  <1>9. ASSUME NEW t \in Threads, ForkNotes(t) PROVE Cause(x)'
    BY <1>a, <1>9, Zenon DEF ForkNotes, At
  <1>10. ASSUME NEW t \in Threads, ForkReturns(t) \/ ForkGivesUp(t) PROVE Cause(x)'
    <2>1. x \in frozen
      BY <1>a, <1>10, Zenon DEF ForkReturns, ForkGivesUp, Thaw
    <2>2. PICK u \in Threads : /\ u[1] = x[1] /\ u # x
                               /\ call[u] \in {"fork.create", "fork.created", "fork.wait"}
                               /\ child[u] \notin released /\ borrowed_space[child[u]] = NoSpace
      BY <2>1, <1>a, Zenon
    <2>3. u # t
      BY <1>a, <1>10, <2>1, <2>2, Zenon DEF ForkReturns, ForkGivesUp, Thaw, ThreadsOf
    <2> QED BY <1>10, <2>2, <2>3, Zenon DEF ForkReturns, ForkGivesUp, Return
  <1>11. ASSUME NEW t \in Threads, Wait(t) \/ WaitHasNone(t) \/ WaitFindsNone(t) PROVE Cause(x)'
    BY <1>a, <1>11, Zenon DEF Wait, WaitHasNone, WaitFindsNone, At
  <1>12. ASSUME NEW t \in Threads, NEW p \in Pids, WaitFinds(t, p) PROVE Cause(x)'
    BY <1>a, <1>12, Zenon DEF WaitFinds, At
  <1>13. ASSUME NEW t \in Threads, WaitJoins(t) PROVE Cause(x)'
    BY <1>a, <1>13, Zenon DEF WaitJoins, At
  <1>14. ASSUME NEW t \in Threads, WaitFrees(t) PROVE Cause(x)'
    BY <1>a, <1>14, <1>a DEF WaitFrees, Destroy, Return, At, Called, CallOf
  <1>15. ASSUME NEW p \in Pids, CreateThread(p) \/ ExecBegins(p) PROVE Cause(x)'
    BY <1>a, <1>15, Zenon DEF CreateThread, ExecBegins, At
  <1>16. ASSUME NEW p \in Pids, ExecInSession(p) PROVE Cause(x)'
    BY <1>a, <1>16, <1>a, ThreadNames, Zenon DEF ExecInSession, Replace, NoOthers, At, OthersStopped, ThreadsOf
  <1>17. ASSUME NEW p \in Pids, ExecInArena(p) PROVE Cause(x)'
    BY <1>a, <1>17, <1>a, ThreadNames, Zenon DEF ExecInArena, NewArena, Replace, NoOthers, At, OthersStopped, ThreadsOf
  <1>18. ASSUME NEW p \in Pids, ExecFails(p) PROVE Cause(x)'
    BY <1>a, <1>18, Zenon DEF ExecFails, NewArena, NoOthers, At
  <1>19. ASSUME NEW p \in Pids, ExecRuns(p) PROVE Cause(x)'
    BY <1>a, <1>19, <1>a DEF ExecRuns, ReleaseParent, Thaw, ThreadsOf, Called, CallOf, Records
  <1>20. ASSUME NEW p \in Pids, ExecRunFails(p) \/ ExecDrops(p) \/ Exits(p) PROVE Cause(x)'
    BY <1>a, <1>20, Zenon DEF ExecRunFails, ExecDrops, Exits, At
  <1>21. ASSUME NEW p \in Pids, EndReleases(p) PROVE Cause(x)'
    BY <1>a, <1>21, <1>a, ThreadNames DEF EndReleases, ReleaseParent, Thaw, NoOthers, OthersStopped, ThreadsOf, Called, CallOf, Records
  <1>22. ASSUME NEW p \in Pids, EndFinishes(p) PROVE Cause(x)'
    BY <1>a, <1>22, <1>a, Zenon DEF EndFinishes, Records
  <1>23. ASSUME NEW p \in Pids, EndFrees(p) PROVE Cause(x)'
    BY <1>a, <1>23, Zenon DEF EndFrees, OnlyUsedBy, At
  <1> HIDE DEF Types, Cause, Goto, table, flags, spaces
  <1> QED
    BY <1>1, <1>2, <1>3, <1>4, <1>5, <1>6, <1>7, <1>8, <1>9, <1>10, <1>11, <1>12, <1>13, <1>14, <1>15, <1>16, <1>17, <1>18, <1>19, <1>20, <1>21, <1>22, <1>23, Zenon
    DEF Next, ForkStep, WaitStep, ProcessStep

-----------------------------------------------------------------------------
LEMMA InitInv == Init => Inv /\ FrozenForAChild
  <1> SUFFICES ASSUME Init PROVE Inv /\ FrozenForAChild
    BY Zenon
  <1> USE ProcessesAssumption, SpaceFacts, PidFacts DEF Init
  <1>1. Types
    BY DEF Types, Hosts, Calls, Pids
  <1>2. Records /\ Called
    BY DEF Records, Called, CallOf
  <1>3. Borrowed /\ NoSpaceFreedInUse /\ FrozenForAChild
    BY DEF Borrowed, NoSpaceFreedInUse, InUse, FrozenForAChild
  <1>4. LeaksAreKnown
    BY Zenon DEF LeaksAreKnown, Orphaned
  <1> QED BY <1>1, <1>2, <1>3, <1>4, Zenon DEF Inv

\* The inductive invariant: what the table, a host thread and a call under way
\* say of the same process agree.
THEOREM ProcessesInvariant == Spec => []Inv
  <1>1. Inv /\ [Next]_vars => Inv'
    BY TypeStep, RecordsStep, CalledStep, BorrowedStep, SpaceStep, LeakStep, Zenon DEF Inv
  <1> QED BY InitInv, <1>1, PTL DEF Spec

\* For any number of processes, arenas and execve calls, ReleaseOwnArenas never
\* frees a space another process runs in.
THEOREM SpacesOutliveTheirUsers == Spec => []NoSpaceFreedInUse
  <1>1. Inv => NoSpaceFreedInUse
    BY Zenon DEF Inv
  <1> QED BY ProcessesInvariant, <1>1, PTL

\* For any number of processes, arenas and execve calls, an arena nobody will
\* free was lost by a second execve or a call that failed.
THEOREM OnlyKnownLeaks == Spec => []LeaksAreKnown
  <1>1. Inv => LeaksAreKnown
    BY Zenon DEF Inv
  <1> QED BY ProcessesInvariant, <1>1, PTL

\* If no fork fails half-way, a thread is suspended only while a fork of its
\* process waits for the child it copied.
THEOREM SuspendedForAFork == ASSUME ~Failures PROVE Spec => []FrozenForAChild
  <1>1. Inv /\ FrozenForAChild /\ [Next]_vars => FrozenForAChild'
    BY FrozenStep, Zenon DEF Inv
  <1> QED BY InitInv, ProcessesInvariant, <1>1, PTL DEF Spec


=============================================================================
