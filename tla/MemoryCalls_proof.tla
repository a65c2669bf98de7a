------------------------- MODULE MemoryCalls_proof --------------------------
(***************************************************************************)
(* The steps of the memory calls: each keeps the arena's books, and who    *)
(* owns what. MmapCommit, which fills gaps and so counts them, is in       *)
(* GuestMemory_proof.                                                      *)
(***************************************************************************)
EXTENDS PageOwners_proof

USE ZenonT(30)

(***************************************************************************)
(* The steps of the memory calls, one by one: what the step does, then     *)
(* what it preserves.                                                      *)
(***************************************************************************)
LEMMA MmapFixedStep ==
    ASSUME BooksInv, NobodyExecs, NEW t \in Threads, NEW S \in CopySpans, NEW kind \in MappingKinds,
           NEW pr \in Protections, MmapFixed(t, S, kind, pr), SameProgram
    PROVE  Preserves
  <1>1. /\ BooksInv' /\ Turn(t) /\ Quiet /\ SameBytes /\ SameOwners
        /\ S \subseteq Page /\ S # {} /\ call[t] = Idle
        /\ call'[t].at = "commit" /\ call'[t].pages = S /\ call'[t].kind = kind
        /\ call'[t].stale = IF kind = "anon" THEN S \cap Committed ELSE {}
        /\ MayPlace(S) /\ (kind = "shared" => Outward(S) = S)
        /\ ReplaceSharedMappingsIn(S) /\ Holding(S, "none") /\ faulted' = faulted
    <2> USE DEF MappingKinds, Protections
    <2> DEFINE stale == IF kind = "anon" THEN S \cap Committed ELSE {}
               c == [Idle EXCEPT !.at = "commit", !.pages = S, !.kind = kind, !.prot = pr, !.stale = stale]
    <2>1. S \subseteq Page /\ S # {} /\ stale \subseteq Page
      BY RequestFacts DEF Committed
    <2>2. /\ Begin(t, c) /\ MayPlace(S) /\ (kind = "shared" => Outward(S) = S)
          /\ ReplaceSharedMappingsIn(S) /\ Holding(S, "none")
          /\ free' = free /\ epoch' = epoch /\ nextEpoch' = nextEpoch
          /\ bytes' = bytes /\ heap' = heap /\ segments' = segments /\ faulted' = faulted
      BY DEF MmapFixed, books
    <2>3. /\ c \in CallType /\ c.at = "commit" /\ c.pages = S /\ c.kind = kind /\ c.stale = stale
      <3>1. kind \in {"none", "anon", "file", "shared"}
        OBVIOUS
      <3> HIDE DEF stale
      <3>2. c = [Idle EXCEPT !.at = "commit", !.pages = S, !.kind = kind, !.prot = pr, !.stale = stale]
        OBVIOUS
      <3> HIDE DEF c
      <3> QED BY <2>1, <3>1, <3>2, IdleFacts DEF CallType, CallStages
    <2> HIDE DEF c
    <2>4. Typed /\ Committed' = Committed
      BY <2>2 DEF BooksInv, Committed
    <2>5. call[t] = Idle /\ call'[t] = c /\ Turn(t)
      BY <2>2, <2>3, <2>4, BeginEffect DEF Turn, Typed
    <2>6. open \subseteq open' /\ slots' \in Seq(SlotType)
      BY <2>1, <2>2, <2>4, ReplaceEffect DEF Typed
    <2>7. held' \in [Page -> Kinds]
      BY <2>2, <2>4 DEF Holding, Typed, Kinds
    <2>8. BooksInv'
      BY <2>2, <2>3, <2>4, <2>5, <2>6, <2>7, BooksOfQuietStep DEF SizedCall, Typed, SameProgram
    <2> QED BY <2>1, <2>2, <2>3, <2>4, <2>5, <2>6, <2>8 DEF Quiet, SameBytes, SameOwners
  <1>2. ASSUME OwnInv, Careful PROVE OwnInv'
    <2> USE <1>2
    <2>1. BooksInv
      BY DEF OwnInv
    <2>2. /\ BooksInv' /\ Turn(t) /\ Quiet /\ SameOwners /\ S \subseteq Page
          /\ call'[t].at = "commit" /\ call'[t].pages = S /\ call'[t].kind = kind
          /\ call'[t].stale = IF kind = "anon" THEN S \cap Committed ELSE {}
          /\ MayPlace(S) /\ (kind = "shared" => Outward(S) = S) /\ Holding(S, "none")
      BY <1>1
    <2>3. call'[t] \in CallType
      BY <2>2 DEF Turn
    <2>4. S \cap Lands = {} /\ S \subseteq Committed \cup Placed /\ \A u \in Threads : Claim(call[u]) \cap S = {}
      BY <2>2, GuestsRange
    <2>5. Claim(call'[t]) = S /\ Target(call'[t]) = {}
      BY <2>2, <2>3, ClaimFacts DEF Target
    <2>6. Usable \subseteq Usable' /\ Committed' = Committed
      BY <2>2 DEF Quiet, Usable
    <2>7. \A p \in Page : held'[p] = IF p \in S THEN "none" ELSE held[p]
      BY <2>2 DEF Holding
    <2>8. StagedCall(t, call'[t], heap)
      <3>1. call'[t].stale \subseteq S
        BY <2>2
      <3> QED BY <2>2, <3>1 DEF StagedCall
    <2>9. UsableCall(call'[t], Committed', Usable') /\ OwnCall(call'[t], Lands)
      BY <2>2, <2>4, <2>5, <2>6 DEF UsableCall, OwnCall
    <2>10. HeldCall(call'[t], held')
      BY <2>2, <2>5, <2>7 DEF HeldCall
    <2>11. CallOK(t, call'[t], heap, Committed', Usable', held', Lands)
      BY <2>8, <2>9, <2>10 DEF CallOK
    <2>12. Spares(t, {}, S)
      BY <2>4, <2>5, <2>6, <2>7 DEF Spares
    <2>13. OffLands({}, S)
      BY <2>4, <2>7 DEF OffLands
    <2>14. call'[t].at \in CallStages
      BY <2>2 DEF CallStages
    <2> QED BY <2>2, <2>11, <2>12, <2>13, <2>14, OrdinaryStep
  <1>3. ASSUME OwnInv, FilesInv, SlotsSuffice PROVE FilesInv'
    <2>1. FewerViews /\ S \cap live' = {}
      BY <1>1, <1>3, ReplacedViews DEF SameOwners
    <2>2. call'[t] \in CallType
      BY <1>1 DEF Turn
    <2>3. Claim(call'[t]) = S /\ Target(call'[t]) = {}
      BY <1>1, <2>2, ClaimFacts DEF Target
    <2>4. FileCall(call'[t], live') /\ ~faulted' /\ call'[t].at \in CallStages
      BY <1>1, <1>3, <2>1, <2>3 DEF FileCall, FilesInv, CallsNeverFault, CallStages
    <2> QED BY <1>1, <1>3, <2>1, <2>4, FilesCall
  <1> QED BY <1>1, <1>2, <1>3 DEF Preserves

LEMMA MmapAnywhereStep ==
    ASSUME BooksInv, NobodyExecs, NEW t \in Threads, NEW n \in Sizes, NEW hint \in {NoHint} \cup Hints,
           NEW kind \in MappingKinds, NEW pr \in Protections,
           MmapAnywhere(t, n, hint, kind, pr), SameProgram
    PROVE  Preserves
  <1>1. /\ BooksInv' /\ Turn(t) /\ Quiet /\ SameBytes /\ SameViews /\ SameOwners
        /\ call[t] = Idle /\ call'[t].pages = {} /\ call'[t].stale = {}
        /\ \/ call'[t].at = "alloc"
           \/ /\ call'[t].at = "shrink" /\ t \in HeapThreads
              /\ heap.break <= call'[t].from /\ call'[t].from < heap.limit /\ call'[t].limit = heap.limit
        /\ held' = held /\ faulted' = faulted
    <2> USE DEF MappingKinds, Protections
    <2> DEFINE usedEnd == AlignUp(heap.break)
               gives == hint # NoHint /\ hint >= usedEnd /\ hint < heap.limit
               low == IF AlignDown(hint) > usedEnd THEN AlignDown(hint) ELSE usedEnd
               from == IF gives THEN low ELSE 0
               c == [Idle EXCEPT !.n = n, !.hint = hint, !.kind = kind, !.prot = pr]
               a == [c EXCEPT !.at = "alloc"]
               s == [c EXCEPT !.at = "shrink", !.from = from, !.limit = heap.limit]
    <2>1. Typed /\ heap.break \in Nat /\ heap.limit \in Ends
      BY DEF BooksInv, Typed, HeapType
    <2>2. usedEnd \in Nat /\ heap.break <= usedEnd
      BY <2>1, AlignUpFacts
    <2>3. n \in Nat /\ n # 0 /\ hint \in {NoHint} \cup Nat /\ kind \in {"none", "anon", "file", "shared"}
      BY RequestFacts
    <2>4. ASSUME gives PROVE from = low /\ low \in Nat /\ heap.break <= low /\ low < heap.limit
      <3>1. hint \in Nat /\ hint >= usedEnd /\ hint < heap.limit
        BY <2>3, <2>4
      <3>2. hint \div K \in Nat /\ K * (hint \div K) <= hint
        BY <3>1, DivBounds
      <3>3. AlignDown(hint) \in Nat /\ AlignDown(hint) <= hint
        BY <3>2, PageFacts, SMT DEF AlignDown
      <3>4. from = low
        BY <2>4
      <3> HIDE DEF usedEnd, gives
      <3> QED BY <2>1, <2>2, <3>1, <3>3, <3>4, SMT DEF Ends
    <2>5. from \in Nat
      <3>1. 0 \in Nat
        BY SMT
      <3> QED BY <2>4, <3>1
    <2>6. /\ (hint # NoHint => t \in HeapThreads)
          /\ Begin(t, IF gives THEN s ELSE a)
          /\ held' = held /\ faulted' = faulted
          /\ free' = free /\ epoch' = epoch /\ nextEpoch' = nextEpoch /\ open' = open
          /\ bytes' = bytes /\ heap' = heap /\ segments' = segments /\ live' = live /\ slots' = slots
      BY DEF MmapAnywhere, arena, books
    <2>7. gives => t \in HeapThreads
      BY <2>6
    <2> HIDE DEF from, gives
    <2>8. /\ a \in CallType /\ a.at = "alloc" /\ a.pages = {} /\ a.n = n /\ a.stale = {}
          /\ s \in CallType /\ s.at = "shrink" /\ s.pages = {} /\ s.n = n /\ s.stale = {}
          /\ s.from = from /\ s.limit = heap.limit
      <3>1. /\ c = [Idle EXCEPT !.n = n, !.hint = hint, !.kind = kind, !.prot = pr]
            /\ a = [c EXCEPT !.at = "alloc"]
            /\ s = [c EXCEPT !.at = "shrink", !.from = from, !.limit = heap.limit]
        OBVIOUS
      <3> HIDE DEF c, a, s
      <3>2. /\ c \in CallType /\ c.pages = {} /\ c.n = n /\ c.stale = {}
        BY <2>3, <3>1, IdleFacts DEF CallType
      <3> QED BY <2>1, <2>5, <3>1, <3>2 DEF CallType, CallStages
    <2> HIDE DEF a, s
    <2> DEFINE r == IF gives THEN s ELSE a
    <2>9. /\ r \in CallType /\ r.pages = {} /\ r.n # 0 /\ r.stale = {}
          /\ \/ r.at = "alloc"
             \/ /\ r.at = "shrink" /\ t \in HeapThreads
                /\ heap.break <= r.from /\ r.from < heap.limit /\ r.limit = heap.limit
      BY <2>3, <2>4, <2>7, <2>8
    <2>10. Begin(t, r)
      BY <2>6
    <2> HIDE DEF r
    <2>11. Committed' = Committed
      BY <2>6 DEF Committed
    <2>12. call[t] = Idle /\ call'[t] = r /\ Turn(t)
      BY <2>1, <2>9, <2>10, BeginEffect DEF Turn, Typed
    <2>13. BooksInv'
      BY <2>1, <2>6, <2>9, <2>11, <2>12, BooksOfQuietStep DEF SizedCall, Typed, SameProgram
    <2> QED BY <2>6, <2>9, <2>11, <2>12, <2>13 DEF Quiet, SameBytes, SameOwners, SameViews
  <1>2. ASSUME OwnInv, Careful PROVE OwnInv'
    <2> USE <1>2
    <2>1. BooksInv
      BY DEF OwnInv
    <2>2. /\ BooksInv' /\ Turn(t) /\ Quiet /\ SameOwners /\ held' = held
          /\ call'[t].pages = {} /\ call'[t].stale = {}
          /\ \/ call'[t].at = "alloc"
             \/ /\ call'[t].at = "shrink" /\ t \in HeapThreads
                /\ heap.break <= call'[t].from /\ call'[t].from < heap.limit /\ call'[t].limit = heap.limit
      BY <1>1
    <2>3. call'[t] \in CallType
      BY <2>2 DEF Turn
    <2>4. StagedCall(t, call'[t], heap)
      BY <2>2 DEF StagedCall
    <2>5. call'[t].at \notin {"commit", "fill", "protect", "release", "move", "copy"} /\ call'[t].at \in CallStages
      BY <2>2 DEF CallStages
    <2>6. CallOK(t, call'[t], heap, Committed', Usable', held', Lands) /\ Claim(call'[t]) = {}
      BY <2>3, <2>4, <2>5, NoClaim
    <2>7. Claim(call'[t]) \subseteq Claim(call[t])
      BY <2>6
    <2> QED BY <2>2, <2>5, <2>6, <2>7, QuietStep
  <1>3. ASSUME OwnInv, FilesInv, SlotsSuffice PROVE FilesInv'
    <2>1. FilesMove /\ ~faulted' /\ call'[t].at \in PlainStages
      BY <1>1, <1>3, IdleFacts DEF FilesInv, CallsNeverFault, FilesMove, PlainStages, SameViews, SameOwners, Reserve
    <2> QED BY <1>1, <1>3, <2>1, PlainFiles
  <1> QED BY <1>1, <1>2, <1>3 DEF Preserves

LEMMA MmapAllocateStep ==
    ASSUME BooksInv, NobodyExecs, NEW t \in Threads, MmapAllocate(t), SameProgram
    PROVE  Preserves
  <1>1. /\ BooksInv' /\ Turn(t) /\ SameOwners
        /\ call[t].at = "alloc"
        /\ \/ call'[t] = Idle /\ Quiet /\ SameBytes /\ live' = live
           \/ \E S : /\ Took(S) /\ S \cap Placed = {}
                     /\ call'[t].at = "fill" /\ call'[t].pages \subseteq S
                     /\ call'[t].kind = call[t].kind /\ call'[t].stale = call[t].stale
        /\ held' = held /\ slots' = slots /\ faulted' = faulted
    <2> DEFINE c == call[t]
               len == AlignUp(c.n)
    <2>1. /\ c.at = "alloc" /\ held' = held /\ slots' = slots /\ heap' = heap /\ segments' = segments /\ faulted' = faulted
      BY DEF MmapAllocate, At
    <2>2. /\ Typed /\ Booked /\ c \in CallType /\ c.n \in Nat /\ c.hint \in {NoHint} \cup Nat /\ c.n # 0
      BY <2>1 DEF BooksInv, Typed, CallType, SizedCall
    <2>3. CASE Back(t) /\ UNCHANGED <<arena, live>>
      <3>1. free' = free /\ epoch' = epoch /\ nextEpoch' = nextEpoch /\ bytes' = bytes /\ open' = open /\ live' = live
        BY <2>3 DEF arena, books
      <3>2. call'[t] = Idle /\ Turn(t)
        BY <2>2, <2>3, IdleFacts, GoOnEffect DEF Turn, Typed, Back
      <3>3. Committed' = Committed
        BY <3>1 DEF Committed
      <3>4. BooksInv'
        BY <2>1, <2>2, <3>1, <3>2, <3>3, IdleFacts, BooksOfQuietStep DEF SizedCall, Typed, SameProgram
      <3> QED BY <2>1, <3>1, <3>2, <3>3, <3>4 DEF Quiet, SameBytes, SameOwners
    <2>4. CASE \E s \in Room(c.n, c.hint) :
                  /\ CommitFree(s..(s + len - 1), c.prot \cup {"W"}, "ok")
                  /\ Fresh(s..(s + len - 1))
                  /\ GoOn(t, [c EXCEPT !.at = "fill", !.pages = s..(s + c.n - 1), !.n = 0, !.hint = NoHint])
      <3>1. PICK s \in Room(c.n, c.hint) :
                  /\ CommitFree(s..(s + len - 1), c.prot \cup {"W"}, "ok")
                  /\ Fresh(s..(s + len - 1))
                  /\ GoOn(t, [c EXCEPT !.at = "fill", !.pages = s..(s + c.n - 1), !.n = 0, !.hint = NoHint])
        BY <2>4
      <3> DEFINE S == s..(s + len - 1)
                 P == s..(s + c.n - 1)
                 r == [c EXCEPT !.at = "fill", !.pages = P, !.n = 0, !.hint = NoHint]
      <3>2. s \in Placement(len, c.hint) /\ S \cap Placed = {}
        BY DEF Room
      <3>3. /\ Booked' /\ Took(S) /\ nextEpoch' \in Nat \ {0} /\ P \subseteq S
        <4>1. c.n \in Nat \ {0} /\ free \subseteq Page /\ nextEpoch \in Nat \ {0}
          BY <2>2 DEF Typed
        <4> HIDE DEF c
        <4> QED BY <2>2, <3>1, <3>2, <4>1, BookedBlock
      <3>4. GoOn(t, r)
        BY <3>1
      <3>5. P \subseteq Page
        BY <2>2, <3>3 DEF Took, Typed
      <3> HIDE DEF P, S
      <3>6. r \in CallType /\ r.at = "fill" /\ r.pages = P /\ r.kind = c.kind /\ r.stale = c.stale
        <4> HIDE DEF c
        <4>1. 0 \in Nat /\ NoHint \in {NoHint} \cup Nat
          BY SMT
        <4> QED BY <2>2, <3>5, <4>1 DEF CallType, CallStages
      <3> HIDE DEF r
      <3>7. call'[t] = r /\ Turn(t)
        BY <2>2, <3>4, <3>6, GoOnEffect DEF Turn, Typed
      <3>8. Typed'
        BY <2>1, <2>2, <3>3, <3>7 DEF Typed, Turn, SameProgram, Took
      <3>9. \A u \in Threads : SizedCall(call[u])'
        BY <3>6, <3>7 DEF BooksInv, Turn, SizedCall
      <3> QED BY <2>1, <3>2, <3>3, <3>6, <3>7, <3>8, <3>9 DEF BooksInv, SameOwners
    <2> QED BY <2>3, <2>4 DEF MmapAllocate
  <1>2. ASSUME OwnInv, Careful PROVE OwnInv'
    <2> USE <1>2
    <2>1. BooksInv
      BY DEF OwnInv
    <2>2. /\ BooksInv' /\ Turn(t) /\ SameOwners /\ call[t].at = "alloc" /\ held' = held
          /\ \/ call'[t] = Idle /\ Quiet
             \/ \E S : /\ Took(S) /\ S \cap Placed = {}
                       /\ call'[t].at = "fill" /\ call'[t].pages \subseteq S
                       /\ call'[t].kind = call[t].kind /\ call'[t].stale = call[t].stale
      BY <1>1
    <2>3. CASE call'[t] = Idle /\ Quiet
      <3>1. CallOK(t, call'[t], heap, Committed', Usable', held', Lands) /\ Claim(call'[t]) = {}
        BY <2>3, IdleIsOK
      <3>2. call'[t].at \in CallStages /\ Claim(call'[t]) \subseteq Claim(call[t])
        BY <2>3, <3>1, IdleFacts DEF CallStages
      <3> QED BY <2>2, <2>3, <3>1, <3>2, QuietStep
    <2>4. ASSUME NEW S, Took(S), S \cap Placed = {}, call'[t].at = "fill", call'[t].pages \subseteq S,
                 call'[t].kind = call[t].kind, call'[t].stale = call[t].stale
          PROVE  OwnInv'
      <3>1. /\ S \subseteq free /\ WholePages(S) /\ Committed' = Committed \cup S /\ open' = open \cup S
        BY <2>4 DEF Took
      <3>2. S \cap Committed = {} /\ S \subseteq Page
        BY <2>1, <3>1 DEF BooksInv, Booked, FreeIsUncommitted, Typed
      <3>3. S \cap Lands = {} /\ \A p \in S : held[p] = "none"
        BY <3>2, FreshIsNobodys
      <3>4. call'[t] \in CallType
        BY <2>2 DEF Turn
      <3>5. Outward(call'[t].pages) \subseteq S
        BY <2>4, <3>1 DEF Outward, WholePages
      <3>6. Claim(call'[t]) \subseteq S /\ Target(call'[t]) = {}
        BY <2>4, <3>5 DEF Claim, Target
      <3>7. StagedCall(t, call'[t], heap)
        <4>1. call[t].pages = {} /\ call[t].stale \subseteq call[t].pages
          BY <2>2, CallFacts DEF StagedCall
        <4>2. call'[t].stale \subseteq call'[t].pages
          BY <2>4, <4>1
        <4> QED BY <2>4, <4>2 DEF StagedCall
      <3>8. S \subseteq Usable'
        BY <3>1 DEF Usable
      <3>9. UsableCall(call'[t], Committed', Usable') /\ OwnCall(call'[t], Lands)
        BY <2>4, <3>3, <3>6, <3>8 DEF UsableCall, OwnCall
      <3>10. HeldCall(call'[t], held')
        BY <2>2, <2>4, <3>3, <3>6 DEF HeldCall
      <3>11. CallOK(t, call'[t], heap, Committed', Usable', held', Lands)
        BY <3>7, <3>9, <3>10 DEF CallOK
      <3>12. call'[t].at \in CallStages
        BY <2>4 DEF CallStages
      <3>13. Claim(call'[t]) \subseteq Claim(call[t]) \cup S
        BY <3>6
      <3> QED BY <2>2, <2>4, <3>11, <3>12, <3>13, TakingStep
    <2> QED BY <2>2, <2>3, <2>4
  <1>3. ASSUME OwnInv, FilesInv, SlotsSuffice PROVE FilesInv'
    <2>1. CASE call'[t] = Idle /\ Quiet /\ live' = live
      <3>1. FilesMove /\ ~faulted' /\ call'[t].at \in PlainStages
        BY <1>1, <1>3, <2>1, IdleFacts DEF FilesInv, CallsNeverFault, FilesMove, PlainStages, SameOwners, Reserve
      <3> QED BY <1>1, <1>3, <3>1, PlainFiles
    <2>2. ASSUME NEW S, Took(S), call'[t].at = "fill", call'[t].pages \subseteq S
          PROVE  FilesInv'
      <3>1. WholePages(S) /\ live' = live \ S
        BY <2>2 DEF Took
      <3>2. Outward(call'[t].pages) \subseteq S
        BY <2>2, <3>1 DEF Outward, WholePages
      <3>3. Claim(call'[t]) \subseteq S /\ Target(call'[t]) = {}
        BY <2>2, <3>2 DEF Claim, Target
      <3>4. FileCall(call'[t], live') /\ ~faulted' /\ call'[t].at \in CallStages
        BY <1>1, <1>3, <2>2, <3>1, <3>3 DEF FileCall, FilesInv, CallsNeverFault, CallStages
      <3>5. FewerViews
        BY <1>1, <1>3, <2>2, FewerByMove DEF FilesMove, SameOwners, Reserve
      <3> QED BY <1>1, <1>3, <3>4, <3>5, FilesCall
    <2> QED BY <1>1, <2>1, <2>2
  <1> QED BY <1>1, <1>2, <1>3 DEF Preserves

LEMMA MmapZeroStep ==
    ASSUME BooksInv, NobodyExecs, NEW t \in Threads, MmapZero(t), SameProgram
    PROVE  Preserves
  <1>1. LET S == call[t].pages
            dropped == Inward(call[t].stale)
            byHand == ByHand(S, call[t].stale)
        IN  /\ BooksInv' /\ Turn(t) /\ Quiet /\ SameOwners /\ Answer(t)
            /\ call[t].at = "fill" /\ call[t].kind = "anon"
            /\ bytes' = [p \in Page |-> IF p \in dropped \cup byHand THEN "zero" ELSE bytes[p]]
            /\ live' = live \ dropped /\ slots' = slots
            /\ (faulted' <=> faulted \/ byHand \cap live # {})
    <2> DEFINE dropped == Inward(call[t].stale)
               byHand == ByHand(call[t].pages, call[t].stale)
    <2>1. /\ call[t].at = "fill" /\ call[t].kind = "anon" /\ Answer(t)
          /\ bytes' = [p \in Page |-> IF p \in dropped \cup byHand THEN "zero" ELSE bytes[p]]
          /\ open' = open \cup dropped /\ live' = live \ dropped /\ Writes(byHand)
          /\ free' = free /\ epoch' = epoch /\ nextEpoch' = nextEpoch
          /\ slots' = slots /\ heap' = heap /\ segments' = segments
      BY DEF MmapZero, At, Fresh, books
    <2> HIDE DEF dropped, byHand
    <2>2. Typed /\ Committed' = Committed /\ open \subseteq open'
      BY <2>1 DEF BooksInv, Committed
    <2>3. Turn(t) /\ SizedCall(call'[t]) /\ held' \in [Page -> Kinds]
      BY <2>1, <2>2, AnswerEffect
    <2>4. bytes' \in [Page -> {"zero", "data"}]
      BY <2>1, <2>2 DEF Typed
    <2>5. BooksInv'
      BY <2>1, <2>2, <2>3, <2>4, BooksOfQuietStep DEF Typed, SameProgram
    <2> QED BY <2>1, <2>2, <2>3, <2>5 DEF Quiet, SameOwners, Writes, dropped, byHand
  <1>2. ASSUME OwnInv, Careful PROVE OwnInv'
    <2>1. BooksInv' /\ Turn(t) /\ Quiet /\ SameOwners /\ Answer(t) /\ call[t].at = "fill"
      BY <1>1
    <2> QED BY <1>2, <2>1, OwnAnswer
  <1>3. ASSUME OwnInv, FilesInv, SlotsSuffice PROVE FilesInv'
    <2>1. FileCall(call[t], live) /\ call[t] \in CallType /\ call[t].pages \cap live = {}
      BY <1>1, <1>3, CallFacts DEF FilesInv, FileCall
    <2>2. ~faulted'
      BY <1>1, <1>3, <2>1 DEF ByHand, FilesInv, CallsNeverFault
    <2>3. FewerViews
      BY <1>1, <1>3, FewerByMove DEF FilesMove, SameOwners, Reserve
    <2>0. call \in [Threads -> CallType]
      BY DEF BooksInv, Typed
    <2>4. FileCall(call'[t], live') /\ call'[t].at \in CallStages
      BY <1>1, <2>0, <2>1, <2>3, AnswerFiles
    <2> QED BY <1>1, <1>3, <2>2, <2>3, <2>4, FilesCall
  <1> QED BY <1>1, <1>2, <1>3 DEF Preserves

LEMMA MmapReadStep ==
    ASSUME BooksInv, NobodyExecs, NEW t \in Threads, MmapRead(t), SameProgram
    PROVE  Preserves
  <1>1. LET S == First(call[t].pages, FileLength) IN
        /\ BooksInv' /\ Turn(t) /\ Quiet /\ SameOwners /\ SameViews /\ Answer(t)
        /\ call[t].at = "fill" /\ call[t].kind = "file"
        /\ bytes' = [p \in Page |-> IF p \in S THEN "data" ELSE bytes[p]]
        /\ (faulted' <=> faulted \/ S \cap live # {})
    <2> DEFINE S == First(call[t].pages, FileLength)
    <2>1. /\ call[t].at = "fill" /\ call[t].kind = "file" /\ Answer(t)
          /\ bytes' = [p \in Page |-> IF p \in S THEN "data" ELSE bytes[p]]
          /\ open' = open /\ live' = live /\ Writes(S)
          /\ free' = free /\ epoch' = epoch /\ nextEpoch' = nextEpoch
          /\ slots' = slots /\ heap' = heap /\ segments' = segments
      BY DEF MmapRead, At, books
    <2> HIDE DEF S
    <2>2. Typed /\ Committed' = Committed /\ open \subseteq open'
      BY <2>1 DEF BooksInv, Committed
    <2>3. Turn(t) /\ SizedCall(call'[t]) /\ held' \in [Page -> Kinds]
      BY <2>1, <2>2, AnswerEffect
    <2>4. bytes' \in [Page -> {"zero", "data"}]
      BY <2>1, <2>2 DEF Typed
    <2>5. BooksInv'
      BY <2>1, <2>2, <2>3, <2>4, BooksOfQuietStep DEF Typed, SameProgram
    <2> QED BY <2>1, <2>2, <2>3, <2>5 DEF Quiet, SameOwners, SameViews, Writes, S
  <1>2. ASSUME OwnInv, Careful PROVE OwnInv'
    <2>1. BooksInv' /\ Turn(t) /\ Quiet /\ SameOwners /\ Answer(t) /\ call[t].at = "fill"
      BY <1>1
    <2> QED BY <1>2, <2>1, OwnAnswer
  <1>3. ASSUME OwnInv, FilesInv, SlotsSuffice PROVE FilesInv'
    <2>1. FileCall(call[t], live) /\ call[t] \in CallType /\ call[t].pages \cap live = {}
      BY <1>1, <1>3, CallFacts DEF FilesInv, FileCall
    <2>2. ~faulted'
      BY <1>1, <1>3, <2>1 DEF First, FilesInv, CallsNeverFault
    <2>3. FewerViews
      BY <1>1, <1>3, FewerByMove DEF FilesMove, SameOwners, SameViews, Reserve
    <2>0. call \in [Threads -> CallType]
      BY DEF BooksInv, Typed
    <2>4. FileCall(call'[t], live') /\ call'[t].at \in CallStages
      BY <1>1, <2>0, <2>1, <2>3, AnswerFiles
    <2> QED BY <1>1, <1>3, <2>2, <2>3, <2>4, FilesCall
  <1> QED BY <1>1, <1>2, <1>3 DEF Preserves

LEMMA MmapShareStep ==
    ASSUME BooksInv, NobodyExecs, NEW t \in Threads, MmapShare(t), SameProgram
    PROVE  Preserves
  <1>1. LET mapped == Outward(First(Outward(call[t].pages), FileLength)) IN
        /\ BooksInv' /\ Turn(t) /\ Quiet /\ SameOwners
        /\ call[t].at = "fill" /\ call[t].kind = "shared" /\ call'[t] = Idle
        /\ mapped \subseteq Outward(call[t].pages)
        /\ bytes' = [p \in Page |-> IF p \in mapped THEN "data" ELSE bytes[p]]
        /\ live' = live \cup mapped /\ slots' = Noted(mapped)
        /\ Holding(call[t].pages, "shared") /\ faulted' = faulted
    <2> DEFINE mapped == Outward(First(Outward(call[t].pages), FileLength))
    <2>1. /\ call[t].at = "fill" /\ call[t].kind = "shared" /\ Back(t) /\ Holding(call[t].pages, "shared")
          /\ bytes' = [p \in Page |-> IF p \in mapped THEN "data" ELSE bytes[p]]
          /\ open' = open /\ live' = live \cup mapped /\ slots' = Noted(mapped)
          /\ free' = free /\ epoch' = epoch /\ nextEpoch' = nextEpoch
          /\ heap' = heap /\ segments' = segments /\ faulted' = faulted
      BY DEF MmapShare, At, books
    <2>2. Typed /\ Committed' = Committed /\ open \subseteq open' /\ call[t].pages \subseteq Page
      BY <2>1 DEF BooksInv, Committed, Typed, CallType
    <2>3. mapped \subseteq Outward(call[t].pages) /\ mapped \subseteq Page
      <3> DEFINE T == Outward(call[t].pages)
      <3>1. T \subseteq Page /\ \A p \in T : HostPage[p] \subseteq T
        BY <2>2, OutwardFacts DEF WholePages
      <3>2. First(T, FileLength) \subseteq T
        BY DEF First
      <3> HIDE DEF T
      <3>3. Outward(First(T, FileLength)) \subseteq T
        BY <3>1, <3>2 DEF Outward
      <3> QED BY <3>1, <3>3 DEF T
    <2> HIDE DEF mapped
    <2>4. call'[t] = Idle /\ Turn(t)
      BY <2>1, <2>2, IdleFacts, GoOnEffect DEF Turn, Typed, Back
    <2>5. bytes' \in [Page -> {"zero", "data"}] /\ held' \in [Page -> Kinds]
      BY <2>1, <2>2 DEF Typed, Holding, Kinds
    <2>6. slots' \in Seq(SlotType)
      <3>1. [pages |-> mapped, inUse |-> TRUE] \in SlotType
        BY <2>3 DEF SlotType
      <3>2. slots \in Seq(SlotType)
        BY <2>2 DEF Typed
      <3>3. \A x \in SlotType : Append(slots, x) \in Seq(SlotType)
        BY <3>2, SMT
      <3> QED BY <2>1, <3>1, <3>2, <3>3 DEF Noted
    <2>7. BooksInv'
      BY <2>1, <2>2, <2>4, <2>5, <2>6, IdleFacts, BooksOfQuietStep DEF Typed, SameProgram, SizedCall
    <2> QED BY <2>1, <2>2, <2>3, <2>4, <2>7 DEF Quiet, SameOwners, mapped
  <1>2. ASSUME OwnInv, Careful PROVE OwnInv'
    <2>1. /\ BooksInv' /\ Turn(t) /\ Quiet /\ SameOwners /\ call'[t] = Idle
          /\ call[t].at \in {"fill", "protect"} /\ Holding(call[t].pages, call[t].kind)
      BY <1>1
    <2> QED BY <1>2, <2>1, HandingOver
  <1>3. ASSUME OwnInv, FilesInv, SlotsSuffice PROVE FilesInv'
    <2> DEFINE mapped == Outward(First(Outward(call[t].pages), FileLength))
    <2>1. /\ live' = live \cup mapped /\ slots' = Noted(mapped) /\ mapped \subseteq Claim(call[t])
          /\ call[t].at = "fill" /\ call[t].kind = "shared"
      BY <1>1 DEF Claim
    <2> HIDE DEF mapped
    <2>2. /\ Claim(call[t]) \subseteq Committed /\ Claim(call[t]) \cap Lands = {}
          /\ \A u \in Threads : u # t => Claim(call[t]) \cap Claim(call[u]) = {}
      BY <1>3, <2>1, CallFacts DEF UsableCall, OwnCall, Usable
    <2>3. live' \cap free' = {} /\ live' \cap Reserve' = {}
      BY <1>1, <1>3, <2>1, <2>2 DEF FilesInv, Quiet, SameOwners, Reserve, Lands, BooksInv, Booked, FreeIsUncommitted
    <2>4. Viewed'
      <3>1. /\ DOMAIN slots \subseteq DOMAIN slots' /\ \A i \in DOMAIN slots : slots'[i] = slots[i]
            /\ \E i \in DOMAIN slots' : slots'[i].inUse /\ slots'[i].pages = mapped
        <4>1. slots \in Seq(SlotType)
          BY DEF BooksInv, Typed
        <4>2. slots' = Append(slots, [pages |-> mapped, inUse |-> TRUE])
          BY <1>3, <2>1 DEF SlotsSuffice, Noted
        <4>3. /\ DOMAIN slots \subseteq DOMAIN slots' /\ \A i \in DOMAIN slots : slots'[i] = slots[i]
              /\ Len(slots) + 1 \in DOMAIN slots' /\ slots'[Len(slots) + 1].inUse
              /\ slots'[Len(slots) + 1].pages = mapped
          BY <4>1, <4>2, SMT
        <4> QED BY <4>3
      <3>2. Viewed
        BY <1>3 DEF FilesInv
      <3> QED BY <2>1, <3>1, <3>2 DEF Viewed
    <2>5. \A u \in Threads : FileCall(call'[u], live')
      <3> TAKE u \in Threads
      <3>1. CASE u = t
        BY <1>1, <3>1, IdleFacts, NoFiles
      <3>2. CASE u # t
        <4>1. call'[u] = call[u] /\ FileCall(call[u], live) /\ Claim(call[u]) \cap mapped = {}
          BY <1>1, <1>3, <2>1, <2>2, <3>2 DEF Turn, FilesInv
        <4>2. Target(call[u]) \subseteq Claim(call[u])
          BY DEF Claim
        <4> QED BY <2>1, <4>1, <4>2 DEF FileCall
      <3> QED BY <3>1, <3>2
    <2>6. \A u \in Threads : call'[u].at \notin Before
      BY <1>1, IdleFacts DEF Turn, NobodyExecs, Execing, Before
    <2> QED BY <1>1, <1>3, <2>3, <2>4, <2>5, <2>6 DEF FilesInv, CallsNeverFault
  <1> QED BY <1>1, <1>2, <1>3 DEF Preserves

LEMMA MmapProtectStep ==
    ASSUME BooksInv, NobodyExecs, NEW t \in Threads, MmapProtect(t), SameProgram
    PROVE  Preserves
  <1>1. /\ BooksInv' /\ Turn(t) /\ Quiet /\ SameBytes /\ SameOwners /\ SameViews
        /\ call[t].at = "protect" /\ call'[t] = Idle
        /\ Holding(call[t].pages, call[t].kind) /\ faulted' = faulted
    <2>1. /\ call[t].at = "protect" /\ Back(t) /\ Holding(call[t].pages, call[t].kind)
          /\ Protect(call[t].pages, call[t].prot)
          /\ live' = live /\ slots' = slots /\ heap' = heap /\ segments' = segments /\ faulted' = faulted
      BY DEF MmapProtect, At
    <2>2. free' = free /\ epoch' = epoch /\ nextEpoch' = nextEpoch /\ bytes' = bytes /\ open \subseteq open'
      BY <2>1 DEF Protect
    <2>3. Typed /\ Committed' = Committed /\ call[t].kind \in Kinds
      BY <2>2 DEF BooksInv, Committed, Typed, CallType, Kinds
    <2>4. call'[t] = Idle /\ Turn(t)
      BY <2>1, <2>3, IdleFacts, GoOnEffect DEF Turn, Typed, Back
    <2>5. held' \in [Page -> Kinds]
      BY <2>1, <2>3 DEF Typed, Holding
    <2>6. BooksInv'
      BY <2>1, <2>2, <2>3, <2>4, <2>5, IdleFacts, BooksOfQuietStep DEF Typed, SameProgram, SizedCall
    <2> QED BY <2>1, <2>2, <2>3, <2>4, <2>6 DEF Quiet, SameBytes, SameOwners, SameViews
  <1>2. ASSUME OwnInv, Careful PROVE OwnInv'
    <2>1. /\ BooksInv' /\ Turn(t) /\ Quiet /\ SameOwners /\ call'[t] = Idle
          /\ call[t].at \in {"fill", "protect"} /\ Holding(call[t].pages, call[t].kind)
      BY <1>1
    <2> QED BY <1>2, <2>1, HandingOver
  <1>3. ASSUME OwnInv, FilesInv, SlotsSuffice PROVE FilesInv'
    <2>1. FilesMove /\ ~faulted' /\ call'[t].at \in PlainStages
      BY <1>1, <1>3, IdleFacts DEF FilesInv, CallsNeverFault, FilesMove, PlainStages, SameViews, SameOwners, Reserve
    <2> QED BY <1>1, <1>3, <2>1, PlainFiles
  <1> QED BY <1>1, <1>2, <1>3 DEF Preserves

LEMMA MunmapStep ==
    ASSUME BooksInv, NobodyExecs, NEW t \in Threads, NEW S \in CopySpans, Munmap(t, S), SameProgram
    PROVE  Preserves
  <1>1. /\ BooksInv' /\ Turn(t) /\ Quiet /\ SameBytes /\ SameOwners
        /\ S \subseteq Page /\ S # {} /\ call[t] = Idle
        /\ call'[t].at = "release" /\ call'[t].pages = S /\ call'[t].kind = "none" /\ call'[t].stale = {}
        /\ OwnRange(S) /\ ReplaceSharedMappingsIn(S) /\ Holding(S, "none") /\ faulted' = faulted
    <2> DEFINE c == [Idle EXCEPT !.at = "release", !.pages = S]
    <2>1. S \subseteq Page /\ S # {}
      BY RequestFacts
    <2>2. /\ Begin(t, c) /\ OwnRange(S) /\ ReplaceSharedMappingsIn(S) /\ Holding(S, "none")
          /\ free' = free /\ epoch' = epoch /\ nextEpoch' = nextEpoch
          /\ bytes' = bytes /\ heap' = heap /\ segments' = segments /\ faulted' = faulted
      BY DEF Munmap, books
    <2>3. c \in CallType /\ c.at = "release" /\ c.pages = S /\ c.kind = "none" /\ c.stale = {}
      BY <2>1, UnmapRecord
    <2> HIDE DEF c
    <2>4. Typed /\ Committed' = Committed
      BY <2>2 DEF BooksInv, Committed
    <2>5. call[t] = Idle /\ call'[t] = c /\ Turn(t)
      BY <2>2, <2>3, <2>4, BeginEffect DEF Turn, Typed
    <2>6. open \subseteq open' /\ slots' \in Seq(SlotType)
      BY <2>1, <2>2, <2>4, ReplaceEffect DEF Typed
    <2>7. held' \in [Page -> Kinds]
      BY <2>2, <2>4 DEF Holding, Typed, Kinds
    <2>8. BooksInv'
      BY <2>2, <2>3, <2>4, <2>5, <2>6, <2>7, BooksOfQuietStep DEF SizedCall, Typed, SameProgram
    <2> QED BY <2>1, <2>2, <2>3, <2>4, <2>5, <2>6, <2>8 DEF Quiet, SameBytes, SameOwners
  <1>2. ASSUME OwnInv, Careful PROVE OwnInv'
    <2> USE <1>2
    <2>1. BooksInv
      BY DEF OwnInv
    <2>2. /\ BooksInv' /\ Turn(t) /\ Quiet /\ SameOwners /\ S \subseteq Page
          /\ call'[t].at = "release" /\ call'[t].pages = S /\ call'[t].kind = "none" /\ call'[t].stale = {}
          /\ OwnRange(S) /\ Holding(S, "none")
      BY <1>1
    <2>3. call'[t] \in CallType
      BY <2>2 DEF Turn
    <2>4. S \cap Lands = {} /\ S \subseteq Usable /\ \A u \in Threads : Claim(call[u]) \cap S = {}
      BY <2>2, GuestsRange
    <2>5. Claim(call'[t]) = S /\ Target(call'[t]) = {}
      BY <2>2, <2>3, ClaimFacts DEF Target
    <2>6. Usable \subseteq Usable' /\ Committed' = Committed
      BY <2>2 DEF Quiet, Usable
    <2>7. \A p \in Page : held'[p] = IF p \in S THEN "none" ELSE held[p]
      BY <2>2 DEF Holding
    <2>8. StagedCall(t, call'[t], heap)
      BY <2>2 DEF StagedCall
    <2>9. UsableCall(call'[t], Committed', Usable') /\ OwnCall(call'[t], Lands)
      BY <2>2, <2>4, <2>5, <2>6 DEF UsableCall, OwnCall
    <2>10. HeldCall(call'[t], held')
      BY <2>2, <2>5, <2>7 DEF HeldCall
    <2>11. CallOK(t, call'[t], heap, Committed', Usable', held', Lands)
      BY <2>8, <2>9, <2>10 DEF CallOK
    <2>12. Spares(t, {}, S)
      BY <2>4, <2>5, <2>6, <2>7 DEF Spares
    <2>13. OffLands({}, S)
      BY <2>4, <2>7 DEF OffLands
    <2>14. call'[t].at \in CallStages
      BY <2>2 DEF CallStages
    <2> QED BY <2>2, <2>11, <2>12, <2>13, <2>14, OrdinaryStep
  <1>3. ASSUME OwnInv, FilesInv, SlotsSuffice PROVE FilesInv'
    <2>1. FewerViews
      BY <1>1, <1>3, ReplacedViews DEF SameOwners
    <2>2. FileCall(call'[t], live')
      BY <1>1, NoFiles
    <2>3. ~faulted' /\ call'[t].at \in CallStages
      BY <1>1, <1>3 DEF FilesInv, CallsNeverFault, CallStages
    <2> QED BY <1>1, <1>3, <2>1, <2>2, <2>3, FilesCall
  <1> QED BY <1>1, <1>2, <1>3 DEF Preserves

LEMMA ReleasePagesStep ==
    ASSUME BooksInv, NobodyExecs, NEW t \in Threads, ReleasePages(t), SameProgram
    PROVE  Preserves
  <1>1. /\ BooksInv' /\ Turn(t) /\ Gave(call[t].pages) /\ SameOwners
        /\ call[t].at = "release" /\ call'[t] = Idle
        /\ held' = held /\ slots' = slots /\ faulted' = faulted
    <2> DEFINE S == call[t].pages
    <2>1. /\ call[t].at = "release" /\ Release(S, "ok") /\ Fresh(Vacated(S)) /\ Back(t)
          /\ held' = held /\ slots' = slots /\ heap' = heap /\ segments' = segments /\ faulted' = faulted
      BY DEF ReleasePages, At
    <2>2. Typed /\ Booked /\ S \subseteq Page
      BY DEF BooksInv, Typed, CallType
    <2> HIDE DEF S
    <2>3. call'[t] = Idle /\ Turn(t)
      BY <2>1, <2>2, IdleFacts, GoOnEffect DEF Turn, Typed, Back
    <2>4. Booked' /\ Gave(S) /\ nextEpoch' = nextEpoch
      BY <2>1, <2>2, BookedRelease DEF Typed
    <2>5. free' \subseteq Page /\ bytes' \in [Page -> {"zero", "data"}]
      BY <2>2, <2>4, VacatedFacts DEF Gave, Typed
    <2>6. Typed'
      BY <2>1, <2>2, <2>3, <2>4, <2>5 DEF Typed, Turn, SameProgram
    <2>7. \A u \in Threads : SizedCall(call[u])'
      BY <2>3, IdleFacts DEF BooksInv, Turn, SizedCall
    <2> QED BY <2>1, <2>3, <2>4, <2>6, <2>7 DEF BooksInv, S, SameOwners
  <1>2. ASSUME OwnInv, Careful PROVE OwnInv'
    <2> USE <1>2
    <2> DEFINE S == call[t].pages
    <2>1. BooksInv
      BY DEF OwnInv
    <2>2. BooksInv' /\ Turn(t) /\ Gave(S) /\ SameOwners /\ call[t].at = "release" /\ call'[t] = Idle /\ held' = held
      BY <1>1
    <2>3. /\ S \subseteq Claim(call[t]) /\ HeldCall(call[t], held) /\ OwnCall(call[t], Lands)
          /\ \A u \in Threads : u # t => Claim(call[u]) \cap Claim(call[t]) = {}
      BY CallFacts
    <2> HIDE DEF S
    <2>4. S \subseteq Page /\ Committed' = Committed \ S /\ open' = open \ Vacated(S)
      BY <2>2 DEF Gave
    <2>5. Vacated(S) \cap Committed \subseteq S
      BY <2>4, VacatedFacts
    <2>6. Usable \ S \subseteq Usable' /\ Committed \ S \subseteq Committed'
      BY <2>4, <2>5 DEF Usable
    <2>7. S \cap Lands = {} /\ \A p \in S : held[p] = "none"
      BY <2>2, <2>3 DEF OwnCall, HeldCall
    <2>8. CallOK(t, call'[t], heap, Committed', Usable', held', Lands) /\ Claim(call'[t]) = {}
      BY <2>2, IdleIsOK
    <2>9. call'[t].at \in CallStages
      BY <2>2, IdleFacts DEF CallStages
    <2>10. Spares(t, S, {})
      BY <2>2, <2>3, <2>6, <2>8 DEF Spares
    <2>11. OffLands(S, {})
      BY <2>2, <2>7 DEF OffLands
    <2> QED BY <2>2, <2>8, <2>9, <2>10, <2>11, OrdinaryStep
  <1>3. ASSUME OwnInv, FilesInv, SlotsSuffice PROVE FilesInv'
    <2>1. FilesMove /\ ~faulted' /\ call'[t].at \in PlainStages
      BY <1>1, <1>3, IdleFacts DEF FilesInv, CallsNeverFault, FilesMove, PlainStages, SameViews, SameOwners, Reserve
    <2> QED BY <1>1, <1>3, <2>1, PlainFiles
  <1> QED BY <1>1, <1>2, <1>3 DEF Preserves

LEMMA MprotectStep ==
    ASSUME BooksInv, NobodyExecs, NEW t \in Threads, NEW S, NEW pr, Mprotect(t, S, pr), SameProgram
    PROVE  Preserves
  <1>1. /\ BooksInv' /\ Turn(t) /\ Quiet /\ SameBytes /\ SameViews /\ SameOwners
        /\ call[t] = Idle /\ call'[t] = Idle /\ held' = held /\ faulted' = faulted
    <2>1. /\ Begin(t, Idle) /\ Protect(S, pr) /\ held' = held /\ faulted' = faulted
          /\ live' = live /\ slots' = slots /\ heap' = heap /\ segments' = segments
      BY DEF Mprotect
    <2>2. /\ free' = free /\ epoch' = epoch /\ nextEpoch' = nextEpoch /\ bytes' = bytes /\ open \subseteq open'
      BY <2>1 DEF Protect
    <2>3. Typed /\ Committed' = Committed
      BY <2>2 DEF BooksInv, Committed
    <2>4. call[t] = Idle /\ call'[t] = Idle /\ Turn(t)
      BY <2>1, <2>3, IdleFacts, BeginEffect DEF Turn, Typed
    <2>5. BooksInv'
      BY <2>1, <2>2, <2>3, <2>4, IdleFacts, BooksOfQuietStep DEF SizedCall, Typed, SameProgram
    <2> QED BY <2>1, <2>2, <2>3, <2>4, <2>5 DEF Quiet, SameBytes, SameOwners, SameViews
  <1>2. ASSUME OwnInv, Careful PROVE OwnInv'
    <2> USE <1>2
    <2>1. BooksInv
      BY DEF OwnInv
    <2>2. BooksInv' /\ Turn(t) /\ Quiet /\ SameOwners /\ call'[t] = Idle /\ held' = held
      BY <1>1
    <2>3. CallOK(t, call'[t], heap, Committed', Usable', held', Lands) /\ Claim(call'[t]) = {}
      BY <2>2, IdleIsOK
    <2>4. call'[t].at \in CallStages
      BY <2>2, IdleFacts DEF CallStages
    <2>5. Claim(call'[t]) \subseteq Claim(call[t])
      BY <2>3
    <2> QED BY <2>2, <2>3, <2>4, <2>5, QuietStep
  <1>3. ASSUME OwnInv, FilesInv, SlotsSuffice PROVE FilesInv'
    <2>1. FilesMove /\ ~faulted' /\ call'[t].at \in PlainStages
      BY <1>1, <1>3, IdleFacts DEF FilesInv, CallsNeverFault, FilesMove, PlainStages, SameViews, SameOwners, Reserve
    <2> QED BY <1>1, <1>3, <2>1, PlainFiles
  <1> QED BY <1>1, <1>2, <1>3 DEF Preserves

LEMMA MremapStep ==
    ASSUME BooksInv, NobodyExecs, NEW t \in Threads, NEW S \in CopySpans, NEW n \in Sizes, Mremap(t, S, n), SameProgram
    PROVE  Preserves
  <1>1. /\ BooksInv' /\ Turn(t) /\ Quiet /\ SameBytes /\ SameViews /\ SameOwners
        /\ S \subseteq Page /\ S # {} /\ call[t] = Idle /\ n > Cardinality(S)
        /\ call'[t].at = "move" /\ call'[t].pages = S /\ call'[t].n = n
        /\ call'[t].kind = "none" /\ call'[t].stale = {}
        /\ OwnRange(S) /\ held' = held /\ faulted' = faulted
    <2> DEFINE c == [Idle EXCEPT !.at = "move", !.pages = S, !.n = n]
    <2>1. S \subseteq Page /\ S # {} /\ n \in Nat /\ n # 0
      BY RequestFacts
    <2>2. /\ Begin(t, c) /\ OwnRange(S) /\ n > Cardinality(S) /\ held' = held /\ faulted' = faulted
          /\ free' = free /\ epoch' = epoch /\ nextEpoch' = nextEpoch /\ open' = open
          /\ bytes' = bytes /\ heap' = heap /\ segments' = segments /\ live' = live /\ slots' = slots
      BY DEF Mremap, arena, books
    <2>3. c \in CallType /\ c.at = "move" /\ c.pages = S /\ c.n = n /\ c.kind = "none" /\ c.stale = {}
      <3>1. c = [Idle EXCEPT !.at = "move", !.pages = S, !.n = n]
        OBVIOUS
      <3> HIDE DEF c
      <3> QED BY <2>1, <3>1, IdleFacts DEF CallType, CallStages
    <2> HIDE DEF c
    <2>4. Typed /\ Committed' = Committed
      BY <2>2 DEF BooksInv, Committed
    <2>5. call[t] = Idle /\ call'[t] = c /\ Turn(t)
      BY <2>2, <2>3, <2>4, BeginEffect DEF Turn, Typed
    <2>6. BooksInv'
      BY <2>1, <2>2, <2>3, <2>4, <2>5, BooksOfQuietStep DEF SizedCall, Typed, SameProgram
    <2> QED BY <2>1, <2>2, <2>3, <2>4, <2>5, <2>6 DEF Quiet, SameBytes, SameOwners, SameViews
  <1>2. ASSUME OwnInv, Careful PROVE OwnInv'
    <2> USE <1>2
    <2>1. BooksInv
      BY DEF OwnInv
    <2>2. /\ BooksInv' /\ Turn(t) /\ Quiet /\ SameOwners /\ S \subseteq Page
          /\ call'[t].at = "move" /\ call'[t].pages = S /\ call'[t].kind = "none" /\ call'[t].stale = {}
          /\ OwnRange(S) /\ held' = held
      BY <1>1
    <2>3. call'[t] \in CallType
      BY <2>2 DEF Turn
    <2>4. /\ S \cap Lands = {} /\ \A u \in Threads : Claim(call[u]) \cap S = {}
          /\ S \subseteq Usable /\ \A p \in S : held[p] \in Mapped
      BY <2>2, GuestsRange
    <2>5. Claim(call'[t]) = S /\ Target(call'[t]) = {}
      BY <2>2, <2>3, ClaimFacts DEF Target
    <2>6. Usable \subseteq Usable' /\ Committed' = Committed
      BY <2>2 DEF Quiet, Usable
    <2>7. StagedCall(t, call'[t], heap)
      BY <2>2 DEF StagedCall
    <2>8. UsableCall(call'[t], Committed', Usable') /\ HeldCall(call'[t], held') /\ OwnCall(call'[t], Lands)
      BY <2>2, <2>4, <2>5, <2>6 DEF UsableCall, HeldCall, OwnCall
    <2>9. CallOK(t, call'[t], heap, Committed', Usable', held', Lands)
      BY <2>7, <2>8 DEF CallOK
    <2>10. Spares(t, {}, {})
      BY <2>2, <2>4, <2>5, <2>6 DEF Spares
    <2>11. OffLands({}, {})
      BY DEF OffLands
    <2>12. call'[t].at \in CallStages
      BY <2>2 DEF CallStages
    <2> QED BY <2>2, <2>9, <2>10, <2>11, <2>12, OrdinaryStep
  <1>3. ASSUME OwnInv, FilesInv, SlotsSuffice PROVE FilesInv'
    <2>1. FilesMove /\ ~faulted' /\ call'[t].at \in PlainStages
      BY <1>1, <1>3, IdleFacts DEF FilesInv, CallsNeverFault, FilesMove, PlainStages, SameViews, SameOwners, Reserve
    <2> QED BY <1>1, <1>3, <2>1, PlainFiles
  <1> QED BY <1>1, <1>2, <1>3 DEF Preserves

LEMMA MremapAllocateStep ==
    ASSUME BooksInv, NobodyExecs, NEW t \in Threads, MremapAllocate(t), SameProgram
    PROVE  Preserves
  <1>1. /\ BooksInv' /\ Turn(t) /\ SameOwners
        /\ call[t].at = "move"
        /\ \/ call'[t] = Idle /\ Quiet /\ SameBytes /\ live' = live
           \/ \E S : /\ Took(S) /\ S \cap Placed = {}
                     /\ call'[t].at = "copy" /\ call'[t].pages = call[t].pages
                     /\ call'[t].kind = call[t].kind /\ call'[t].stale = call[t].stale /\ call'[t].n = call[t].n
                     /\ call'[t].from \in Nat /\ call'[t].limit = call'[t].from + call[t].n
                     /\ call'[t].from..(call'[t].limit - 1) \subseteq S
        /\ held' = held /\ slots' = slots /\ faulted' = faulted
    <2> DEFINE c == call[t]
               len == AlignUp(c.n)
    <2>1. /\ c.at = "move" /\ held' = held /\ slots' = slots /\ heap' = heap /\ segments' = segments /\ faulted' = faulted
      BY DEF MremapAllocate, At
    <2>2. /\ Typed /\ Booked /\ c \in CallType /\ c.n \in Nat /\ c.n # 0
      BY <2>1 DEF BooksInv, Typed, CallType, SizedCall
    <2>3. CASE Back(t) /\ UNCHANGED <<arena, live>>
      <3>1. free' = free /\ epoch' = epoch /\ nextEpoch' = nextEpoch /\ bytes' = bytes /\ open' = open /\ live' = live
        BY <2>3 DEF arena, books
      <3>2. call'[t] = Idle /\ Turn(t)
        BY <2>2, <2>3, IdleFacts, GoOnEffect DEF Turn, Typed, Back
      <3>3. Committed' = Committed
        BY <3>1 DEF Committed
      <3>4. BooksInv'
        BY <2>1, <2>2, <3>1, <3>2, <3>3, IdleFacts, BooksOfQuietStep DEF SizedCall, Typed, SameProgram
      <3> QED BY <2>1, <3>1, <3>2, <3>3, <3>4 DEF Quiet, SameBytes, SameOwners
    <2>4. CASE \E s \in Room(c.n, NoHint) :
                  /\ CommitFree(s..(s + len - 1), {"R", "W"}, "ok")
                  /\ Fresh(s..(s + len - 1))
                  /\ GoOn(t, [c EXCEPT !.at = "copy", !.from = s, !.limit = s + c.n])
      <3>1. PICK s \in Room(c.n, NoHint) :
                  /\ CommitFree(s..(s + len - 1), {"R", "W"}, "ok")
                  /\ Fresh(s..(s + len - 1))
                  /\ GoOn(t, [c EXCEPT !.at = "copy", !.from = s, !.limit = s + c.n])
        BY <2>4
      <3> DEFINE S == s..(s + len - 1)
                 m == s + c.n
                 r == [c EXCEPT !.at = "copy", !.from = s, !.limit = m]
      <3>2. s \in Placement(len, NoHint) /\ S \cap Placed = {}
        BY DEF Room
      <3>3. /\ Booked' /\ Took(S) /\ nextEpoch' \in Nat \ {0} /\ s..(m - 1) \subseteq S
            /\ s \in Nat /\ m <= NPages
        <4>1. c.n \in Nat \ {0} /\ free \subseteq Page /\ nextEpoch \in Nat \ {0} /\ NoHint \in {NoHint} \cup Nat
          BY <2>2 DEF Typed
        <4> DEFINE n == c.n
                   hint == NoHint
        <4>2. /\ n \in Nat \ {0} /\ hint \in {NoHint} \cup Nat /\ s \in Placement(AlignUp(n), hint)
              /\ CommitFree(s..(s + AlignUp(n) - 1), {"R", "W"}, "ok") /\ Fresh(s..(s + AlignUp(n) - 1))
          BY <3>1, <3>2, <4>1
        <4> HIDE DEF n, hint
        <4>3. /\ Booked' /\ Took(s..(s + AlignUp(n) - 1)) /\ nextEpoch' \in Nat \ {0}
              /\ s \in Nat /\ s + n <= NPages /\ s..(s + n - 1) \subseteq s..(s + AlignUp(n) - 1)
          BY <2>2, <4>1, <4>2, BookedBlock
        <4>4. n = c.n /\ m = s + n
          BY DEF n
        <4>5. s + n - 1 = m - 1
          <5> HIDE DEF m
          <5> QED BY <4>2, <4>3, <4>4, SMT
        <4> HIDE DEF m
        <4> QED BY <4>3, <4>4, <4>5
      <3>4. m \in Ends
        <4> HIDE DEF c
        <4> QED BY <2>2, <3>3, SMT DEF Ends
      <3>5. GoOn(t, r) /\ m = s + c.n
        BY <3>1
      <3> HIDE DEF m, S
      <3>6. /\ r \in CallType /\ r.at = "copy" /\ r.pages = c.pages /\ r.kind = c.kind /\ r.stale = c.stale
            /\ r.n = c.n /\ r.from = s /\ r.limit = m
        <4> HIDE DEF c
        <4> QED BY <2>2, <3>3, <3>4 DEF CallType, CallStages
      <3> HIDE DEF r
      <3>7. call'[t] = r /\ Turn(t)
        BY <2>2, <3>5, <3>6, GoOnEffect DEF Turn, Typed
      <3>8. Typed'
        BY <2>1, <2>2, <3>3, <3>7 DEF Typed, Turn, SameProgram, Took
      <3>9. \A u \in Threads : SizedCall(call[u])'
        BY <3>6, <3>7 DEF BooksInv, Turn, SizedCall
      <3> QED BY <2>1, <3>2, <3>3, <3>5, <3>6, <3>7, <3>8, <3>9 DEF BooksInv, SameOwners
    <2> QED BY <2>3, <2>4 DEF MremapAllocate
  <1>2. ASSUME OwnInv, Careful PROVE OwnInv'
    <2> USE <1>2
    <2>1. BooksInv
      BY DEF OwnInv
    <2>2. /\ BooksInv' /\ Turn(t) /\ SameOwners /\ call[t].at = "move" /\ held' = held
          /\ \/ call'[t] = Idle /\ Quiet
             \/ \E S : /\ Took(S) /\ S \cap Placed = {}
                       /\ call'[t].at = "copy" /\ call'[t].pages = call[t].pages
                       /\ call'[t].kind = call[t].kind /\ call'[t].stale = call[t].stale
                       /\ call'[t].from..(call'[t].limit - 1) \subseteq S
      BY <1>1
    <2>3. CASE call'[t] = Idle /\ Quiet
      <3>1. CallOK(t, call'[t], heap, Committed', Usable', held', Lands) /\ Claim(call'[t]) = {}
        BY <2>3, IdleIsOK
      <3>2. call'[t].at \in CallStages /\ Claim(call'[t]) \subseteq Claim(call[t])
        BY <2>3, <3>1, IdleFacts DEF CallStages
      <3> QED BY <2>2, <2>3, <3>1, <3>2, QuietStep
    <2>4. ASSUME NEW S, Took(S), S \cap Placed = {}, call'[t].at = "copy", call'[t].pages = call[t].pages,
                 call'[t].kind = call[t].kind, call'[t].stale = call[t].stale,
                 call'[t].from..(call'[t].limit - 1) \subseteq S
          PROVE  OwnInv'
      <3>1. /\ S \subseteq free /\ Committed' = Committed \cup S /\ open' = open \cup S
        BY <2>4 DEF Took
      <3>2. S \cap Committed = {} /\ S \subseteq Page
        BY <2>1, <3>1 DEF BooksInv, Booked, FreeIsUncommitted, Typed
      <3>3. S \cap Lands = {} /\ \A p \in S : held[p] = "none"
        BY <3>2, FreshIsNobodys
      <3>4. /\ StagedCall(t, call[t], heap) /\ UsableCall(call[t], Committed, Usable)
            /\ HeldCall(call[t], held) /\ OwnCall(call[t], Lands)
        BY CallFacts
      <3>5. call[t].kind = "none"
        BY <2>2, <3>4 DEF StagedCall
      <3>6. Target(call'[t]) \subseteq S /\ Claim(call'[t]) = call[t].pages \cup Target(call'[t])
        BY <2>4, <3>5 DEF Claim, Target
      <3>7. Claim(call[t]) = call[t].pages
        BY <2>2, <3>5 DEF Claim, Target
      <3>8. StagedCall(t, call'[t], heap)
        BY <2>2, <2>4, <3>4 DEF StagedCall
      <3>9. S \subseteq Usable' /\ Usable \subseteq Usable'
        BY <3>1 DEF Usable
      <3>10. UsableCall(call'[t], Committed', Usable')
        BY <2>2, <2>4, <3>4, <3>6, <3>7, <3>9 DEF UsableCall
      <3>11. HeldCall(call'[t], held')
        BY <2>2, <2>4, <3>3, <3>4, <3>6 DEF HeldCall
      <3>12. OwnCall(call'[t], Lands)
        BY <2>4, <3>3, <3>4, <3>6, <3>7 DEF OwnCall
      <3>13. CallOK(t, call'[t], heap, Committed', Usable', held', Lands)
        BY <3>8, <3>10, <3>11, <3>12 DEF CallOK
      <3>14. call'[t].at \in CallStages
        BY <2>4 DEF CallStages
      <3>15. Claim(call'[t]) \subseteq Claim(call[t]) \cup S
        BY <3>6, <3>7
      <3> QED BY <2>2, <2>4, <3>13, <3>14, <3>15, TakingStep
    <2> QED BY <2>2, <2>3, <2>4
  <1>3. ASSUME OwnInv, FilesInv, SlotsSuffice PROVE FilesInv'
    <2>1. CASE call'[t] = Idle /\ Quiet /\ live' = live
      <3>1. FilesMove /\ ~faulted' /\ call'[t].at \in PlainStages
        BY <1>1, <1>3, <2>1, IdleFacts DEF FilesInv, CallsNeverFault, FilesMove, PlainStages, SameOwners, Reserve
      <3> QED BY <1>1, <1>3, <3>1, PlainFiles
    <2>2. ASSUME NEW S, Took(S), call'[t].at = "copy", call'[t].from..(call'[t].limit - 1) \subseteq S
          PROVE  FilesInv'
      <3>1. Target(call'[t]) \subseteq S /\ live' = live \ S
        BY <2>2 DEF Took, Target
      <3>2. FileCall(call'[t], live') /\ ~faulted' /\ call'[t].at \in CallStages
        BY <1>1, <1>3, <2>2, <3>1 DEF FileCall, FilesInv, CallsNeverFault, CallStages
      <3>3. FewerViews
        BY <1>1, <1>3, <2>2, FewerByMove DEF FilesMove, SameOwners, Reserve
      <3> QED BY <1>1, <1>3, <3>2, <3>3, FilesCall
    <2> QED BY <1>1, <2>1, <2>2
  <1> QED BY <1>1, <1>2, <1>3 DEF Preserves

LEMMA MremapCopyStep ==
    ASSUME BooksInv, NobodyExecs, NEW t \in Threads, MremapCopy(t), SameProgram
    PROVE  Preserves
  <1>1. LET to == call[t].from..(call[t].limit - 1) IN
        /\ BooksInv' /\ Turn(t) /\ Quiet /\ SameOwners /\ SameViews
        /\ call[t].at = "copy" /\ call'[t].at = "release" /\ call'[t].pages = call[t].pages
        /\ call'[t].kind = call[t].kind /\ call'[t].stale = call[t].stale
        /\ bytes' = [p \in Page |-> IF p \notin to THEN bytes[p]
                         ELSE IF \E q \in call[t].pages : MovedTo(call[t], q) = p /\ bytes[q] = "data"
                              THEN "data" ELSE "zero"]
        /\ held' = [p \in Page |-> IF p \in to THEN "moved" ELSE IF p \in call[t].pages THEN "none" ELSE held[p]]
        /\ (faulted' <=> faulted \/ to \cap live # {})
    <2> DEFINE to == call[t].from..(call[t].limit - 1)
               c == [call[t] EXCEPT !.at = "release", !.n = 0, !.from = 0, !.limit = 0]
    <2>1. /\ call[t].at = "copy" /\ GoOn(t, c) /\ Writes(to)
          /\ bytes' = [p \in Page |-> IF p \notin to THEN bytes[p]
                              ELSE IF \E q \in call[t].pages : MovedTo(call[t], q) = p /\ bytes[q] = "data"
                                   THEN "data" ELSE "zero"]
          /\ held' = [p \in Page |-> IF p \in to THEN "moved" ELSE IF p \in call[t].pages THEN "none" ELSE held[p]]
          /\ open' = open /\ live' = live /\ slots' = slots
          /\ free' = free /\ epoch' = epoch /\ nextEpoch' = nextEpoch
          /\ heap' = heap /\ segments' = segments
      BY DEF MremapCopy, At, books
    <2>2. Typed /\ Committed' = Committed /\ call[t] \in CallType
      BY <2>1 DEF BooksInv, Committed, Typed
    <2>3. c \in CallType /\ c.at = "release" /\ c.pages = call[t].pages /\ c.kind = call[t].kind /\ c.stale = call[t].stale
      BY <2>2, MovedRecord
    <2> HIDE DEF c, to
    <2>4. call'[t] = c /\ Turn(t)
      BY <2>1, <2>2, <2>3, GoOnEffect DEF Turn, Typed
    <2>5. bytes' \in [Page -> {"zero", "data"}]
      BY <2>1, <2>2 DEF Typed
    <2>6. held' \in [Page -> Kinds]
      BY <2>1, <2>2 DEF Typed, Kinds
    <2>7. BooksInv'
      BY <2>1, <2>2, <2>3, <2>4, <2>5, <2>6, BooksOfQuietStep DEF Typed, SameProgram, SizedCall
    <2> QED BY <2>1, <2>2, <2>3, <2>4, <2>7 DEF Quiet, SameOwners, SameViews, Writes, to
  <1>2. ASSUME OwnInv, Careful PROVE OwnInv'
    <2> USE <1>2
    <2> DEFINE S == call[t].pages
               to == call[t].from..(call[t].limit - 1)
    <2>1. BooksInv
      BY DEF OwnInv
    <2>2. /\ BooksInv' /\ Turn(t) /\ Quiet /\ SameOwners
          /\ call[t].at = "copy" /\ call'[t].at = "release" /\ call'[t].pages = S
          /\ call'[t].kind = call[t].kind /\ call'[t].stale = call[t].stale
          /\ held' = [p \in Page |-> IF p \in to THEN "moved" ELSE IF p \in S THEN "none" ELSE held[p]]
      BY <1>1
    <2>3. /\ StagedCall(t, call[t], heap) /\ UsableCall(call[t], Committed, Usable)
          /\ HeldCall(call[t], held) /\ OwnCall(call[t], Lands) /\ Claim(call[t]) \subseteq Page
          /\ \A u \in Threads : u # t => Claim(call[u]) \cap Claim(call[t]) = {}
      BY CallFacts
    <2>4. call[t].kind = "none" /\ call[t].stale \subseteq S
      BY <2>2, <2>3 DEF StagedCall
    <2>5. Target(call[t]) = to /\ Claim(call[t]) = S \cup to
      BY <2>2, <2>4 DEF Claim, Target
    <2>6. Claim(call'[t]) = S /\ Target(call'[t]) = {}
      BY <2>2, <2>4 DEF Claim, Target
    <2> HIDE DEF S, to
    <2>7. S \cap to = {}
      <3>1. \A p \in S : held[p] \in Mapped
        BY <2>2, <2>3 DEF HeldCall, S
      <3>2. \A p \in to : held[p] = "none"
        BY <2>3, <2>5 DEF HeldCall
      <3> QED BY <3>1, <3>2 DEF Mapped
    <2>8. \A p \in Page : held'[p] = IF p \in to THEN "moved" ELSE IF p \in S THEN "none" ELSE held[p]
      BY <2>2
    <2>9. Usable \subseteq Usable' /\ Committed' = Committed
      BY <2>2 DEF Quiet, Usable
    <2>10. S \cup to \subseteq Usable /\ (S \cup to) \cap Lands = {} /\ S \cup to \subseteq Page
      BY <2>2, <2>3, <2>5 DEF UsableCall, OwnCall
    <2>11. StagedCall(t, call'[t], heap)
      BY <2>2, <2>4 DEF StagedCall
    <2>12. UsableCall(call'[t], Committed', Usable') /\ OwnCall(call'[t], Lands)
      BY <2>2, <2>6, <2>9, <2>10 DEF UsableCall, OwnCall
    <2>13. HeldCall(call'[t], held')
      BY <2>2, <2>6, <2>7, <2>8, <2>10 DEF HeldCall
    <2>14. CallOK(t, call'[t], heap, Committed', Usable', held', Lands)
      BY <2>11, <2>12, <2>13 DEF CallOK
    <2>15. call'[t].at \in CallStages
      BY <2>2 DEF CallStages
    <2>16. Spares(t, {}, S \cup to)
      <3>1. \A u \in Threads : u # t => Claim(call'[t]) \cap Claim(call[u]) = {}
        BY <2>3, <2>5, <2>6
      <3>2. \A u \in Threads : u # t => Claim(call[u]) \cap (S \cup to) = {}
        BY <2>3, <2>5
      <3>3. \A p \in Page : p \notin S \cup to => held'[p] = held[p]
        BY <2>8
      <3> QED BY <2>9, <3>1, <3>2, <3>3 DEF Spares
    <2>17. OffLands({}, S \cup to)
      BY <2>8, <2>9, <2>10 DEF OffLands, Mapped
    <2> QED BY <2>2, <2>14, <2>15, <2>16, <2>17, OrdinaryStep
  <1>3. ASSUME OwnInv, FilesInv, SlotsSuffice PROVE FilesInv'
    <2>1. call[t].from..(call[t].limit - 1) \cap live = {}
      BY <1>1, <1>3 DEF FilesInv, FileCall, Target
    <2>2. FilesMove /\ ~faulted' /\ call'[t].at \in PlainStages
      BY <1>1, <1>3, <2>1 DEF FilesInv, CallsNeverFault, FilesMove, PlainStages, SameViews, SameOwners, Reserve
    <2> QED BY <1>1, <1>3, <2>2, PlainFiles
  <1> QED BY <1>1, <1>2, <1>3 DEF Preserves

LEMMA BrkStep ==
    ASSUME BooksInv, NobodyExecs, NEW t \in Threads, NEW n \in 0..HeapPages, Brk(t, n), SameProgram
    PROVE  Preserves
  <1>1. /\ BooksInv' /\ Turn(t) /\ Quiet /\ SameBytes /\ SameViews /\ SameOwners
        /\ t \in HeapThreads /\ call[t] = Idle
        /\ call'[t].at = "brk" /\ call'[t].pages = {} /\ call'[t].from = heap.break
        /\ heap.base <= call'[t].n /\ call'[t].n <= heap.limit
        /\ call'[t].kind = "none" /\ call'[t].stale = {}
        /\ held' = held /\ faulted' = faulted
    <2> DEFINE m == heap.base + n
               c == [Idle EXCEPT !.at = "brk", !.n = m, !.from = heap.break]
    <2>1. Typed /\ heap.base \in Nat /\ heap.break \in Nat
      BY DEF BooksInv, Typed, HeapType
    <2>2. m \in Nat /\ heap.base <= m
      BY <2>1, PageFacts, SMT
    <2>3. /\ Begin(t, c) /\ t \in HeapThreads /\ m <= heap.limit /\ held' = held /\ faulted' = faulted
          /\ free' = free /\ epoch' = epoch /\ nextEpoch' = nextEpoch /\ open' = open
          /\ bytes' = bytes /\ heap' = heap /\ segments' = segments /\ live' = live /\ slots' = slots
      BY DEF Brk, arena, books
    <2> HIDE DEF m
    <2>4. c \in CallType /\ c.at = "brk" /\ c.pages = {} /\ c.n = m /\ c.kind = "none" /\ c.stale = {} /\ c.from = heap.break
      <3>1. c = [Idle EXCEPT !.at = "brk", !.n = m, !.from = heap.break]
        OBVIOUS
      <3> HIDE DEF c
      <3> QED BY <2>1, <2>2, <3>1, IdleFacts DEF CallType, CallStages
    <2> HIDE DEF c
    <2>5. Committed' = Committed
      BY <2>3 DEF Committed
    <2>6. call[t] = Idle /\ call'[t] = c /\ Turn(t)
      BY <2>1, <2>3, <2>4, BeginEffect DEF Turn, Typed
    <2>7. BooksInv'
      BY <2>1, <2>3, <2>4, <2>5, <2>6, BooksOfQuietStep DEF SizedCall, Typed, SameProgram
    <2> QED BY <2>2, <2>3, <2>4, <2>5, <2>6, <2>7 DEF Quiet, SameBytes, SameOwners, SameViews
  <1>2. ASSUME OwnInv, Careful PROVE OwnInv'
    <2> USE <1>2
    <2>1. BooksInv
      BY DEF OwnInv
    <2>2. /\ BooksInv' /\ Turn(t) /\ Quiet /\ SameOwners /\ held' = held
          /\ t \in HeapThreads
          /\ call'[t].at = "brk" /\ call'[t].pages = {} /\ call'[t].from = heap.break
          /\ heap.base <= call'[t].n /\ call'[t].n <= heap.limit
          /\ call'[t].kind = "none" /\ call'[t].stale = {}
      BY <1>1
    <2>3. call'[t] \in CallType
      BY <2>2 DEF Turn
    <2>4. StagedCall(t, call'[t], heap)
      BY <2>2 DEF StagedCall
    <2>5. CallOK(t, call'[t], heap, Committed', Usable', held', Lands) /\ Claim(call'[t]) = {}
      BY <2>2, <2>3, <2>4, NoClaim
    <2>6. call'[t].at \in CallStages
      BY <2>2 DEF CallStages
    <2>7. Claim(call'[t]) \subseteq Claim(call[t])
      BY <2>5
    <2> QED BY <2>2, <2>5, <2>6, <2>7, QuietStep
  <1>3. ASSUME OwnInv, FilesInv, SlotsSuffice PROVE FilesInv'
    <2>1. FilesMove /\ ~faulted' /\ call'[t].at \in PlainStages
      BY <1>1, <1>3, IdleFacts DEF FilesInv, CallsNeverFault, FilesMove, PlainStages, SameViews, SameOwners, Reserve
    <2> QED BY <1>1, <1>3, <2>1, PlainFiles
  <1> QED BY <1>1, <1>2, <1>3 DEF Preserves

LEMMA StoreHeldStep ==
    ASSUME BooksInv, NobodyExecs, NEW p \in StorePages, StoreHeld(p), SameProgram
    PROVE  Preserves
  <1>1. /\ BooksInv' /\ Quiet /\ SameOwners /\ SameViews /\ held' = held /\ call' = call /\ faulted' = faulted
        /\ p \in Page /\ held[p] # "none" /\ bytes' = [bytes EXCEPT ![p] = "data"]
        /\ \A t \in Threads : p \notin call[t].pages
    <2>1. /\ held[p] # "none" /\ p \notin Busy /\ bytes' = [bytes EXCEPT ![p] = "data"] /\ p \in Page
          /\ free' = free /\ epoch' = epoch /\ nextEpoch' = nextEpoch /\ open' = open
      BY DEF StoreHeld, GuestStore, books, Committed
    <2>2. /\ held' = held /\ live' = live /\ slots' = slots /\ heap' = heap /\ segments' = segments /\ call' = call
          /\ faulted' = faulted
      BY DEF StoreHeld, callVars
    <2>3. Typed /\ Committed' = Committed /\ Booked
      BY <2>1 DEF BooksInv, Committed
    <2>4. Booked'
      BY <2>1, <2>3, BookedQuiet
    <2>5. bytes' \in [Page -> {"zero", "data"}]
      BY <2>1, <2>3 DEF Typed
    <2>6. Typed'
      BY <2>1, <2>2, <2>3, <2>5 DEF Typed, SameProgram
    <2>7. \A t \in Threads : p \notin call[t].pages
      BY <2>1 DEF Busy
    <2> QED BY <2>1, <2>2, <2>3, <2>4, <2>6, <2>7 DEF BooksInv, Quiet, SameOwners, SameViews
  <1>2. ASSUME OwnInv, Careful PROVE OwnInv'
    <2> USE <1>2
    <2>0. BooksInv /\ CallsInv /\ LandsInv /\ ExecsInv
      BY DEF OwnInv
    <2>1. BooksInv' /\ Quiet /\ SameOwners /\ held' = held /\ call' = call
      BY <1>1
    <2>2. /\ heap' = heap /\ segments' = segments /\ program' = program /\ loading' = loading
          /\ Committed' = Committed /\ Usable \subseteq Usable'
      BY <2>1 DEF SameOwners, SameProgram, Quiet, Usable
    <2>3. Reserve' = Reserve /\ KeptPages' = KeptPages
      BY <2>2 DEF Reserve, KeptPages, IsKept
    <2>4. Lands' = Lands
      BY <2>2, <2>3 DEF Lands
    <2>5. HeldIsUsable'
      BY <2>0, <2>1, <2>2 DEF LandsInv, HeldIsUsable, Usable
    <2>6. Lands' \subseteq Usable'
      BY <2>0, <2>2, <2>4 DEF LandsInv
    <2>7. LandsInv'
      BY <2>0, <2>1, <2>2, <2>3, <2>5, <2>6 DEF LandsInv
    <2>8. ASSUME NEW t \in Threads PROVE CallOK(t, call[t], heap, Committed, Usable', held, Lands)
      <3>1. /\ StagedCall(t, call[t], heap) /\ UsableCall(call[t], Committed, Usable)
            /\ HeldCall(call[t], held) /\ OwnCall(call[t], Lands)
        BY CallFacts
      <3>2. UsableCall(call[t], Committed, Usable')
        BY <2>2, <3>1 DEF UsableCall
      <3> QED BY <3>1, <3>2 DEF CallOK
    <2>9. CallsInv'
      BY <2>0, <2>1, <2>2, <2>4, <2>8 DEF CallsInv
    <2>10. ProgramData' = ProgramData /\ Loaded' = Loaded
      BY <2>2 DEF ProgramData, Loaded
    <2>11. ASSUME NEW t \in Threads, LoadInv(call[t]) PROVE LoadInv(call[t])'
      BY <2>1, <2>2, <2>3, <2>4, <2>10, <2>11 DEF LoadInv, Span
    <2>12. ExecsInv'
      BY <2>0, <2>1, <2>2, <2>4, <2>10, <2>11 DEF ExecsInv, NobodyExecs, Execing, Span
    <2> QED BY <2>1, <2>7, <2>9, <2>12 DEF OwnInv
  <1>3. ASSUME OwnInv, FilesInv, SlotsSuffice PROVE FilesInv'
    <2>1. Reserve' = Reserve /\ live' = live /\ slots' = slots /\ free' = free /\ loading' = loading
      BY <1>1 DEF SameOwners, SameProgram, SameViews, Quiet, Reserve
    <2> QED BY <1>1, <1>3, <2>1 DEF FilesInv, Viewed, CallsNeverFault
  <1> QED BY <1>1, <1>2, <1>3 DEF Preserves

LEMMA ShmgetStep ==
    ASSUME BooksInv, NobodyExecs, NEW t \in Threads, NEW n \in Sizes, Shmget(t, n), SameProgram
    PROVE  Preserves
  <1>1. /\ BooksInv' /\ Turn(t) /\ SameProgram /\ heap' = heap
        /\ call[t] = Idle /\ call'[t] = Idle
        /\ \E S, B : /\ Took(B) /\ B \cap Placed = {} /\ S \subseteq B /\ S # {}
                     /\ segments' = Append(segments, [pages |-> S, attached |-> 0, removed |-> FALSE])
        /\ held' = held /\ slots' = slots /\ faulted' = faulted
    <2>1. /\ Begin(t, Idle) /\ held' = held /\ slots' = slots /\ heap' = heap /\ faulted' = faulted
      BY DEF Shmget
    <2>2. PICK s \in Room(n, NoHint) :
          /\ CommitFree(s..(s + AlignUp(n) - 1), {"R", "W"}, "ok")
          /\ Fresh(s..(s + AlignUp(n) - 1))
          /\ segments' = Append(segments, [pages |-> s..(s + n - 1), attached |-> 0, removed |-> FALSE])
      BY DEF Shmget
    <2>3. Typed /\ Booked /\ n \in Nat \ {0} /\ NoHint \in {NoHint} \cup Nat
      BY RequestFacts DEF BooksInv
    <2>4. call[t] = Idle /\ call'[t] = Idle /\ Turn(t)
      BY <2>1, <2>3, IdleFacts, BeginEffect DEF Turn, Typed
    <2> DEFINE B == s..(s + AlignUp(n) - 1)
               S == s..(s + n - 1)
    <2>5. s \in Placement(AlignUp(n), NoHint) /\ B \cap Placed = {}
      BY DEF Room
    <2>6. Booked' /\ Took(B) /\ nextEpoch' \in Nat \ {0} /\ s \in Nat /\ S \subseteq B
      <3> DEFINE hint == NoHint
      <3>1. hint \in {NoHint} \cup Nat /\ s \in Placement(AlignUp(n), hint)
        BY <2>3, <2>5
      <3> HIDE DEF hint
      <3> QED BY <2>2, <2>3, <3>1, BookedBlock DEF Typed
    <2>7. S # {}
      <3>1. s \in S
        BY <2>3, <2>6, SMT
      <3> QED BY <3>1
    <2>8. S \subseteq Page
      BY <2>3, <2>6 DEF Took, Typed
    <2> HIDE DEF S, B
    <2>9. segments' = Append(segments, [pages |-> S, attached |-> 0, removed |-> FALSE])
      BY <2>2 DEF S
    <2>10. segments' \in Seq(SegmentType)
      <3>1. 0 \in Nat
        BY SMT
      <3>2. [pages |-> S, attached |-> 0, removed |-> FALSE] \in SegmentType
        BY <2>8, <3>1 DEF SegmentType
      <3>3. segments \in Seq(SegmentType)
        BY <2>3 DEF Typed
      <3>4. \A x \in SegmentType : Append(segments, x) \in Seq(SegmentType)
        BY <3>3, SMT
      <3> QED BY <2>9, <3>2, <3>4
    <2>11. Typed'
      BY <2>1, <2>3, <2>4, <2>6, <2>10 DEF Typed, Turn, SameProgram, Took
    <2>12. \A u \in Threads : SizedCall(call[u])'
      BY <2>4, IdleFacts DEF BooksInv, Turn, SizedCall
    <2> QED BY <2>1, <2>4, <2>5, <2>6, <2>7, <2>9, <2>11, <2>12 DEF BooksInv
  <1>2. ASSUME OwnInv, Careful PROVE OwnInv'
    <2> USE <1>2
    <2>0. BooksInv /\ LandsInv
      BY DEF OwnInv
    <2>1. /\ BooksInv' /\ Turn(t) /\ heap' = heap /\ call'[t] = Idle /\ held' = held
          /\ \E S, B : /\ Took(B) /\ B \cap Placed = {} /\ S \subseteq B /\ S # {}
                       /\ segments' = Append(segments, [pages |-> S, attached |-> 0, removed |-> FALSE])
      BY <1>1
    <2>2. PICK S, B : /\ Took(B) /\ B \cap Placed = {} /\ S \subseteq B
                      /\ segments' = Append(segments, [pages |-> S, attached |-> 0, removed |-> FALSE])
      BY <2>1
    <2>3. B \subseteq free /\ Committed' = Committed \cup B /\ open' = open \cup B
      BY <2>2 DEF Took
    <2>4. B \cap Committed = {} /\ B \subseteq Page
      BY <2>0, <2>3 DEF BooksInv, Booked, FreeIsUncommitted, Typed
    <2>5. B \cap Lands = {} /\ (\A p \in B : held[p] = "none") /\ \A u \in Threads : Claim(call[u]) \cap B = {}
      BY <2>2, <2>4, FreshIsNobodys
    <2>6. /\ DOMAIN segments' = DOMAIN segments \cup {Len(segments) + 1} /\ Len(segments) + 1 \notin DOMAIN segments
          /\ \A i \in DOMAIN segments : segments'[i] = segments[i]
          /\ segments'[Len(segments) + 1] = [pages |-> S, attached |-> 0, removed |-> FALSE]
      <3>1. segments \in Seq(SegmentType)
        BY <2>0 DEF BooksInv, Typed
      <3> QED BY <2>2, <3>1, SMT
    <2> DEFINE k == Len(segments) + 1
    <2>7. segments'[k].pages = S /\ segments'[k].attached = 0
      BY <2>6, SMT
    <2>8. /\ DOMAIN segments' = DOMAIN segments \cup {k} /\ k \notin DOMAIN segments
      BY <2>6
    <2> HIDE DEF k
    <2>9. KeptPages' = KeptPages \cup S
      <3>1. ASSUME NEW p \in Page, IsKept(p)' PROVE p \in KeptPages \cup S
        <4>1. PICK i \in DOMAIN segments' : p \in segments'[i].pages
          BY <3>1 DEF IsKept
        <4> QED BY <2>6, <2>7, <2>8, <4>1 DEF KeptPages, IsKept
      <3>2. ASSUME NEW p \in S PROVE IsKept(p)'
        BY <2>7, <2>8 DEF IsKept
      <3>3. ASSUME NEW p \in KeptPages PROVE IsKept(p)'
        BY <2>6, <2>8 DEF KeptPages, IsKept
      <3> QED BY <2>2, <2>4, <3>1, <3>2, <3>3 DEF KeptPages
    <2>10. /\ Reserve \subseteq Page /\ program.stack \subseteq Page
           /\ \A i \in DOMAIN segments : segments[i].pages \subseteq KeptPages
      BY <2>0, LandPages
    <2>11. Usable \subseteq Usable' /\ Committed \subseteq Committed' /\ B \subseteq Usable'
      BY <2>3 DEF Usable
    <2>12. /\ KeptPages' \cap (Reserve \cup program.stack) = {} /\ KeptPages' \cap Placed = {} /\ KeptPages' \subseteq Usable'
      <3>1. /\ KeptPages \cap (Reserve \cup program.stack) = {} /\ KeptPages \cap Placed = {} /\ KeptPages \subseteq Usable
        BY <2>0 DEF LandsInv, Lands
      <3>2. S \cap (Reserve \cup program.stack) = {} /\ S \cap Placed = {} /\ S \subseteq Usable'
        BY <2>2, <2>5, <2>11 DEF Lands
      <3> QED BY <2>9, <2>11, <3>1, <3>2
    <2>13. S \cap KeptPages = {} /\ \A p \in S : held'[p] = "none"
      BY <2>1, <2>2, <2>5 DEF Lands
    <2>14. \A i, j \in DOMAIN segments' : i # j => segments'[i].pages \cap segments'[j].pages = {}
      <3>1. \A i \in DOMAIN segments : segments'[i].pages \cap S = {} /\ segments'[i].pages = segments[i].pages
        BY <2>6, <2>10, <2>13
      <3>2. \A i, j \in DOMAIN segments : i # j => segments[i].pages \cap segments[j].pages = {}
        BY <2>0 DEF LandsInv
      <3> TAKE i, j \in DOMAIN segments'
      <3> HAVE i # j
      <3>3. CASE i = k
        BY <2>7, <2>8, <3>1, <3>3
      <3>4. CASE j = k
        BY <2>7, <2>8, <3>1, <3>4
      <3>5. CASE i # k /\ j # k
        BY <2>8, <3>1, <3>2, <3>5
      <3> QED BY <3>3, <3>4, <3>5
    <2>15. \A i \in DOMAIN segments' : segments'[i].attached = 0 => \A p \in segments'[i].pages : held'[p] = "none"
      <3>1. \A i \in DOMAIN segments : segments[i].attached = 0 => \A p \in segments[i].pages : held[p] = "none"
        BY <2>0 DEF LandsInv
      <3> TAKE i \in DOMAIN segments'
      <3>2. CASE i = k
        BY <2>7, <2>13, <3>2
      <3>3. CASE i # k
        BY <2>1, <2>6, <2>8, <3>1, <3>3
      <3> QED BY <3>2, <3>3
    <2>16. /\ \A p \in Page : p \in KeptPages \cup KeptPages' => held'[p] \in {"none", "segment"}
           /\ \A p \in Page : held'[p] = "segment" => p \in KeptPages'
      <3>1. /\ \A p \in KeptPages : held[p] \in {"none", "segment"}
            /\ \A p \in Page : held[p] = "segment" => p \in KeptPages
        BY <2>0 DEF LandsInv
      <3> QED BY <2>1, <2>9, <2>13, <3>1
    <2>17. program' = program
      BY DEF SameProgram
    <2> DEFINE G == {}
    <2>18. /\ Usable \ G \subseteq Usable' /\ Committed \ G \subseteq Committed' /\ G \cap (Reserve \cup program.stack) = {}
           /\ \A p \in Page : p \in G => held'[p] = "none"
           /\ \A u \in Threads : Claim(call[u]) \cap G = {} /\ Claim(call[u]) \cap KeptPages' = {}
      <3>1. \A u \in Threads : Claim(call[u]) \cap KeptPages = {}
        BY CallFacts DEF OwnCall, Lands
      <3> QED BY <2>2, <2>5, <2>9, <2>11, <3>1
    <2>19. \A p \in Page : p \notin KeptPages => held'[p] = held[p]
      BY <2>1
    <2> HIDE DEF G
    <2>20. LandsInv' /\ Lands' = Reserve \cup KeptPages' \cup program.stack
      BY <2>0, <2>1, <2>10, <2>12, <2>14, <2>15, <2>16, <2>17, <2>18, <2>19, KeptStep
    <2> QED BY <2>1, <2>18, <2>19, <2>20, SegmentStep
  <1>3. ASSUME OwnInv, FilesInv, SlotsSuffice PROVE FilesInv'
    <2>1. FilesMove /\ ~faulted' /\ call'[t].at \in PlainStages
      BY <1>1, <1>3, IdleFacts DEF FilesInv, CallsNeverFault, FilesMove, PlainStages, SameViews, SameOwners, Reserve
    <2> QED BY <1>1, <1>3, <2>1, PlainFiles
  <1> QED BY <1>1, <1>2, <1>3 DEF Preserves

LEMMA ShrinkHeapBelowStep ==
    ASSUME BooksInv, NobodyExecs, NEW t \in Threads, ShrinkHeapBelow(t), SameProgram
    PROVE  Preserves
  <1>1. /\ BooksInv' /\ Turn(t) /\ Gave(call[t].from..(call[t].limit - 1)) /\ segments' = segments
        /\ call[t].at = "shrink"
        /\ call'[t].at = "alloc" /\ call'[t].pages = call[t].pages
        /\ call'[t].kind = call[t].kind /\ call'[t].stale = call[t].stale
        /\ heap'.base = heap.base /\ heap'.break = heap.break
        /\ heap'.limit = heap.limit - (call[t].limit - call[t].from)
        /\ held' = held /\ slots' = slots /\ faulted' = faulted
    <2> DEFINE S == call[t].from..(call[t].limit - 1)
               c == [call[t] EXCEPT !.at = "alloc", !.from = 0, !.limit = 0]
               m == heap.limit - (call[t].limit - call[t].from)
    <2>1. /\ call[t].at = "shrink" /\ Release(S, "ok") /\ Fresh(Vacated(S)) /\ GoOn(t, c)
          /\ heap' = [heap EXCEPT !.limit = m]
          /\ held' = held /\ slots' = slots /\ segments' = segments /\ faulted' = faulted
      BY DEF ShrinkHeapBelow, At
    <2>2. /\ Typed /\ Booked /\ call[t] \in CallType /\ SizedCall(call[t])
          /\ call[t].from \in Nat /\ call[t].limit \in Ends
          /\ heap.limit \in Ends
      BY DEF BooksInv, Typed, CallType, HeapType
    <2>3. c \in CallType /\ c.at = "alloc" /\ c.pages = call[t].pages /\ c.n = call[t].n /\ c.kind = call[t].kind /\ c.stale = call[t].stale
      BY <2>2, ShrunkRecord
    <2>4. m \in Ends
      <3>1. call[t].from < call[t].limit
        BY <2>1, <2>2 DEF SizedCall
      <3> QED BY <2>2, <3>1, PageFacts, SMT DEF Ends
    <2>5. S \subseteq Page
      BY <2>2, PageFacts, SMT DEF Ends
    <2> HIDE DEF c, m, S
    <2>6. call'[t] = c /\ Turn(t)
      BY <2>1, <2>2, <2>3, GoOnEffect DEF Turn, Typed
    <2>7. Booked' /\ Gave(S) /\ nextEpoch' = nextEpoch
      BY <2>1, <2>2, <2>5, BookedRelease DEF Typed
    <2>8. heap' \in HeapType /\ heap'.base = heap.base /\ heap'.break = heap.break /\ heap'.limit = m
      BY <2>1, <2>2, <2>4 DEF Typed, HeapType
    <2>9. free' \subseteq Page /\ bytes' \in [Page -> {"zero", "data"}]
      BY <2>2, <2>5, <2>7, VacatedFacts DEF Gave, Typed
    <2>10. Typed'
      BY <2>1, <2>2, <2>6, <2>7, <2>8, <2>9 DEF Typed, Turn, SameProgram
    <2>11. \A u \in Threads : SizedCall(call[u])'
      BY <2>1, <2>2, <2>3, <2>6 DEF BooksInv, Turn, SizedCall
    <2> QED BY <2>1, <2>3, <2>6, <2>7, <2>8, <2>10, <2>11 DEF BooksInv, S, m
  <1>2. ASSUME OwnInv, Careful PROVE OwnInv'
    <2> USE <1>2
    <2> DEFINE S == call[t].from..(call[t].limit - 1)
    <2>0. BooksInv /\ LandsInv
      BY DEF OwnInv
    <2>1. StagedCall(t, call[t], heap) /\ call'[t] \in CallType
      BY <1>1, CallFacts DEF Turn
    <2>2. /\ t \in HeapThreads /\ call[t].pages = {} /\ call[t].stale \subseteq call[t].pages
          /\ heap.break <= call[t].from /\ call[t].from < heap.limit /\ call[t].limit = heap.limit
      BY <1>1, <2>1 DEF StagedCall
    <2>3. heap.base <= heap.break /\ heap.break <= heap.limit /\ heap.limit <= heap.base + HeapPages
      BY <2>0 DEF LandsInv
    <2>4. call[t].from \in Nat /\ heap.base \in Nat /\ heap.break \in Nat /\ heap.limit \in Int
      <3>1. call[t].from \in Nat /\ heap.base \in Nat /\ heap.break \in Nat /\ heap.limit \in Ends
        BY <2>0 DEF BooksInv, Typed, CallType, HeapType
      <3> QED BY <3>1 DEF Ends
    <2>5. heap'.limit = call[t].from
      BY <1>1, <2>2, <2>4, SMT
    <2>6. /\ S \subseteq Reserve /\ Reserve' = Reserve \ S /\ Reserve \ Reserve' = S
          /\ \A p \in S : heap.break <= p
          /\ heap'.base <= heap'.break /\ heap'.break <= heap'.limit /\ heap'.limit <= heap'.base + HeapPages
      <3>1. heap'.base = heap.base /\ heap'.break = heap.break /\ S = call[t].from..(heap.limit - 1)
        BY <1>1, <2>2
      <3>2. HeapPages \in Nat
        BY PageFacts
      <3> QED BY <2>2, <2>3, <2>4, <2>5, <3>1, <3>2, SMTT(30) DEF Reserve
    <2>7. Gave(S) /\ held' = held /\ heap'.base = heap.base /\ heap'.break = heap.break /\ segments' = segments
      BY <1>1
    <2> HIDE DEF S
    <2>8. S \subseteq Page /\ Committed' = Committed \ S /\ open' = open \ Vacated(S)
      BY <2>7 DEF Gave
    <2>9. Vacated(S) \cap Committed \subseteq S
      BY <2>8, VacatedFacts
    <2>10. Usable \ S \subseteq Usable' /\ Committed \ S \subseteq Committed'
      BY <2>8, <2>9 DEF Usable
    <2>11. \A p \in Reserve : /\ held[p] \in {"none", "heap"} /\ (heap.break <= p => held[p] = "none")
                               /\ (p \in S => held[p] = "none")
      BY <2>0, <2>6 DEF LandsInv
    <2>12. HeapMoves
      BY <2>6, <2>7, <2>10, <2>11 DEF HeapMoves
    <2>13. StagedCall(t, call'[t], heap')
      BY <1>1, <2>2 DEF StagedCall
    <2>14. CallOK(t, call'[t], heap', Committed', Usable', held', Lands') /\ Claim(call'[t]) = {}
      BY <1>1, <2>1, <2>13, NoClaim
    <2>15. call'[t].at \in CallStages /\ BooksInv' /\ Turn(t) /\ OneHeapThread
      BY <1>1 DEF CallStages, Careful
    <2> QED BY <2>2, <2>12, <2>14, <2>15, HeapStep
  <1>3. ASSUME OwnInv, FilesInv, SlotsSuffice PROVE FilesInv'
    <2>1. heap.limit \in Int /\ heap.base \in Nat /\ call[t].from \in Nat
      BY SMT DEF BooksInv, Typed, HeapType, Ends, CallType
    <2>2. call[t].from < heap.limit /\ call[t].limit = heap.limit
      BY <1>1, <1>3, CallFacts DEF StagedCall
    <2>3. heap'.limit = call[t].from
      BY <1>1, <2>1, <2>2, SMT
    <2>4. Reserve' \subseteq Reserve
      BY <1>1, <2>1, <2>2, <2>3, SMT DEF Reserve
    <2>5. FilesMove /\ ~faulted' /\ call'[t].at \in PlainStages
      BY <1>1, <1>3, <2>4 DEF FilesInv, CallsNeverFault, FilesMove, PlainStages
    <2> QED BY <1>1, <1>3, <2>5, PlainFiles
  <1> QED BY <1>1, <1>2, <1>3 DEF Preserves

LEMMA BrkStoreStep ==
    ASSUME BooksInv, NobodyExecs, NEW t \in Threads, BrkStore(t), SameProgram
    PROVE  Preserves
  <1>1. /\ BooksInv' /\ Turn(t) /\ Quiet /\ SameProgram /\ SameViews /\ segments' = segments
        /\ call[t].at = "brk" /\ call'[t] = Idle
        /\ bytes' = [p \in Page |-> IF p \in call[t].from..(call[t].n - 1) THEN "zero" ELSE bytes[p]]
        /\ heap'.base = heap.base /\ heap'.limit = heap.limit /\ heap'.break = call[t].n
        /\ held' = [p \in Page |-> IF p \in call[t].from..(call[t].n - 1) THEN "heap"
                                   ELSE IF p \in call[t].n..(call[t].from - 1) THEN "none" ELSE held[p]]
        /\ (faulted' <=> faulted \/ call[t].from..(call[t].n - 1) \cap live # {})
    <2> DEFINE S == call[t].from..(call[t].n - 1)
               D == call[t].n..(call[t].from - 1)
    <2>1. /\ call[t].at = "brk" /\ Back(t) /\ Writes(S)
          /\ bytes' = [p \in Page |-> IF p \in S THEN "zero" ELSE bytes[p]]
          /\ heap' = [heap EXCEPT !.break = call[t].n]
          /\ held' = [p \in Page |-> IF p \in S THEN "heap" ELSE IF p \in D THEN "none" ELSE held[p]]
          /\ open' = open /\ live' = live /\ slots' = slots
          /\ free' = free /\ epoch' = epoch /\ nextEpoch' = nextEpoch /\ segments' = segments
      BY DEF BrkStore, At, books
    <2> HIDE DEF S, D
    <2>2. Typed /\ Committed' = Committed /\ call[t].n \in Nat
      BY <2>1 DEF BooksInv, Committed, Typed, CallType
    <2>3. heap' \in HeapType /\ heap'.base = heap.base /\ heap'.limit = heap.limit /\ heap'.break = call[t].n
      BY <2>1, <2>2 DEF Typed, HeapType
    <2>4. call'[t] = Idle /\ Turn(t)
      BY <2>1, <2>2, IdleFacts, GoOnEffect DEF Turn, Typed, Back
    <2>5. bytes' \in [Page -> {"zero", "data"}] /\ held' \in [Page -> Kinds]
      BY <2>1, <2>2 DEF Typed, Kinds
    <2>6. BooksInv'
      BY <2>1, <2>2, <2>3, <2>4, <2>5, IdleFacts, BooksOfQuietStep DEF Typed, SameProgram, SizedCall
    <2> QED BY <2>1, <2>2, <2>3, <2>4, <2>6 DEF Quiet, SameViews, Writes, S, D
  <1>2. ASSUME OwnInv, Careful PROVE OwnInv'
    <2> USE <1>2
    <2> DEFINE S == call[t].from..(call[t].n - 1)
               D == call[t].n..(call[t].from - 1)
    <2>0. BooksInv /\ LandsInv
      BY DEF OwnInv
    <2>1. StagedCall(t, call[t], heap)
      BY CallFacts
    <2>2. t \in HeapThreads /\ call[t].from = heap.break /\ heap.base <= call[t].n /\ call[t].n <= heap.limit
      BY <1>1, <2>1 DEF StagedCall
    <2>3. heap.base <= heap.break /\ heap.break <= heap.limit /\ heap.limit <= heap.base + HeapPages
      BY <2>0 DEF LandsInv
    <2>4. call[t].n \in Nat /\ heap.base \in Nat /\ heap.break \in Nat /\ heap.limit \in Int
      <3>1. call[t].n \in Nat /\ heap.base \in Nat /\ heap.break \in Nat /\ heap.limit \in Ends
        BY <2>0 DEF BooksInv, Typed, CallType, HeapType
      <3> QED BY <3>1 DEF Ends
    <2>5. /\ Reserve' = Reserve /\ S \subseteq Reserve /\ D \subseteq Reserve /\ S \cap D = {}
          /\ \A p \in S : ~(call[t].n <= p)
          /\ \A p \in Reserve : call[t].n <= p /\ p \notin D => heap.break <= p
          /\ heap'.base <= heap'.break /\ heap'.break <= heap'.limit /\ heap'.limit <= heap'.base + HeapPages
      BY <1>1, <2>2, <2>3, <2>4, SMT DEF Reserve
    <2>6. /\ \A p \in Page : held'[p] = IF p \in S THEN "heap" ELSE IF p \in D THEN "none" ELSE held[p]
          /\ heap'.base = heap.base /\ heap'.break = call[t].n /\ segments' = segments
      BY <1>1
    <2> HIDE DEF S, D
    <2>7. \A p \in Reserve : p \in Page /\ held[p] \in {"none", "heap"} /\ (heap.break <= p => held[p] = "none")
      BY <2>0, LandPages DEF LandsInv
    <2>8. \A p \in Reserve : held'[p] \in {"none", "heap"} /\ (heap'.break <= p => held'[p] = "none")
      <3> TAKE p \in Reserve
      <3>1. CASE p \in S
        BY <2>5, <2>6, <2>7, <3>1
      <3>2. CASE p \in D
        BY <2>5, <2>6, <2>7, <3>2
      <3>3. CASE p \notin S /\ p \notin D
        BY <2>5, <2>6, <2>7, <3>3
      <3> QED BY <3>1, <3>2, <3>3
    <2>9. Usable \subseteq Usable' /\ Committed \subseteq Committed'
      BY <1>1 DEF Usable, Quiet
    <2>10. HeapMoves
      BY <2>5, <2>6, <2>8, <2>9 DEF HeapMoves
    <2>11. CallOK(t, call'[t], heap', Committed', Usable', held', Lands') /\ Claim(call'[t]) = {}
      BY <1>1, IdleIsOK
    <2>12. call'[t].at \in CallStages /\ BooksInv' /\ Turn(t) /\ OneHeapThread
      BY <1>1, IdleFacts DEF CallStages, Careful
    <2> QED BY <2>2, <2>10, <2>11, <2>12, HeapStep
  <1>3. ASSUME OwnInv, FilesInv, SlotsSuffice PROVE FilesInv'
    <2>1. call[t].from..(call[t].n - 1) \subseteq Reserve
      <3>1. call[t].from = heap.break /\ call[t].n <= heap.limit /\ heap.base <= heap.break
        BY <1>1, <1>3, CallFacts DEF StagedCall, OwnInv, LandsInv
      <3>2. heap.base \in Nat /\ heap.break \in Nat /\ heap.limit \in Int /\ call[t].n \in Nat
        BY SMT DEF BooksInv, Typed, HeapType, Ends, CallType
      <3> QED BY <3>1, <3>2, SMT DEF Reserve
    <2>2. FilesMove /\ ~faulted' /\ call'[t].at \in PlainStages
      BY <1>1, <1>3, <2>1, IdleFacts DEF FilesInv, CallsNeverFault, FilesMove, PlainStages, SameViews, Reserve
    <2> QED BY <1>1, <1>3, <2>2, PlainFiles
  <1> QED BY <1>1, <1>2, <1>3 DEF Preserves

LEMMA ShmatStep ==
    ASSUME BooksInv, NobodyExecs, NEW t \in Threads, NEW id \in DOMAIN segments, Shmat(t, id), SameProgram
    PROVE  Preserves
  <1>1. /\ BooksInv' /\ Turn(t) /\ Quiet /\ SameBytes /\ SameProgram /\ SameViews /\ heap' = heap
        /\ call[t] = Idle /\ call'[t] = Idle /\ faulted' = faulted
        /\ DOMAIN segments' = DOMAIN segments /\ segments[id] # NoSegment
        /\ \A i \in DOMAIN segments : i # id => segments'[i] = segments[i]
        /\ segments'[id].pages = segments[id].pages /\ segments'[id].attached # 0
        /\ Holding(segments[id].pages, "segment")
    <2> DEFINE x == [segments[id] EXCEPT !.attached = segments[id].attached + 1]
    <2>1. /\ Begin(t, Idle) /\ segments[id] # NoSegment /\ segments' = [segments EXCEPT ![id] = x]
          /\ Holding(segments[id].pages, "segment")
          /\ free' = free /\ epoch' = epoch /\ nextEpoch' = nextEpoch /\ bytes' = bytes /\ open' = open
          /\ live' = live /\ slots' = slots /\ heap' = heap /\ faulted' = faulted
      BY DEF Shmat, Exists, arena, books
    <2>2. Typed /\ Committed' = Committed /\ segments \in Seq(SegmentType)
      BY <2>1 DEF BooksInv, Committed, Typed
    <2>3. segments[id] \in SegmentType /\ segments[id].attached \in Nat
      <3>1. segments[id] \in SegmentType
        BY <2>2, SMT
      <3> QED BY <3>1 DEF SegmentType
    <2>4. segments[id].attached + 1 \in Nat /\ segments[id].attached + 1 # 0
      BY <2>3, SMT
    <2>5. x \in SegmentType /\ x.pages = segments[id].pages /\ x.attached # 0
      BY <2>3, <2>4 DEF SegmentType
    <2> HIDE DEF x
    <2>6. /\ segments' \in Seq(SegmentType) /\ DOMAIN segments' = DOMAIN segments /\ segments'[id] = x
          /\ \A i \in DOMAIN segments : i # id => segments'[i] = segments[i]
      BY <2>1, <2>2, <2>5, SegmentReplaced
    <2>7. call[t] = Idle /\ call'[t] = Idle /\ Turn(t)
      BY <2>1, <2>2, IdleFacts, BeginEffect DEF Turn, Typed
    <2>8. held' \in [Page -> Kinds]
      BY <2>1, <2>2 DEF Typed, Holding, Kinds
    <2>9. BooksInv'
      BY <2>1, <2>2, <2>6, <2>7, <2>8, IdleFacts, BooksOfQuietStep DEF Typed, SameProgram, SizedCall
    <2> QED BY <2>1, <2>2, <2>5, <2>6, <2>7, <2>9 DEF Quiet, SameBytes, SameViews
  <1>2. ASSUME OwnInv, Careful PROVE OwnInv'
    <2> USE <1>2
    <2>1. segments[id].pages \subseteq Page
      BY LandPages DEF KeptPages
    <2>2. Usable \subseteq Usable' /\ Committed \subseteq Committed'
      BY <1>1 DEF Usable, Quiet
    <2>3. \A p \in Page : held'[p] = IF p \in segments[id].pages THEN "segment" ELSE held[p]
      BY <1>1 DEF Holding
    <2>4. SegmentChanges(id, {})
      BY <1>1, <2>1, <2>2, <2>3 DEF SegmentChanges
    <2> QED BY <1>1, <2>4, SegmentCall
  <1>3. ASSUME OwnInv, FilesInv, SlotsSuffice PROVE FilesInv'
    <2>1. FilesMove /\ ~faulted' /\ call'[t].at \in PlainStages
      BY <1>1, <1>3, IdleFacts DEF FilesInv, CallsNeverFault, FilesMove, PlainStages, SameViews, SameOwners, Reserve
    <2> QED BY <1>1, <1>3, <2>1, PlainFiles
  <1> QED BY <1>1, <1>2, <1>3 DEF Preserves

LEMMA ShmdtStep ==
    ASSUME BooksInv, NobodyExecs, NEW t \in Threads, NEW id \in DOMAIN segments, Shmdt(t, id), SameProgram
    PROVE  Preserves
  <1>1. /\ BooksInv' /\ Turn(t) /\ SameProgram /\ heap' = heap /\ call[t] = Idle /\ call'[t] = Idle
        /\ slots' = slots /\ faulted' = faulted
        /\ DOMAIN segments' = DOMAIN segments /\ \A i \in DOMAIN segments : i # id => segments'[i] = segments[i]
        /\ segments[id].attached # 0
        /\ \/ Gave(segments[id].pages) /\ segments'[id] = NoSegment /\ Holding(segments[id].pages, "none")
           \/ /\ Quiet /\ SameBytes /\ live' = live /\ segments'[id].pages = segments[id].pages
              /\ Holding(segments[id].pages, IF segments'[id].attached = 0 THEN "none" ELSE "segment")
    <2> DEFINE x == [segments[id] EXCEPT !.attached = segments[id].attached - 1]
    <2>1. /\ Begin(t, Idle) /\ segments[id].attached > 0 /\ FreeIfUnused(id, x)
          /\ Holding(x.pages, IF x.attached = 0 THEN "none" ELSE "segment")
          /\ slots' = slots /\ heap' = heap /\ faulted' = faulted
      BY DEF Shmdt
    <2>2. Typed /\ segments \in Seq(SegmentType)
      BY DEF BooksInv, Typed
    <2>3. segments[id] \in SegmentType /\ segments[id].attached \in Nat
      <3>1. segments[id] \in SegmentType
        BY <2>2, SMT
      <3> QED BY <3>1 DEF SegmentType
    <2>4. segments[id].attached - 1 \in Nat /\ segments[id].attached # 0
      BY <2>1, <2>3, SMT
    <2>5. x \in SegmentType /\ x.pages = segments[id].pages
      BY <2>3, <2>4 DEF SegmentType
    <2> HIDE DEF x
    <2>6. /\ Booked' /\ free' \subseteq Page /\ nextEpoch' \in Nat \ {0} /\ bytes' \in [Page -> {"zero", "data"}]
          /\ segments' \in Seq(SegmentType) /\ DOMAIN segments' = DOMAIN segments
          /\ \A i \in DOMAIN segments : i # id => segments'[i] = segments[i]
          /\ \/ Gave(x.pages) /\ segments'[id] = NoSegment /\ x.attached = 0
             \/ Quiet /\ SameBytes /\ live' = live /\ segments'[id] = x
      BY <2>1, <2>5, FreeIfUnusedEffect
    <2>7. call[t] = Idle /\ call'[t] = Idle /\ Turn(t)
      BY <2>1, <2>2, IdleFacts, BeginEffect DEF Turn, Typed
    <2>8. held' \in [Page -> Kinds]
      BY <2>1, <2>2 DEF Typed, Holding, Kinds
    <2>9. Typed'
      BY <2>1, <2>2, <2>6, <2>7, <2>8 DEF Typed, Turn, SameProgram
    <2>10. \A u \in Threads : SizedCall(call[u])'
      BY <2>7, IdleFacts DEF BooksInv, Turn, SizedCall
    <2>11. BooksInv'
      BY <2>6, <2>9, <2>10 DEF BooksInv
    <2>12. \/ Gave(segments[id].pages) /\ segments'[id] = NoSegment /\ Holding(segments[id].pages, "none")
           \/ /\ Quiet /\ SameBytes /\ live' = live /\ segments'[id].pages = segments[id].pages
              /\ Holding(segments[id].pages, IF segments'[id].attached = 0 THEN "none" ELSE "segment")
      BY <2>1, <2>5, <2>6
    <2> QED BY <2>1, <2>4, <2>6, <2>7, <2>11, <2>12
  <1>2. ASSUME OwnInv, Careful PROVE OwnInv'
    <2> USE <1>2
    <2> DEFINE S == segments[id].pages
    <2>1. S \subseteq Page
      BY LandPages DEF KeptPages
    <2>2. CASE Gave(S) /\ segments'[id] = NoSegment /\ Holding(S, "none")
      <3>1. segments'[id].pages = {} /\ segments'[id].attached = 0
        BY <2>2, SMT DEF NoSegment
      <3>2. \A p \in Page : held'[p] = IF p \in S THEN "none" ELSE held[p]
        BY <2>2 DEF Holding
      <3>3. Usable \ S \subseteq Usable' /\ Committed \ S \subseteq Committed'
        <4>1. Committed' = Committed \ S /\ open' = open \ Vacated(S)
          BY <2>2 DEF Gave
        <4>2. Vacated(S) \cap Committed \subseteq S
          BY <2>1, VacatedFacts
        <4> QED BY <4>1, <4>2 DEF Usable
      <3>4. SegmentChanges(id, S)
        BY <1>1, <2>1, <3>1, <3>2, <3>3 DEF SegmentChanges
      <3> HIDE DEF S
      <3> QED BY <1>1, <3>4, SegmentCall
    <2>3. CASE /\ Quiet /\ segments'[id].pages = S
               /\ Holding(S, IF segments'[id].attached = 0 THEN "none" ELSE "segment")
      <3>1. \A p \in Page : held'[p] = IF p \in S THEN IF segments'[id].attached = 0 THEN "none" ELSE "segment" ELSE held[p]
        BY <2>3 DEF Holding
      <3>2. Usable \subseteq Usable' /\ Committed \subseteq Committed'
        BY <2>3 DEF Usable, Quiet
      <3>3. SegmentChanges(id, {})
        BY <1>1, <2>1, <2>3, <3>1, <3>2 DEF SegmentChanges
      <3> QED BY <1>1, <3>3, SegmentCall
    <2> QED BY <1>1, <2>2, <2>3
  <1>3. ASSUME OwnInv, FilesInv, SlotsSuffice PROVE FilesInv'
    <2>1. FilesMove /\ ~faulted' /\ call'[t].at \in PlainStages
      BY <1>1, <1>3, IdleFacts DEF FilesInv, CallsNeverFault, FilesMove, PlainStages, SameViews, SameOwners, Reserve
    <2> QED BY <1>1, <1>3, <2>1, PlainFiles
  <1> QED BY <1>1, <1>2, <1>3 DEF Preserves

LEMMA ShmctlRemoveStep ==
    ASSUME BooksInv, NobodyExecs, NEW t \in Threads, NEW id \in DOMAIN segments, ShmctlRemove(t, id), SameProgram
    PROVE  Preserves
  <1>1. /\ BooksInv' /\ Turn(t) /\ SameProgram /\ heap' = heap /\ call[t] = Idle /\ call'[t] = Idle
        /\ held' = held /\ slots' = slots /\ faulted' = faulted
        /\ DOMAIN segments' = DOMAIN segments /\ \A i \in DOMAIN segments : i # id => segments'[i] = segments[i]
        /\ \/ Gave(segments[id].pages) /\ segments'[id] = NoSegment /\ segments[id].attached = 0
           \/ /\ Quiet /\ SameBytes /\ live' = live /\ segments'[id].pages = segments[id].pages
              /\ segments'[id].attached = segments[id].attached
    <2> DEFINE x == [segments[id] EXCEPT !.removed = TRUE]
    <2>1. /\ Begin(t, Idle) /\ FreeIfUnused(id, x)
          /\ held' = held /\ slots' = slots /\ heap' = heap /\ faulted' = faulted
      BY DEF ShmctlRemove
    <2>2. Typed /\ segments \in Seq(SegmentType)
      BY DEF BooksInv, Typed
    <2>3. segments[id] \in SegmentType
      BY <2>2, SMT
    <2>4. x \in SegmentType /\ x.pages = segments[id].pages /\ x.attached = segments[id].attached
      BY <2>3 DEF SegmentType
    <2> HIDE DEF x
    <2>5. /\ Booked' /\ free' \subseteq Page /\ nextEpoch' \in Nat \ {0} /\ bytes' \in [Page -> {"zero", "data"}]
          /\ segments' \in Seq(SegmentType) /\ DOMAIN segments' = DOMAIN segments
          /\ \A i \in DOMAIN segments : i # id => segments'[i] = segments[i]
          /\ \/ Gave(x.pages) /\ segments'[id] = NoSegment /\ x.attached = 0
             \/ Quiet /\ SameBytes /\ live' = live /\ segments'[id] = x
      BY <2>1, <2>4, FreeIfUnusedEffect
    <2>6. call[t] = Idle /\ call'[t] = Idle /\ Turn(t)
      BY <2>1, <2>2, IdleFacts, BeginEffect DEF Turn, Typed
    <2>7. Typed'
      BY <2>1, <2>2, <2>5, <2>6 DEF Typed, Turn, SameProgram
    <2>8. \A u \in Threads : SizedCall(call[u])'
      BY <2>6, IdleFacts DEF BooksInv, Turn, SizedCall
    <2> QED BY <2>1, <2>4, <2>5, <2>6, <2>7, <2>8 DEF BooksInv
  <1>2. ASSUME OwnInv, Careful PROVE OwnInv'
    <2> USE <1>2
    <2> DEFINE S == segments[id].pages
    <2>1. S \subseteq Page /\ LandsInv
      BY LandPages DEF KeptPages, OwnInv
    <2>2. \A p \in S : held[p] \in {"none", "segment"} /\ (segments[id].attached = 0 => held[p] = "none")
      BY <2>1, LandPages DEF LandsInv
    <2>3. CASE Gave(S) /\ segments'[id] = NoSegment /\ segments[id].attached = 0
      <3>1. segments'[id].pages = {}
        BY <2>3, SMT DEF NoSegment
      <3>2. Usable \ S \subseteq Usable' /\ Committed \ S \subseteq Committed'
        <4>1. Committed' = Committed \ S /\ open' = open \ Vacated(S)
          BY <2>3 DEF Gave
        <4>2. Vacated(S) \cap Committed \subseteq S
          BY <2>1, VacatedFacts
        <4> QED BY <4>1, <4>2 DEF Usable
      <3>3. SegmentChanges(id, S)
        BY <1>1, <2>2, <2>3, <3>1, <3>2 DEF SegmentChanges
      <3> HIDE DEF S
      <3> QED BY <1>1, <3>3, SegmentCall
    <2>4. CASE Quiet /\ segments'[id].pages = S /\ segments'[id].attached = segments[id].attached
      <3>1. Usable \subseteq Usable' /\ Committed \subseteq Committed'
        BY <2>4 DEF Usable, Quiet
      <3>2. SegmentChanges(id, {})
        BY <1>1, <2>2, <2>4, <3>1 DEF SegmentChanges
      <3> QED BY <1>1, <3>2, SegmentCall
    <2> QED BY <1>1, <2>3, <2>4
  <1>3. ASSUME OwnInv, FilesInv, SlotsSuffice PROVE FilesInv'
    <2>1. FilesMove /\ ~faulted' /\ call'[t].at \in PlainStages
      BY <1>1, <1>3, IdleFacts DEF FilesInv, CallsNeverFault, FilesMove, PlainStages, SameViews, SameOwners, Reserve
    <2> QED BY <1>1, <1>3, <2>1, PlainFiles
  <1> QED BY <1>1, <1>2, <1>3 DEF Preserves
=============================================================================
