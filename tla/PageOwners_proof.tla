-------------------------- MODULE PageOwners_proof --------------------------
(***************************************************************************)
(* Who owns which page of the arena.                                       *)
(* The invariants of the memory calls and of execve, whatever the threads  *)
(* call and in whatever order; the lemmas a step is shown to keep them by; *)
(* and the steps of execve. MemoryCalls_proof has the steps of the calls,  *)
(* GuestMemory_proof the theorems.                                         *)
(***************************************************************************)
EXTENDS Programs, TLAPS

USE ZenonT(30)

\* Division by the host page size brackets a page number.
LEMMA DivBounds ==
    ASSUME NEW n \in Nat
    PROVE  /\ n \div K \in Nat
           /\ K * (n \div K) <= n
           /\ n < K * (n \div K) + K
  BY ArenaAssumption, SMT DEF ArenaAssumption

\* A page is at or above a host page boundary exactly if its host page is.
LEMMA DivMonotone ==
    ASSUME NEW n \in Nat, NEW a \in Nat
    PROVE  K * a <= n <=> a <= n \div K
  <1> DEFINE d == n \div K
  <1>1. d \in Nat /\ K * d <= n /\ n < K * d + K
    BY DivBounds
  <1>2. K \in Nat /\ K > 0
    BY ArenaAssumption, SMT DEF ArenaAssumption
  <1>3. ASSUME a <= d PROVE K * a <= n
    <2> HIDE DEF d
    <2>1. K * a <= K * d
      BY <1>1, <1>2, <1>3, SMT
    <2> QED BY <2>1, <1>1, <1>2, SMT
  <1>4. ASSUME d < a PROVE n < K * a
    <2> HIDE DEF d
    <2>1. K * (d + 1) <= K * a
      BY <1>1, <1>2, <1>4, SMT
    <2>2. K * (d + 1) = K * d + K
      BY <1>1, <1>2, SMT
    <2> QED BY <2>1, <2>2, <1>1, <1>2, SMT
  <1> QED BY <1>1, <1>2, <1>3, <1>4, SMT

\* A host page is a class of an equivalence relation on the arena's pages.
LEMMA HostPageFacts ==
    ASSUME NEW p \in Page
    PROVE  /\ p \in HostPage[p]
           /\ HostPage[p] \subseteq Page
           /\ \A q \in HostPage[p] : q \in Page /\ HostPage[q] = HostPage[p] /\ p \in HostPage[q]
  <1>1. \A q \in Page : HostPage[q] = {r \in Page : r \div K = q \div K}
    BY DEF HostPage
  <1> QED BY <1>1

\* Made of whole host pages: what the rounding operators produce and keep.
WholePages(S) == \A p \in S : HostPage[p] \subseteq S

LEMMA OutwardFacts ==
    ASSUME NEW S, S \subseteq Page
    PROVE  /\ S \subseteq Outward(S)
           /\ Outward(S) \subseteq Page
           /\ WholePages(Outward(S))
           /\ (Outward(S) = S <=> WholePages(S))
  BY HostPageFacts, SMT DEF Outward, WholePages

\* A span that starts on a host page boundary and is a number of host pages
\* long is made of whole host pages.
LEMMA AlignedSpanIsWhole ==
    ASSUME NEW a \in Nat, NEW b \in Nat, (K * a)..(K * a + K * b - 1) \subseteq Page
    PROVE  WholePages((K * a)..(K * a + K * b - 1))
  <1>1. K \in Nat /\ K * a \in Nat /\ K * b \in Nat /\ a + b \in Nat
    BY ArenaAssumption, SMT DEF ArenaAssumption
  <1>2. K * a + K * b = K * (a + b)
    BY <1>1, SMT
  <1> SUFFICES ASSUME NEW p \in (K * a)..(K * a + K * b - 1), NEW q \in HostPage[p]
               PROVE  q \in (K * a)..(K * a + K * b - 1)
    BY DEF WholePages
  <1>3. p \in Page /\ p \in Nat /\ q \in Page /\ q \in Nat /\ q \div K = p \div K
    BY <1>1, SMT DEF HostPage, Page
  <1>4. K * a <= q
    <2>1. K * a <= p
      BY <1>1, <1>3, SMT
    <2>2. a <= p \div K
      BY <2>1, <1>3, DivMonotone
    <2>3. a <= q \div K
      BY <2>2, <1>3
    <2> QED BY <2>3, <1>3, DivMonotone
  <1>5. ~ (K * (a + b) <= q)
    <2>1. ~ (K * (a + b) <= p)
      BY <1>1, <1>2, <1>3, SMT
    <2>2. ~ (a + b <= p \div K)
      BY <2>1, <1>1, <1>3, DivMonotone
    <2>3. ~ (a + b <= q \div K)
      BY <2>2, <1>3
    <2> QED BY <2>3, <1>1, <1>3, DivMonotone
  <1> QED BY <1>1, <1>2, <1>3, <1>4, <1>5, SMT

\* First fit only ever places on a host page boundary: were it otherwise, the
\* pages below, down to the boundary, would be free too and fit sooner.
LEMMA FirstFitIsAligned ==
    ASSUME free \subseteq Page, WholePages(free),
           NEW len \in Nat, len > 0, NEW c \in Nat, NEW s \in FirstFit(len, K * c)
    PROVE  \E a \in Nat : s = K * a
  <1>1. K \in Nat /\ K > 0 /\ NPages \in Nat /\ K * c \in Nat
    BY ArenaAssumption, SMT DEF ArenaAssumption
  <1>2. s \in Nat /\ s >= K * c /\ s..(s + len - 1) \subseteq free
    BY <1>1, SMT DEF FirstFit, Fits
  <1> DEFINE a == s \div K
  <1>3. a \in Nat /\ K * a <= s /\ s < K * a + K /\ K * a \in Nat
    BY <1>1, <1>2, DivBounds, SMT
  <1>4. s \in free /\ s \in Page
    BY <1>2, SMT
  <1>5. ASSUME NEW r \in (K * a)..s PROVE r \in free
    <2>1. r \in Nat /\ r \in Page
      BY <1>1, <1>3, <1>4, SMT DEF Page
    <2>2. r \div K = a
      <3>1. a <= r \div K
        BY <1>3, <1>5, <2>1, DivMonotone, SMT
      <3>2. ~ (a + 1 <= r \div K)
        <4>1. K * (a + 1) = K * a + K
          BY <1>1, <1>3, SMT
        <4>2. r < K * (a + 1)
          BY <4>1, <1>1, <1>2, <1>3, <1>5, <2>1, SMT
        <4> QED BY <4>2, <2>1, <1>1, <1>3, DivMonotone, SMT
      <3> QED BY <3>1, <3>2, <1>3, <2>1, DivBounds, SMT
    <2>3. r \in HostPage[s]
      BY <2>1, <2>2, <1>4 DEF HostPage
    <2> QED BY <2>3, <1>4 DEF WholePages
  <1>6. K * c <= K * a
    <2>1. c <= a
      BY <1>1, <1>2, DivMonotone
    <2> QED BY <2>1, <1>1, <1>3, SMT
  <1>7. CASE K * a = s
    BY <1>3, <1>7
  <1>8. CASE K * a < s
    <2>1. K * a \in (K * c)..(s - 1)
      BY <1>1, <1>2, <1>3, <1>6, <1>8, SMT
    <2>2. (K * a)..(K * a + len - 1) \subseteq free
      <3> SUFFICES ASSUME NEW r \in (K * a)..(K * a + len - 1) PROVE r \in free
        OBVIOUS
      <3>1. CASE r <= s
        BY <1>2, <1>3, <1>5, <3>1, SMT
      <3>2. CASE r > s
        BY <1>2, <1>3, <1>8, <3>2, SMT
      <3> QED BY <3>1, <3>2, <1>2, <1>3, SMT
    <2> QED BY <2>1, <2>2 DEF FirstFit, Fits
  <1> QED BY <1>3, <1>7, <1>8, <1>2, SMT

\* Wherever Allocate places a request, it takes free pages, whole host pages.
LEMMA PlacementIsWhole ==
    ASSUME free \subseteq Page, WholePages(free),
           NEW n \in Nat \ {0}, NEW hint \in {NoHint} \cup Nat,
           NEW s \in Placement(AlignUp(n), hint)
    PROVE  LET S == s..(s + AlignUp(n) - 1) IN S \subseteq free /\ WholePages(S)
  <1>1. K \in Nat /\ K > 0 /\ NPages \in Nat /\ Floor \in Nat /\ Page \subseteq Nat
    BY ArenaAssumption, SMT DEF ArenaAssumption, Page
  <1> DEFINE b == (n + K - 1) \div K
             f == (Floor + K - 1) \div K
  <1>2. b \in Nat /\ f \in Nat /\ n + K - 1 \in Nat /\ Floor + K - 1 \in Nat
    BY <1>1, DivBounds, SMT
  <1>3. AlignUp(n) = K * b /\ AlignUp(Floor) = K * f /\ K * b \in Nat
    BY <1>1, <1>2, SMT DEF AlignUp
  <1>4. b >= 1
    <2>1. K * 1 <= n + K - 1
      BY <1>1, SMT
    <2> QED BY <2>1, <1>2, DivMonotone
  <1>5. K * b > 0
    BY <1>1, <1>2, <1>4, SMT
  <1>6. s..(s + K * b - 1) \subseteq free /\ \E a \in Nat : s = K * a
    <2>1. CASE hint # NoHint /\ AlignDown(hint) + AlignUp(n) <= NPages /\ Fits(AlignDown(hint), AlignUp(n))
      <3>1. s = AlignDown(hint)
        BY <2>1 DEF Placement
      <3>2. hint \in Nat /\ hint \div K \in Nat
        BY <1>1, <2>1, DivBounds
      <3>3. AlignDown(hint) = K * (hint \div K)
        BY <1>1, <3>2, SMT DEF AlignDown
      <3> QED BY <2>1, <3>1, <3>2, <3>3, <1>3 DEF Fits
    <2>2. CASE s \in FirstFit(AlignUp(n), AlignUp(Floor))
      <3>1. \E a \in Nat : s = K * a
        BY <2>2, <1>2, <1>3, <1>5, FirstFitIsAligned, SMT
      <3> QED BY <2>2, <3>1, <1>3 DEF FirstFit, Fits
    <2>3. CASE s \in FirstFit(AlignUp(n), 0)
      <3>1. s \in FirstFit(K * b, K * 0)
        BY <2>3, <1>1, <1>3, SMT
      <3>2. \E a \in Nat : s = K * a
        BY <3>1, <1>3, <1>5, FirstFitIsAligned, SMT
      <3> QED BY <3>2, <2>3, <1>3 DEF FirstFit, Fits
    <2> QED BY <2>1, <2>2, <2>3 DEF Placement
  <1>7. PICK a \in Nat : s = K * a
    BY <1>6
  <1>8. (K * a)..(K * a + K * b - 1) \subseteq Page
    BY <1>6, <1>7
  <1> QED BY <1>2, <1>3, <1>6, <1>7, <1>8, AlignedSpanIsWhole

\* NothingLeaked by the set of committed pages, now and after a step.
LEMMA LeaksByHostPage ==
    /\ NothingLeaked <=> \A p \in Page \ Low : HostPage[p] \cap Committed = {} => p \in free
    /\ NothingLeaked' <=> \A p \in Page \ Low : HostPage[p] \cap Committed' = {} => p \in free'
  <1>1. ASSUME NEW p \in Page
        PROVE  /\ (\A q \in HostPage[p] : epoch[q] = 0) <=> HostPage[p] \cap Committed = {}
               /\ (\A q \in HostPage[p] : epoch'[q] = 0) <=> HostPage[p] \cap Committed' = {}
    BY HostPageFacts DEF Committed
  <1> QED BY <1>1 DEF NothingLeaked

\* Pages that are committed as they leave the free list are not lost.
LEMMA CommittedIsNotLost ==
    ASSUME NothingLeaked, NEW S, Committed' = Committed \cup S, free \ S \subseteq free'
    PROVE  NothingLeaked'
  <1> SUFFICES ASSUME NEW p \in Page \ Low, HostPage[p] \cap Committed' = {} PROVE p \in free'
    BY LeaksByHostPage
  <1>1. HostPage[p] \cap Committed = {} /\ HostPage[p] \cap S = {}
    OBVIOUS
  <1>2. p \in free
    BY <1>1, LeaksByHostPage
  <1>3. p \notin S
    BY <1>1, HostPageFacts
  <1> QED BY <1>2, <1>3

\* What is taken off the free list to be committed is not lost.
LEMMA CommitFreeLosesNothing ==
    ASSUME NothingLeaked, nextEpoch \in Nat \ {0}, NEW S, S \subseteq Page, NEW pr, NEW ok, CommitFree(S, pr, ok)
    PROVE  NothingLeaked'
  <1>1. CASE ok = "mprotect"
    <2>1. free' = free /\ epoch' = epoch
      BY <1>1 DEF CommitFree, books
    <2> QED BY <2>1 DEF NothingLeaked
  <1>2. CASE ok # "mprotect"
    <2>1. /\ free' = free \ S
          /\ \A p \in Page : epoch'[p] = IF p \in S THEN nextEpoch ELSE epoch[p]
      BY <1>2 DEF CommitFree, RecordCommitted
    <2>2. Committed' = Committed \cup S
      BY <2>1 DEF Committed
    <2> QED BY <2>1, <2>2, CommittedIsNotLost
  <1> QED BY <1>1, <1>2

\* A release puts back every host page it empties.
LEMMA ReleaseLosesNothing ==
    ASSUME NothingLeaked, NEW S, S \subseteq Page, NEW ok, Release(S, ok)
    PROVE  NothingLeaked'
  <1>1. free' = free \cup Vacated(S) /\ Committed' = Committed \ S
    BY DEF Release, Committed
  <1> SUFFICES ASSUME NEW p \in Page \ Low, HostPage[p] \cap Committed' = {} PROVE p \in free'
    BY LeaksByHostPage
  <1>2. HostPage[p] \cap Committed \subseteq S
    BY <1>1
  <1>3. CASE HostPage[p] \cap Committed = {}
    BY <1>1, <1>3, LeaksByHostPage
  <1>4. CASE HostPage[p] \cap Committed # {}
    <2>1. PICK q \in HostPage[p] : q \in S
      BY <1>2, <1>4
    <2>2. p \in HostPage[q]
      BY HostPageFacts
    <2>3. p \in Outward(S)
      BY <2>1, <2>2 DEF Outward
    <2> QED BY <1>1, <1>2, <2>3 DEF Vacated
  <1> QED BY <1>3, <1>4

\* The arena's pages and their numbers.
LEMMA PageFacts ==
    /\ K \in Nat /\ K > 0 /\ NPages \in Nat /\ HeapPages \in Nat
    /\ Page \subseteq Nat
    /\ \A p : p \in Page <=> p \in Nat /\ p < NPages
  <1>1. K \in Nat /\ K > 0 /\ NPages \in Nat
    BY ArenaAssumption, SMT DEF ArenaAssumption
  <1>2. HeapPages \in 0..NPages
    BY CallsAssumption DEF CallsAssumption
  <1>3. \A p : p \in Page <=> p \in Nat /\ p < NPages
    BY <1>1, SMT DEF Page
  <1> QED BY <1>1, <1>2, <1>3, SMT

\* Rounding up to host pages.
LEMMA AlignUpFacts ==
    ASSUME NEW n \in Nat
    PROVE  /\ AlignUp(n) \in Nat /\ n <= AlignUp(n)
           /\ \A q \in Nat : n = K * q => AlignUp(n) = n
           /\ n % K = 0 => \E q \in Nat : n = K * q
  <1>1. K \in Nat /\ K > 0
    BY PageFacts
  <1> DEFINE m == n + K - 1
             b == m \div K
  <1>2. m \in Nat
    BY <1>1, SMT
  <1>3. b \in Nat /\ K * b <= m /\ m < K * b + K
    BY <1>2, DivBounds
  <1>4. AlignUp(n) = K * b
    BY <1>1, <1>3, SMT DEF AlignUp
  <1>5. K * b \in Nat /\ n <= K * b
    <2> HIDE DEF b
    <2> QED BY <1>1, <1>3, SMT
  <1>6. ASSUME NEW q \in Nat, n = K * q PROVE K * b = n
    <2>1. q \in Nat /\ n = K * q
      BY <1>6
    <2>2. q <= b
      <3>1. K * q <= m
        BY <1>1, <2>1, SMT
      <3> QED BY <3>1, <2>1, <1>2, DivMonotone
    <2>3. ~ (q + 1 <= b)
      <3>1. K * (q + 1) = K * q + K
        BY <1>1, <2>1, SMT
      <3>2. ~ (K * (q + 1) <= m)
        BY <3>1, <1>1, <2>1, SMT
      <3>3. q + 1 \in Nat
        BY <2>1, SMT
      <3> QED BY <3>2, <3>3, <1>2, DivMonotone
    <2>4. q = b
      <3> HIDE DEF b
      <3> QED BY <2>1, <2>2, <2>3, <1>3, SMT
    <2> QED BY <2>1, <2>4
  <1>7. ASSUME n % K = 0 PROVE \E q \in Nat : n = K * q
    <2>1. n \div K \in Nat /\ n = K * (n \div K)
      BY <1>1, <1>7, SMT
    <2> QED BY <2>1
  <1> QED BY <1>4, <1>5, <1>6, <1>7

-----------------------------------------------------------------------------
(***************************************************************************)
(* What the arena's operations do to the pages.                            *)
(***************************************************************************)
\* Committing free pages.
LEMMA CommitFreeEffect ==
    ASSUME nextEpoch \in Nat \ {0}, NEW S, S \subseteq Page, NEW pr, CommitFree(S, pr, "ok")
    PROVE  /\ free' = free \ S
           /\ Committed' = Committed \cup S
           /\ open' = open \cup S
           /\ bytes' = [p \in Page |-> IF p \in S THEN "zero" ELSE bytes[p]]
           /\ nextEpoch' \in Nat \ {0}
  <1>1. /\ free' = free \ S /\ open' = open \cup S
        /\ RecordCommitted(S, pr, [p \in Page |-> nextEpoch], 1)
        /\ bytes' = Zeroed(S, "ok")
    BY DEF CommitFree
  <1>2. \A p \in Page : epoch'[p] = IF p \in S THEN nextEpoch ELSE epoch[p]
    BY <1>1 DEF RecordCommitted
  <1>3. nextEpoch' \in Nat \ {0}
    BY <1>1, SMT DEF RecordCommitted
  <1>4. Committed' = Committed \cup S
    BY <1>2 DEF Committed
  <1>5. bytes' = [p \in Page |-> IF p \in S THEN "zero" ELSE bytes[p]]
    BY <1>1 DEF Zeroed
  <1> QED BY <1>1, <1>3, <1>4, <1>5

\* A release.
LEMMA ReleaseEffect ==
    ASSUME NEW S, S \subseteq Page, Release(S, "ok")
    PROVE  /\ free' = free \cup Vacated(S)
           /\ Committed' = Committed \ S
           /\ open' = open \ Vacated(S)
           /\ bytes' = [p \in Page |-> IF p \in Vacated(S) THEN "zero" ELSE bytes[p]]
           /\ nextEpoch' = nextEpoch
           /\ Vacated(S) \subseteq Page /\ WholePages(Vacated(S))
           /\ Vacated(S) \cap Committed \subseteq S
  <1>1. /\ free' = free \cup Vacated(S)
        /\ \A p \in Page : epoch'[p] = IF p \in S THEN 0 ELSE epoch[p]
        /\ bytes' = Zeroed(Vacated(S), "ok")
        /\ open' = Closed(Vacated(S), "ok")
        /\ nextEpoch' = nextEpoch
    BY DEF Release
  <1>2. Committed' = Committed \ S
    BY <1>1 DEF Committed
  <1>3. Vacated(S) \subseteq Page /\ WholePages(Vacated(S))
    BY OutwardFacts, HostPageFacts DEF Vacated, WholePages
  <1>4. Vacated(S) \cap Committed \subseteq S
    BY <1>3, HostPageFacts DEF Vacated
  <1> QED BY <1>1, <1>2, <1>3, <1>4 DEF Zeroed, Closed

-----------------------------------------------------------------------------
(***************************************************************************)
(* Types.  A call's limit never passes the arena's end, so that what lies  *)
(* below it is pages; it may be negative, if two threads shrink the heap.  *)
(***************************************************************************)
MappingKinds == {"anon", "file", "shared"}
Protections == SUBSET {"R", "W", "X"}
Kinds == {"none", "anon", "file", "shared", "moved", "heap", "stack", "segment"}
ExecStages == {"image", "segments", "segprot", "stack", "heap", "adopt", "previous"}
CallStages == {"idle", "commit", "shrink", "alloc", "fill", "protect", "release", "move", "copy", "brk"}
Ends == {i \in Int : i <= NPages}
CallType == [at : CallStages \cup ExecStages, pages : SUBSET Page, n : Nat, hint : {NoHint} \cup Nat,
             kind : {"none", "anon", "file", "shared"}, prot : SUBSET {"R", "W", "X"},
             stale : SUBSET Page, from : Nat, limit : Ends]
HeapType == [base : Nat, break : Nat, limit : Ends]
SegmentType == [pages : SUBSET Page, attached : Nat, removed : BOOLEAN]
SlotType == [pages : SUBSET Page, inUse : BOOLEAN]
ProgramType == [images : SUBSET Page, stack : SUBSET Page, heap : SUBSET Page]

Typed ==
    /\ free \subseteq Page /\ nextEpoch \in Nat \ {0}
    /\ bytes \in [Page -> {"zero", "data"}]
    /\ held \in [Page -> Kinds]
    /\ call \in [Threads -> CallType]
    /\ heap \in HeapType
    /\ segments \in Seq(SegmentType)
    /\ slots \in Seq(SlotType)
    /\ program \in ProgramType /\ loading \in ProgramType

(***************************************************************************)
(* The calls' records.                                                     *)
(***************************************************************************)
LEMMA IdleFacts ==
    /\ Idle \in CallType
    /\ Idle.at = "idle" /\ Idle.pages = {} /\ Idle.n = 0 /\ Idle.hint = NoHint /\ Idle.kind = "none"
    /\ Idle.prot = {} /\ Idle.stale = {} /\ Idle.from = 0 /\ Idle.limit = 0
  <1>1. 0 \in Ends /\ NoHint \in {NoHint} \cup Nat /\ 0 \in Nat
    BY PageFacts, SMT DEF Ends
  <1> QED BY <1>1 DEF Idle, CallType, CallStages

LEMMA ShrunkRecord ==
    ASSUME NEW c \in CallType, NEW r, r = [c EXCEPT !.at = "alloc", !.from = 0, !.limit = 0]
    PROVE  /\ r \in CallType /\ r.at = "alloc" /\ r.pages = c.pages /\ r.n = c.n /\ r.kind = c.kind
           /\ r.stale = c.stale
  <1>1. 0 \in Ends /\ 0 \in Nat
    BY PageFacts, SMT DEF Ends
  <1> QED BY <1>1 DEF CallType, CallStages

LEMMA AnsweringRecord ==
    ASSUME NEW c \in CallType, NEW r, r = [c EXCEPT !.at = "protect", !.stale = {}]
    PROVE  r \in CallType /\ r.at = "protect" /\ r.pages = c.pages /\ r.kind = c.kind /\ r.stale = {}
  BY DEF CallType, CallStages

LEMMA UnmapRecord ==
    ASSUME NEW S, S \subseteq Page, NEW r, r = [Idle EXCEPT !.at = "release", !.pages = S]
    PROVE  r \in CallType /\ r.at = "release" /\ r.pages = S /\ r.kind = "none" /\ r.stale = {}
  BY IdleFacts DEF CallType, CallStages

LEMMA MovedRecord ==
    ASSUME NEW c \in CallType, NEW r, r = [c EXCEPT !.at = "release", !.n = 0, !.from = 0, !.limit = 0]
    PROVE  r \in CallType /\ r.at = "release" /\ r.pages = c.pages /\ r.kind = c.kind /\ r.stale = c.stale
  <1>1. 0 \in Ends /\ 0 \in Nat
    BY PageFacts, SMT DEF Ends
  <1> QED BY <1>1 DEF CallType, CallStages

\* A thread's call changes and nobody else's does.
LEMMA GoOnEffect ==
    ASSUME call \in [Threads -> CallType], NEW t \in Threads, NEW c \in CallType, GoOn(t, c)
    PROVE  /\ call' \in [Threads -> CallType] /\ call'[t] = c
           /\ \A u \in Threads : u # t => call'[u] = call[u]
  BY DEF GoOn

LEMMA BeginEffect ==
    ASSUME call \in [Threads -> CallType], NEW t \in Threads, NEW c \in CallType, Begin(t, c)
    PROVE  /\ call[t] = Idle
           /\ call' \in [Threads -> CallType] /\ call'[t] = c
           /\ \A u \in Threads : u # t => call'[u] = call[u]
  BY DEF Begin

-----------------------------------------------------------------------------
(***************************************************************************)
(* What each step does, in terms of the pages: the calls, the arena, what  *)
(* is held, the heap, the segments, the program.                           *)
(***************************************************************************)
Turn(t) ==
    /\ call' \in [Threads -> CallType]
    /\ \A u \in Threads : u # t => call'[u] = call[u]
Quiet == free' = free /\ Committed' = Committed /\ open \subseteq open'
Took(S) ==
    /\ S \subseteq free /\ WholePages(S)
    /\ free' = free \ S /\ Committed' = Committed \cup S /\ open' = open \cup S
    /\ bytes' = [p \in Page |-> IF p \in S THEN "zero" ELSE bytes[p]]
    /\ live' = live \ S
Gave(S) ==
    /\ S \subseteq Page
    /\ free' = free \cup Vacated(S) /\ Committed' = Committed \ S /\ open' = open \ Vacated(S)
    /\ bytes' = [p \in Page |-> IF p \in Vacated(S) THEN "zero" ELSE bytes[p]]
    /\ live' = live \ Vacated(S)
SameBytes == bytes' = bytes
SameViews == live' = live /\ slots' = slots
SameProgram == program' = program /\ loading' = loading
SameOwners == heap' = heap /\ segments' = segments /\ SameProgram
SameLands == heap' = heap /\ segments' = segments /\ program' = program

\* What every state keeps: types, the size of what will be allocated, and the
\* books of the arena.
SizedCall(c) ==
    /\ c.at \in {"alloc", "shrink", "move", "image"} => c.n # 0
    /\ c.at = "shrink" => c.from < c.limit
    /\ c.at = "adopt" => c.from + HeapPages <= NPages
Booked == FreeIsUncommitted /\ WholePages(free) /\ NothingLeaked
BooksInv == Typed /\ Booked /\ \A t \in Threads : SizedCall(call[t])

LEMMA BookedQuiet ==
    ASSUME Booked, free' = free, Committed' = Committed
    PROVE  Booked'
  <1>1. NothingLeaked'
    <2>1. Committed' = Committed \cup {} /\ free \ {} \subseteq free'
      OBVIOUS
    <2> QED BY <2>1, CommittedIsNotLost DEF Booked
  <1>2. FreeIsUncommitted' /\ WholePages(free)'
    BY DEF Booked, FreeIsUncommitted, WholePages
  <1> QED BY <1>1, <1>2 DEF Booked

LEMMA BookedCommit ==
    ASSUME Booked, NEW S, S \subseteq Page, WholePages(S), free \subseteq Page,
           free' = free \ S, Committed' = Committed \cup S
    PROVE  Booked'
  <1>1. NothingLeaked'
    <2>1. free \ S \subseteq free'
      OBVIOUS
    <2> QED BY <2>1, CommittedIsNotLost DEF Booked
  <1>2. FreeIsUncommitted'
    BY DEF Booked, FreeIsUncommitted
  <1>3. ASSUME NEW p \in free' PROVE HostPage[p] \subseteq free'
    <2>1. p \in Page /\ p \in free /\ p \notin S /\ HostPage[p] \subseteq free
      BY DEF Booked, WholePages
    <2>2. ASSUME NEW q \in HostPage[p], q \in S PROVE FALSE
      <3>1. p \in HostPage[q]
        BY <2>1, HostPageFacts
      <3>2. HostPage[q] \subseteq S
        BY <2>2 DEF WholePages
      <3> QED BY <2>1, <3>1, <3>2
    <2> QED BY <2>1, <2>2
  <1> QED BY <1>1, <1>2, <1>3 DEF Booked, WholePages

LEMMA VacatedFacts ==
    ASSUME NEW S, S \subseteq Page
    PROVE  /\ Vacated(S) \subseteq Page /\ WholePages(Vacated(S))
           /\ Vacated(S) \cap Committed \subseteq S
  <1>1. \A p \in Outward(S) : p \in Page /\ HostPage[p] \subseteq Outward(S)
    BY OutwardFacts DEF WholePages
  <1>2. Vacated(S) \subseteq Page
    BY <1>1 DEF Vacated
  <1>3. ASSUME NEW p \in Vacated(S), NEW q \in HostPage[p] PROVE q \in Vacated(S)
    <2>1. q \in Outward(S) /\ HostPage[p] \cap Committed \subseteq S
      BY <1>1 DEF Vacated
    <2>2. HostPage[q] = HostPage[p]
      BY <1>2, HostPageFacts
    <2> QED BY <2>1, <2>2 DEF Vacated
  <1>4. Vacated(S) \cap Committed \subseteq S
    BY <1>2, HostPageFacts DEF Vacated
  <1> QED BY <1>2, <1>3, <1>4 DEF WholePages

LEMMA BookedRelease ==
    ASSUME Booked, NEW S, S \subseteq Page, free \subseteq Page, Release(S, "ok"), Fresh(Vacated(S))
    PROVE  Booked' /\ Gave(S) /\ nextEpoch' = nextEpoch
  <1>1. Gave(S) /\ nextEpoch' = nextEpoch
    BY ReleaseEffect DEF Gave, Fresh
  <1>2. NothingLeaked'
    BY ReleaseLosesNothing DEF Booked
  <1>3. FreeIsUncommitted'
    BY <1>1, VacatedFacts DEF Gave, Booked, FreeIsUncommitted
  <1>4. WholePages(free)'
    BY <1>1, VacatedFacts DEF Gave, Booked, WholePages
  <1> QED BY <1>1, <1>2, <1>3, <1>4 DEF Booked

\* A placement is a page, or the arena's end if nothing is asked for.
LEMMA PlacementType ==
    ASSUME NEW len \in Nat, NEW hint \in {NoHint} \cup Nat, NEW s \in Placement(len, hint)
    PROVE  s \in Nat /\ (len = 0 => s <= NPages)
  <1>1. NPages \in Nat /\ Floor \in Nat /\ K \in Nat
    BY ArenaAssumption, SMT DEF ArenaAssumption
  <1>2. CASE hint # NoHint /\ AlignDown(hint) + len <= NPages /\ s = AlignDown(hint)
    <2>1. hint \in Nat
      BY <1>2
    <2>2. hint \div K \in Nat
      BY <2>1, DivBounds
    <2>3. s \in Nat
      BY <1>1, <1>2, <2>2, SMT DEF AlignDown
    <2> QED BY <1>1, <1>2, <2>3, SMT
  <1>3. CASE s \in FirstFit(len, AlignUp(Floor)) \cup FirstFit(len, 0)
    <2>1. AlignUp(Floor) \in Nat
      BY <1>1, AlignUpFacts
    <2>2. s \in AlignUp(Floor)..(NPages - 1) \cup 0..(NPages - 1)
      BY <1>3 DEF FirstFit
    <2> QED BY <1>1, <2>1, <2>2, SMT
  <1> QED BY <1>2, <1>3 DEF Placement

\* A block taken from the free list.
LEMMA BookedBlock ==
    ASSUME Booked, free \subseteq Page, nextEpoch \in Nat \ {0}, NEW n \in Nat \ {0}, NEW hint \in {NoHint} \cup Nat,
           NEW s \in Placement(AlignUp(n), hint), NEW pr,
           CommitFree(s..(s + AlignUp(n) - 1), pr, "ok"), Fresh(s..(s + AlignUp(n) - 1))
    PROVE  /\ Booked' /\ Took(s..(s + AlignUp(n) - 1)) /\ nextEpoch' \in Nat \ {0}
           /\ s \in Nat /\ s + n <= NPages /\ s..(s + n - 1) \subseteq s..(s + AlignUp(n) - 1)
  <1> DEFINE S == s..(s + AlignUp(n) - 1)
  <1>1. S \subseteq free /\ WholePages(S)
    BY PlacementIsWhole DEF Booked
  <1>2. S \subseteq Page
    BY <1>1
  <1>3. Took(S) /\ nextEpoch' \in Nat \ {0}
    BY <1>1, <1>2, CommitFreeEffect DEF Took, Fresh
  <1>4. Booked'
    BY <1>1, <1>2, <1>3, BookedCommit DEF Took
  <1>5. AlignUp(n) \in Nat /\ n <= AlignUp(n) /\ n \in Nat /\ n >= 1
    <2>1. n \in Nat /\ n >= 1
      BY SMT
    <2> QED BY <2>1, AlignUpFacts
  <1>6. s \in Nat
    BY <1>5, PlacementType
  <1>7. s \in Nat /\ s + n <= NPages /\ s..(s + n - 1) \subseteq S
    <2>1. s \in S /\ s + n - 1 \in S
      BY <1>5, <1>6, SMT
    <2>2. s \in Nat /\ s + n - 1 \in Nat /\ s + n - 1 < NPages
      BY <1>2, <2>1, PageFacts
    <2>3. s..(s + n - 1) \subseteq S
      BY <1>5, <1>6, SMT
    <2> QED BY <2>2, <2>3, PageFacts, SMT
  <1> QED BY <1>3, <1>4, <1>7

LEMMA RequestFacts ==
    /\ \A S \in CopySpans : S \subseteq Page /\ S # {}
    /\ \A n \in Sizes : n \in Nat \ {0}
    /\ \A h \in {NoHint} \cup Hints : h \in {NoHint} \cup Nat
    /\ \A r \in Requests : r.kind \in MappingKinds /\ r.prot \in Protections
    /\ \A pr \in Prots : pr \in SUBSET {"R", "W", "X"}
    /\ Placed \subseteq Page /\ Image \subseteq Placed /\ Image \cap Heap = {} /\ Heap \subseteq Page
    /\ HeapThreads \subseteq Threads
  <1>1. CopySpans \subseteq SUBSET Page /\ CopySpans \subseteq Spans
    BY ArenaAssumption, CallsAssumption DEF ArenaAssumption, CallsAssumption, Page
  <1>2. {} \notin Spans
    BY SMT DEF Spans
  <1>3. \A S \in CopySpans : S \subseteq Page /\ S # {}
    BY <1>1, <1>2
  <1>4. Sizes \subseteq 1..NPages /\ Hints \subseteq 0..(NPages - 1) /\ Prots \subseteq SUBSET {"R", "W", "X"}
    BY ArenaAssumption DEF ArenaAssumption
  <1>5. \A n \in Sizes : n \in Nat \ {0}
    BY <1>4, PageFacts, SMT
  <1>6. \A h \in Hints : h \in Nat
    BY <1>4, PageFacts, SMT
  <1>7. Requests \subseteq [kind : {"anon", "file", "shared"}, prot : SUBSET {"R", "W", "X"}]
    BY CallsAssumption DEF CallsAssumption
  <1>8. \A r \in Requests : r.kind \in MappingKinds /\ r.prot \in Protections
    BY <1>7 DEF MappingKinds, Protections
  <1>9. Heap \subseteq Page
    <2>1. HeapPages \in 0..NPages
      BY CallsAssumption DEF CallsAssumption
    <2> QED BY <2>1, PageFacts, SMT DEF Heap
  <1>10. /\ Placed \subseteq 0..(NPages - 1) /\ Image \subseteq Placed /\ Image \cap 0..(HeapPages - 1) = {}
         /\ HeapThreads \subseteq Threads
    BY CallsAssumption DEF CallsAssumption
  <1> QED BY <1>3, <1>4, <1>5, <1>6, <1>8, <1>9, <1>10 DEF Page, Heap

\* Replacing the shared views in S.
LEMMA ReplaceEffect ==
    ASSUME slots \in Seq(SlotType), NEW S, S \subseteq Page, ReplaceSharedMappingsIn(S)
    PROVE  /\ open \subseteq open' /\ live' \subseteq live
           /\ slots' \in Seq(SlotType) /\ DOMAIN slots' = DOMAIN slots /\ Len(slots') = Len(slots)
           /\ \A i \in DOMAIN slots : slots'[i].pages = slots[i].pages
           /\ \A i \in DOMAIN slots : \A p \in S : slots[i].inUse /\ p \in slots[i].pages => p \notin live'
           /\ \A i \in DOMAIN slots : \A p \in live' : slots[i].inUse /\ p \in slots[i].pages => slots'[i].inUse
  <1> DEFINE all == UNION {Replaced(S, slots[i]) : i \in DOMAIN slots}
  <1>1. /\ live' = live \ all
        /\ open' = open \cup all
        /\ slots' = [i \in DOMAIN slots |->
                        [slots[i] EXCEPT !.inUse = @ /\ ~(slots[i].pages \subseteq Replaced(S, slots[i]))]]
    BY DEF ReplaceSharedMappingsIn
  <1>2. DOMAIN slots = 1..Len(slots) /\ Len(slots) \in Nat
    BY SMT
  <1>3. \A i \in DOMAIN slots : slots[i] \in SlotType
    BY SMT
  <1>4. ASSUME NEW i \in DOMAIN slots
        PROVE  /\ slots'[i] \in SlotType
               /\ slots'[i].pages = slots[i].pages
               /\ slots'[i].inUse <=> slots[i].inUse /\ ~(slots[i].pages \subseteq Replaced(S, slots[i]))
    BY <1>1, <1>3 DEF SlotType
  <1>5. DOMAIN slots' = DOMAIN slots
    BY <1>1
  <1>6. slots' \in Seq(SlotType) /\ Len(slots') = Len(slots)
    <2>1. slots' \in [1..Len(slots) -> SlotType]
      BY <1>1, <1>2, <1>4, <1>5
    <2> QED BY <2>1, <1>2, SMT
  <1>7. ASSUME NEW i \in DOMAIN slots, NEW p \in S, slots[i].inUse, p \in slots[i].pages PROVE p \notin live'
    <2> DEFINE T == S \cap slots[i].pages
    <2>1. p \in Outward(T)
      <3>1. T \subseteq Page /\ p \in T
        BY <1>7
      <3> QED BY <3>1, OutwardFacts
    <2>2. p \in Replaced(S, slots[i])
      BY <1>7, <2>1 DEF Replaced
    <2>3. p \in all
      BY <2>2
    <2> QED BY <1>1, <2>3
  <1>8. ASSUME NEW i \in DOMAIN slots, NEW p \in live', slots[i].inUse, p \in slots[i].pages PROVE slots'[i].inUse
    BY <1>1, <1>4, <1>8
  <1> QED BY <1>1, <1>4, <1>5, <1>6, <1>7, <1>8

\* The steps that leave the arena's books alone, and bytes and what is open too.
LEMMA BooksOfQuietStep ==
    ASSUME BooksInv, NEW t \in Threads, Turn(t), SizedCall(call'[t]),
           free' = free, Committed' = Committed, nextEpoch' = nextEpoch,
           bytes' \in [Page -> {"zero", "data"}], held' \in [Page -> Kinds], heap' \in HeapType,
           segments' \in Seq(SegmentType), slots' \in Seq(SlotType), program' \in ProgramType, loading' \in ProgramType
    PROVE  BooksInv'
  <1>1. Booked'
    BY BookedQuiet DEF BooksInv
  <1>2. Typed'
    BY DEF BooksInv, Typed, Turn
  <1>3. \A u \in Threads : SizedCall(call[u])'
    BY DEF BooksInv, Turn, SizedCall
  <1> QED BY <1>1, <1>2, <1>3 DEF BooksInv

-----------------------------------------------------------------------------
(***************************************************************************)
(* Whose pages are whose.  A call under way has a claim on the pages it is *)
(* working on, which nobody else has one on and which are nobody's heap,   *)
(* segment or stack.  With two threads moving the break, or a program that *)
(* execs after its heap gave up reserve, this does not hold, and the       *)
(* theorems below assume neither happens.                                  *)
(***************************************************************************)
OneHeapThread == \A t, u \in HeapThreads : t = u
Careful == OneHeapThread /\ ~ExecsShrunk
NobodyExecs == \A t \in Threads : ~Execing(t)

\* What a call works on: its pages, by the host page where it maps a file, and
\* where mremap copies to.
Target(c) == IF c.at = "copy" THEN c.from..(c.limit - 1) ELSE {}
Claim(c) == (IF c.kind = "shared" THEN Outward(c.pages) ELSE c.pages) \cup Target(c)
KeptPages == {p \in Page : IsKept(p)}
Usable == Committed \cap open
Lands == Reserve \cup KeptPages \cup program.stack

\* How far the call c of thread t is, with the heap as h says.
StagedCall(t, c, h) ==
    /\ c.at \notin {"commit", "fill", "protect", "release", "move", "copy"} => c.pages = {}
    /\ c.at \in {"move", "copy", "release"} => c.kind = "none"
    /\ c.at \in {"brk", "shrink"} => t \in HeapThreads
    /\ c.at = "brk" => c.from = h.break /\ h.base <= c.n /\ c.n <= h.limit
    /\ c.at = "shrink" => h.break <= c.from /\ c.from < h.limit /\ c.limit = h.limit
    /\ c.at = "commit" /\ c.kind = "shared" => Outward(c.pages) = c.pages
    /\ c.stale \subseteq c.pages

\* Once it has them, a call's pages are usable; until then, committed or where
\* only a guest's own choice puts anything.
UsableCall(c, committed, usable) ==
    /\ c.at \in {"fill", "protect", "release", "move", "copy"} => Claim(c) \subseteq usable
    /\ c.at = "commit" => c.pages \subseteq committed \cup Placed

\* The guest has not been given them, or not yet lost them.
HeldCall(c, h) ==
    /\ c.at \notin {"move", "copy"} => \A p \in Claim(c) : h[p] = "none"
    /\ c.at \in {"move", "copy"} => \A p \in c.pages : h[p] \in Mapped
    /\ \A p \in Target(c) : h[p] = "none"

OwnCall(c, lands) == Claim(c) \cap lands = {} /\ (Claim(c) \ c.pages) \cap Placed = {}

CallOK(t, c, h, committed, usable, holding, lands) ==
    StagedCall(t, c, h) /\ UsableCall(c, committed, usable) /\ HeldCall(c, holding) /\ OwnCall(c, lands)

CallsInv ==
    /\ \A t \in Threads : CallOK(t, call[t], heap, Committed, Usable, held, Lands)
    /\ \A t, u \in Threads : t # u => Claim(call[t]) \cap Claim(call[u]) = {}

\* The heap's reserve, the segments and the stack lie apart, are usable, and are
\* held as what they are.
LandsInv ==
    /\ heap.base <= heap.break /\ heap.break <= heap.limit /\ heap.limit <= heap.base + HeapPages
    /\ Reserve \cap (KeptPages \cup program.stack) = {} /\ program.stack \cap KeptPages = {}
    /\ KeptPages \cap Placed = {}
    /\ \A i, j \in DOMAIN segments : i # j => segments[i].pages \cap segments[j].pages = {}
    /\ Lands \subseteq Usable
    /\ HeldIsUsable
    /\ \A p \in Reserve : held[p] \in {"none", "heap"} /\ (heap.break <= p => held[p] = "none")
    /\ \A p \in Page : held[p] = "heap" => p \in Reserve
    /\ \A p \in KeptPages : held[p] \in {"none", "segment"}
    /\ \A p \in Page : held[p] = "segment" => p \in KeptPages
    /\ \A i \in DOMAIN segments : segments[i].attached = 0 => \A p \in segments[i].pages : held[p] = "none"
    /\ \A p \in Page : p \in program.stack <=> held[p] = "stack"

LEMMA ClaimFacts ==
    ASSUME NEW c \in CallType
    PROVE  /\ c.pages \subseteq Claim(c) /\ Claim(c) \subseteq Page /\ Target(c) \subseteq Claim(c)
           /\ c.at # "copy" /\ c.pages = {} => Claim(c) = {}
           /\ c.at # "copy" /\ c.kind # "shared" => Claim(c) = c.pages
           /\ c.at = "commit" /\ (c.kind = "shared" => Outward(c.pages) = c.pages) => Claim(c) = c.pages
           /\ c.at \notin {"move", "copy", "release"} => Claim(c) = IF c.kind = "shared" THEN Outward(c.pages) ELSE c.pages
  <1>1. c.pages \subseteq Page /\ c.from \in Nat /\ c.limit \in Ends
    BY DEF CallType
  <1>2. c.from..(c.limit - 1) \subseteq Page
    BY <1>1, PageFacts, SMT DEF Ends
  <1>3. Outward(c.pages) \subseteq Page /\ c.pages \subseteq Outward(c.pages)
    BY <1>1, OutwardFacts
  <1>4. c.pages = {} => Outward(c.pages) = {}
    BY DEF Outward
  <1> QED BY <1>1, <1>2, <1>3, <1>4 DEF Claim, Target

\* A step of t takes usable pages only from G and changes holdings only in D,
\* neither of which another call has a claim on, and claims nothing of theirs.
Spares(t, G, D) ==
    /\ Usable \ G \subseteq Usable' /\ Committed \ G \subseteq Committed'
    /\ \A p \in Page : p \notin D => held'[p] = held[p]
    /\ \A u \in Threads : u # t => /\ Claim(call[u]) \cap G = {} /\ Claim(call[u]) \cap D = {}
                                   /\ Claim(call'[t]) \cap Claim(call[u]) = {}

LEMMA CallsKeep ==
    ASSUME BooksInv, CallsInv, NEW t \in Threads, Turn(t), NEW G, NEW D, Spares(t, G, D),
           \A u \in Threads : u # t => StagedCall(u, call[u], heap') /\ Claim(call[u]) \cap Lands' = {},
           CallOK(t, call'[t], heap', Committed', Usable', held', Lands')
    PROVE  CallsInv'
  <1> USE DEF Spares
  <1>1. ASSUME NEW u \in Threads, u # t
        PROVE  CallOK(u, call[u], heap', Committed', Usable', held', Lands')
    <2>1. call[u] \in CallType
      BY DEF BooksInv, Typed
    <2>2. Claim(call[u]) \subseteq Page
      BY <2>1, ClaimFacts
    <2>3. CallOK(u, call[u], heap, Committed, Usable, held, Lands)
      BY DEF CallsInv
    <2>4. Usable \cap Claim(call[u]) \subseteq Usable' /\ Committed \cap Claim(call[u]) \subseteq Committed'
      BY <1>1
    <2>5. \A p \in Claim(call[u]) : held'[p] = held[p]
      BY <1>1, <2>2
    <2>6. StagedCall(u, call[u], heap') /\ Claim(call[u]) \cap Lands' = {}
      BY <1>1
    <2>7. call[u].pages \subseteq Claim(call[u]) /\ Target(call[u]) \subseteq Claim(call[u])
      BY <2>1, ClaimFacts
    <2>8. UsableCall(call[u], Committed', Usable')
      BY <2>3, <2>4, <2>7 DEF CallOK, UsableCall
    <2>9. HeldCall(call[u], held')
      BY <2>3, <2>5, <2>7 DEF CallOK, HeldCall
    <2>10. OwnCall(call[u], Lands')
      BY <2>3, <2>6 DEF CallOK, OwnCall
    <2> QED BY <2>6, <2>8, <2>9, <2>10 DEF CallOK
  <1>2. \A u \in Threads : u # t => call'[u] = call[u]
    BY DEF Turn
  <1>3. \A u \in Threads : CallOK(u, call'[u], heap', Committed', Usable', held', Lands')
    <2> TAKE u \in Threads
    <2>1. CASE u = t
      BY <2>1
    <2>2. CASE u # t
      BY <2>2, <1>1, <1>2
    <2> QED BY <2>1, <2>2
  <1>4. \A u, v \in Threads : u # v => Claim(call'[u]) \cap Claim(call'[v]) = {}
    <2> TAKE u, v \in Threads
    <2> HAVE u # v
    <2>1. CASE u = t
      BY <2>1, <1>2
    <2>2. CASE v = t
      <3>1. Claim(call'[v]) \cap Claim(call[u]) = {}
        BY <2>2
      <3> QED BY <2>2, <3>1, <1>2
    <2>3. CASE u # t /\ v # t
      BY <2>3, <1>2 DEF CallsInv
    <2> QED BY <2>1, <2>2, <2>3
  <1> QED BY <1>3, <1>4 DEF CallsInv

\* A step that leaves the heap, the segments and the program alone: it takes
\* pages only from G and changes holdings only in D, which are nobody's land,
\* and what the guest holds in either is usable memory of its own.
OffLands(G, D) ==
    /\ G \cap Lands = {} /\ D \cap Lands = {} /\ \A p \in Page : p \in G => held'[p] = "none"
    /\ \A p \in Page : p \in D => held'[p] = "none" \/ (held'[p] \in Mapped /\ p \in Usable')

LEMMA LandsKeep ==
    ASSUME BooksInv, LandsInv, SameLands, NEW t, NEW G, NEW D, Spares(t, G, D), OffLands(G, D)
    PROVE  LandsInv' /\ Lands' = Lands /\ Reserve' = Reserve /\ KeptPages' = KeptPages
  <1>0. /\ Usable \ G \subseteq Usable' /\ \A p \in Page : p \notin D => held'[p] = held[p]
        /\ G \cap Lands = {} /\ D \cap Lands = {} /\ \A p \in Page : p \in G => held'[p] = "none"
        /\ \A p \in Page : p \in D => held'[p] = "none" \/ (held'[p] \in Mapped /\ p \in Usable')
    BY DEF Spares, OffLands
  <1>1. heap' = heap /\ segments' = segments /\ program' = program
    BY DEF SameLands
  <1>2. Reserve' = Reserve /\ KeptPages' = KeptPages
    BY <1>1 DEF Reserve, KeptPages, IsKept
  <1>3. Lands' = Lands
    BY <1>1, <1>2 DEF Lands
  <1>4. Reserve \subseteq Page /\ KeptPages \subseteq Page /\ program.stack \subseteq Page
    <2>1. heap.base \in Nat /\ heap.limit \in Ends
      BY DEF BooksInv, Typed, HeapType
    <2>2. Reserve \subseteq Page
      BY <2>1, PageFacts, SMT DEF Reserve, Ends
    <2> QED BY <2>2 DEF BooksInv, Typed, ProgramType, KeptPages
  <1>5. \A p \in Lands : held'[p] = held[p]
    BY <1>0, <1>4 DEF Lands
  <1>6. Lands \subseteq Usable'
    BY <1>0 DEF LandsInv
  <1>7. HeldIsUsable'
    <2> SUFFICES ASSUME NEW p \in Page, held'[p] # "none" PROVE p \in Usable'
      BY DEF HeldIsUsable, Usable
    <2>1. CASE p \in D
      BY <1>0, <2>1
    <2>2. CASE p \notin D
      <3>1. held[p] # "none" /\ p \notin G
        BY <1>0, <2>2
      <3>2. p \in Usable
        BY <3>1 DEF LandsInv, HeldIsUsable, Usable
      <3> QED BY <1>0, <3>1, <3>2
    <2> QED BY <2>1, <2>2
  <1>9. \A p \in Page : held'[p] \in {"heap", "segment", "stack"} => held'[p] = held[p]
    <2> TAKE p \in Page
    <2>1. CASE p \in D
      BY <1>0, <2>1 DEF Mapped
    <2>2. CASE p \notin D
      BY <1>0, <2>2
    <2> QED BY <2>1, <2>2
  <1>10. \A p \in Reserve : held'[p] \in {"none", "heap"} /\ (heap.break <= p => held'[p] = "none")
    BY <1>5 DEF LandsInv, Lands
  <1>11. \A p \in Page : held'[p] = "heap" => p \in Reserve
    BY <1>9 DEF LandsInv
  <1>12. \A p \in KeptPages : held'[p] \in {"none", "segment"}
    BY <1>5 DEF LandsInv, Lands
  <1>13. \A p \in Page : held'[p] = "segment" => p \in KeptPages
    BY <1>9 DEF LandsInv
  <1>14. \A i \in DOMAIN segments : segments[i].attached = 0 => \A p \in segments[i].pages : held'[p] = "none"
    <2> TAKE i \in DOMAIN segments
    <2> HAVE segments[i].attached = 0
    <2> TAKE p \in segments[i].pages
    <2>1. held[p] = "none"
      BY DEF LandsInv
    <2>2. segments[i].pages \subseteq Page
      <3>1. segments[i] \in SegmentType
        BY SMT DEF BooksInv, Typed
      <3> QED BY <3>1 DEF SegmentType
    <2>3. p \in Lands
      BY <2>2 DEF Lands, KeptPages, IsKept
    <2> QED BY <1>5, <2>1, <2>3
  <1>15. \A p \in Page : p \in program.stack <=> held'[p] = "stack"
    <2> TAKE p \in Page
    <2>1. ASSUME p \in program.stack PROVE held'[p] = "stack"
      BY <1>5, <2>1 DEF LandsInv, Lands
    <2>2. ASSUME held'[p] = "stack" PROVE p \in program.stack
      BY <1>9, <2>2 DEF LandsInv
    <2> QED BY <2>1, <2>2
  <1> HIDE DEF LandsInv
  <1>16. /\ heap'.base <= heap'.break /\ heap'.break <= heap'.limit /\ heap'.limit <= heap'.base + HeapPages
         /\ Reserve' \cap (KeptPages' \cup program'.stack) = {} /\ program'.stack \cap KeptPages' = {}
         /\ KeptPages' \cap Placed = {}
         /\ \A i, j \in DOMAIN segments' : i # j => segments'[i].pages \cap segments'[j].pages = {}
    BY <1>1, <1>2 DEF LandsInv
  <1> QED BY <1>1, <1>2, <1>3, <1>6, <1>7, <1>10, <1>11, <1>12, <1>13, <1>14, <1>15, <1>16 DEF LandsInv

\* While a program is being loaded nobody calls.  What has been loaded so far is
\* usable and apart from all the old program has; after the change, the old
\* program's stack and heap are nobody's.
Before == {"image", "segments", "segprot", "stack", "heap", "adopt"}
Loaded == loading.images \cup loading.stack \cup loading.heap

LoadInv(c) ==
    /\ Reserve = program.heap
    /\ Loaded \subseteq Usable /\ Loaded \cap Lands = {}
    /\ \A p \in Loaded : held[p] = "none"
    /\ loading.images \cap loading.stack = {} /\ (loading.images \cup loading.stack) \cap loading.heap = {}
    /\ c.at \notin {"heap", "adopt"} => loading.stack = {}
    /\ c.at # "adopt" => loading.heap = {}
    /\ c.at = "adopt" => loading.heap = Span(c.from, HeapPages)
    /\ c.at = "segments" => Span(c.from, ImageSize) \subseteq loading.images

ExecsInv ==
    /\ program.heap = Span(heap.base, HeapPages)
    /\ NobodyExecs => loading = NoProgram
    /\ \A t \in Threads : Execing(t) => /\ call[t].pages = {} /\ call[t].kind = "none" /\ call[t].stale = {}
                                        /\ \A u \in Threads : u # t => call[u] = Idle
    /\ \A t \in Threads : call[t].at \in Before => LoadInv(call[t])
    /\ \A t \in Threads : call[t].at = "previous" =>
        ProgramData \cap Lands = {} /\ \A p \in ProgramData : held[p] = "none"

OwnInv == BooksInv /\ CallsInv /\ LandsInv /\ ExecsInv

\* No program is being loaded, before or after.
LEMMA ExecsKeep ==
    ASSUME ExecsInv, NobodyExecs, NEW t \in Threads, Turn(t), SameProgram,
           heap'.base = heap.base, call'[t].at \in CallStages
    PROVE  ExecsInv'
  <1>1. \A u \in Threads : call'[u].at \notin ExecStages
    <2> TAKE u \in Threads
    <2>1. CASE u = t
      BY <2>1 DEF CallStages, ExecStages
    <2>2. CASE u # t
      BY <2>2 DEF Turn, NobodyExecs, Execing, ExecStages
    <2> QED BY <2>1, <2>2
  <1>2. loading = NoProgram /\ program.heap = Span(heap.base, HeapPages)
    BY DEF ExecsInv
  <1> QED BY <1>1, <1>2 DEF ExecsInv, NobodyExecs, Execing, ExecStages, Before, Span, SameProgram

\* A step of a memory call that leaves the owners alone.
LEMMA OrdinaryStep ==
    ASSUME OwnInv, NobodyExecs, NEW t \in Threads, BooksInv', Turn(t), SameOwners, NEW G, NEW D,
           Spares(t, G, D), OffLands(G, D),
           call'[t].at \in CallStages,
           CallOK(t, call'[t], heap, Committed', Usable', held', Lands)
    PROVE  OwnInv'
  <1>0. BooksInv /\ CallsInv /\ LandsInv /\ ExecsInv
    BY DEF OwnInv
  <1>1. heap' = heap /\ program' = program /\ loading' = loading /\ SameLands
    BY DEF SameOwners, SameProgram, SameLands
  <1>2. LandsInv' /\ Lands' = Lands
    BY <1>0, <1>1, LandsKeep
  <1>3. CallOK(t, call'[t], heap', Committed', Usable', held', Lands')
    BY <1>1, <1>2
  <1>4. \A u \in Threads : u # t => StagedCall(u, call[u], heap') /\ Claim(call[u]) \cap Lands' = {}
    BY <1>0, <1>1, <1>2 DEF CallsInv, CallOK, OwnCall
  <1>5. CallsInv'
    BY <1>0, <1>3, <1>4, CallsKeep
  <1>6. heap'.base = heap.base /\ SameProgram
    BY <1>2 DEF SameOwners
  <1>7. ExecsInv'
    BY <1>0, <1>6, ExecsKeep
  <1> QED BY <1>2, <1>5, <1>7 DEF OwnInv

\* Memory that is not committed and where no guest puts anything is nobody's.
LEMMA FreshIsNobodys ==
    ASSUME OwnInv, NEW B, B \cap Committed = {}
    PROVE  /\ B \cap Lands = {} /\ \A p \in Page : p \in B => held[p] = "none"
           /\ B \cap Placed = {} => \A u \in Threads : Claim(call[u]) \cap B = {}
  <1>0. BooksInv /\ CallsInv /\ LandsInv
    BY DEF OwnInv
  <1>1. B \cap Usable = {}
    BY DEF Usable
  <1>2. B \cap Lands = {}
    BY <1>0, <1>1 DEF LandsInv
  <1>3. \A p \in Page : p \in B => held[p] = "none"
    BY <1>0, <1>1 DEF LandsInv, HeldIsUsable, Usable
  <1>4. ASSUME B \cap Placed = {}, NEW u \in Threads PROVE Claim(call[u]) \cap B = {}
    <2>1. call[u] \in CallType /\ StagedCall(u, call[u], heap) /\ UsableCall(call[u], Committed, Usable)
      BY <1>0 DEF BooksInv, Typed, CallsInv, CallOK
    <2>2. CASE call[u].at \in {"fill", "protect", "release", "move", "copy"}
      BY <1>1, <2>1, <2>2 DEF UsableCall
    <2>3. CASE call[u].at = "commit"
      <3>1. Claim(call[u]) = call[u].pages
        BY <2>1, <2>3, ClaimFacts DEF StagedCall
      <3> QED BY <1>4, <2>1, <2>3, <3>1 DEF UsableCall
    <2>4. CASE call[u].at \notin {"commit", "fill", "protect", "release", "move", "copy"}
      BY <2>1, <2>4, ClaimFacts DEF StagedCall
    <2> QED BY <2>2, <2>3, <2>4
  <1> QED BY <1>2, <1>3, <1>4

\* A call that has no pages yet.
LEMMA NoClaim ==
    ASSUME NEW c \in CallType, NEW t, NEW h, NEW C, NEW U, NEW holding, NEW L, StagedCall(t, c, h),
           c.at \notin {"commit", "fill", "protect", "release", "move", "copy"}
    PROVE  CallOK(t, c, h, C, U, holding, L) /\ Claim(c) = {}
  <1>1. c.pages = {}
    BY DEF StagedCall
  <1>2. Claim(c) = {} /\ Target(c) = {}
    BY <1>1, ClaimFacts
  <1> QED BY <1>2 DEF CallOK, UsableCall, HeldCall, OwnCall

LEMMA IdleIsOK ==
    ASSUME NEW t, NEW h, NEW C, NEW U, NEW holding, NEW L
    PROVE  CallOK(t, Idle, h, C, U, holding, L) /\ Claim(Idle) = {}
  <1>1. StagedCall(t, Idle, h)
    BY IdleFacts DEF StagedCall
  <1>2. Idle \in CallType /\ Idle.at \notin {"commit", "fill", "protect", "release", "move", "copy"}
    BY IdleFacts
  <1> QED BY <1>1, <1>2, NoClaim

LEMMA CallFacts ==
    ASSUME OwnInv, NEW t \in Threads
    PROVE  /\ call[t] \in CallType /\ CallOK(t, call[t], heap, Committed, Usable, held, Lands)
           /\ StagedCall(t, call[t], heap) /\ UsableCall(call[t], Committed, Usable)
           /\ HeldCall(call[t], held) /\ OwnCall(call[t], Lands)
           /\ Claim(call[t]) \subseteq Page /\ call[t].pages \subseteq Claim(call[t])
           /\ Target(call[t]) \subseteq Claim(call[t])
           /\ \A u \in Threads : u # t => Claim(call[t]) \cap Claim(call[u]) = {}
           /\ \A u \in Threads : u # t => Claim(call[u]) \cap Claim(call[t]) = {}
  <1>1. call[t] \in CallType
    BY DEF OwnInv, BooksInv, Typed
  <1>2. CallOK(t, call[t], heap, Committed, Usable, held, Lands)
    BY DEF OwnInv, CallsInv
  <1>3. \A u \in Threads : u # t => Claim(call[t]) \cap Claim(call[u]) = {}
    BY DEF OwnInv, CallsInv
  <1>4. \A u \in Threads : u # t => Claim(call[u]) \cap Claim(call[t]) = {}
    BY <1>3
  <1>5. Claim(call[t]) \subseteq Page /\ call[t].pages \subseteq Claim(call[t]) /\ Target(call[t]) \subseteq Claim(call[t])
    BY <1>1, ClaimFacts
  <1> QED BY <1>1, <1>2, <1>3, <1>4, <1>5 DEF CallOK

\* A page the guest has mapped, or may place a mapping on, is in no land, and in
\* no call's claim unless it is one of the call's pages.
LEMMA GuestsPage ==
    ASSUME OwnInv, NEW p \in Page, held[p] \in Mapped \/ (held[p] = "none" /\ p \in Placed \ Reserve)
    PROVE  /\ p \notin Lands
           /\ held[p] \in Mapped => p \in Usable
           /\ p \notin Busy => \A u \in Threads : p \notin Claim(call[u])
  <1>0. LandsInv
    BY DEF OwnInv
  <1>1. p \notin Reserve
    BY <1>0 DEF LandsInv, Mapped
  <1>2. p \notin KeptPages
    BY <1>0 DEF LandsInv, Mapped
  <1>3. p \notin program.stack
    BY <1>0 DEF LandsInv, Mapped
  <1>4. held[p] \in Mapped => p \in Usable
    BY <1>0 DEF LandsInv, Mapped, HeldIsUsable, Usable
  <1>5. ASSUME p \notin Busy, NEW u \in Threads, p \in Claim(call[u]) PROVE FALSE
    <2>1. p \notin call[u].pages
      BY <1>5 DEF Busy
    <2>2. HeldCall(call[u], held) /\ OwnCall(call[u], Lands) /\ StagedCall(u, call[u], heap)
      BY CallFacts
    <2>3. p \notin Placed
      BY <1>5, <2>1, <2>2 DEF OwnCall
    <2>4. held[p] # "none"
      BY <2>3 DEF Mapped
    <2>5. call[u].at \in {"move", "copy"} /\ p \notin Target(call[u])
      BY <1>5, <2>2, <2>4 DEF HeldCall
    <2>6. call[u].kind = "none"
      BY <2>2, <2>5 DEF StagedCall
    <2> QED BY <1>5, <2>1, <2>5, <2>6 DEF Claim
  <1> QED BY <1>1, <1>2, <1>3, <1>4, <1>5 DEF Lands

\* A step that only moves a call on, to one that claims nothing new.
LEMMA QuietStep ==
    ASSUME OwnInv, NobodyExecs, NEW t \in Threads, BooksInv', Turn(t), SameOwners,
           Quiet, held' = held, Claim(call'[t]) \subseteq Claim(call[t]),
           call'[t].at \in CallStages, CallOK(t, call'[t], heap, Committed', Usable', held', Lands)
    PROVE  OwnInv'
  <1>1. Usable \subseteq Usable' /\ Committed' = Committed
    BY DEF Quiet, Usable
  <1>2. \A u \in Threads : u # t => Claim(call'[t]) \cap Claim(call[u]) = {}
    BY CallFacts
  <1>3. Spares(t, {}, {})
    BY <1>1, <1>2 DEF Spares
  <1>4. OffLands({}, {})
    BY DEF OffLands
  <1> QED BY <1>3, <1>4, OrdinaryStep

\* A range of the guest's own, which becomes the claim of the call it makes.
LEMMA GuestsRange ==
    ASSUME OwnInv, NEW S, S \subseteq Page, OwnRange(S) \/ MayPlace(S)
    PROVE  /\ S \cap Lands = {} /\ \A u \in Threads : Claim(call[u]) \cap S = {}
           /\ S \subseteq Committed \cup Placed
           /\ OwnRange(S) => S \subseteq Usable /\ \A p \in S : held[p] \in Mapped
  <1>1. /\ S \cap Busy = {}
        /\ \A p \in S : held[p] \in Mapped \/ (held[p] = "none" /\ p \in Placed \ Reserve)
    BY DEF OwnRange, MayPlace
  <1>2. \A p \in S : /\ p \notin Lands /\ \A u \in Threads : p \notin Claim(call[u])
                     /\ held[p] \in Mapped => p \in Usable
    BY <1>1, GuestsPage
  <1>3. \A p \in S : p \in Committed \cup Placed
    BY <1>1, <1>2 DEF Usable
  <1> QED BY <1>2, <1>3 DEF OwnRange

\* Fresh memory becomes the claim of the call that asked for it.
LEMMA TakingStep ==
    ASSUME OwnInv, NobodyExecs, NEW t \in Threads, BooksInv', Turn(t), SameOwners, held' = held,
           NEW B, Took(B), B \cap Placed = {}, call'[t].at \in CallStages,
           Claim(call'[t]) \subseteq Claim(call[t]) \cup B,
           CallOK(t, call'[t], heap, Committed', Usable', held', Lands)
    PROVE  OwnInv'
  <1>1. B \subseteq free /\ Committed' = Committed \cup B /\ open' = open \cup B
    BY DEF Took
  <1>2. B \cap Committed = {}
    BY <1>1 DEF OwnInv, BooksInv, Booked, FreeIsUncommitted
  <1>3. \A u \in Threads : Claim(call[u]) \cap B = {}
    BY <1>2, FreshIsNobodys
  <1>4. Usable \subseteq Usable' /\ Committed \subseteq Committed'
    BY <1>1 DEF Usable
  <1>5. \A u \in Threads : u # t => Claim(call'[t]) \cap Claim(call[u]) = {}
    <2> TAKE u \in Threads
    <2> HAVE u # t
    <2>1. Claim(call[t]) \cap Claim(call[u]) = {}
      BY CallFacts
    <2>2. Claim(call[u]) \cap B = {}
      BY <1>3
    <2> QED BY <2>1, <2>2
  <1>6. Spares(t, {}, {})
    BY <1>4, <1>5 DEF Spares
  <1>7. OffLands({}, {})
    BY DEF OffLands
  <1> QED BY <1>6, <1>7, OrdinaryStep

LEMMA AnswerEffect ==
    ASSUME Typed, NEW t \in Threads, Answer(t)
    PROVE  /\ Turn(t) /\ SizedCall(call'[t]) /\ held' \in [Page -> Kinds]
           /\ \/ call'[t] = Idle /\ Holding(call[t].pages, call[t].kind)
              \/ /\ call'[t].at = "protect" /\ call'[t].pages = call[t].pages
                 /\ call'[t].kind = call[t].kind /\ call'[t].stale = {} /\ held' = held
  <1>1. call[t] \in CallType /\ call[t].kind \in Kinds
    BY DEF Typed, CallType, Kinds
  <1>2. CASE Back(t) /\ Holding(call[t].pages, call[t].kind)
    <2>1. call'[t] = Idle /\ Turn(t)
      BY <1>2, IdleFacts, GoOnEffect DEF Turn, Typed, Back
    <2>2. held' \in [Page -> Kinds]
      BY <1>1, <1>2 DEF Typed, Holding
    <2> QED BY <1>2, <2>1, <2>2, IdleFacts DEF SizedCall
  <1>3. CASE GoOn(t, [call[t] EXCEPT !.at = "protect", !.stale = {}]) /\ UNCHANGED held
    <2> DEFINE c == [call[t] EXCEPT !.at = "protect", !.stale = {}]
    <2>1. c \in CallType /\ c.at = "protect" /\ c.pages = call[t].pages /\ c.kind = call[t].kind /\ c.stale = {}
      BY <1>1, AnsweringRecord
    <2>2. GoOn(t, c) /\ held' = held
      BY <1>3
    <2> HIDE DEF c
    <2>3. call'[t] = c /\ Turn(t)
      BY <2>1, <2>2, GoOnEffect DEF Turn, Typed
    <2> QED BY <2>1, <2>2, <2>3 DEF SizedCall, Typed
  <1> QED BY <1>2, <1>3 DEF Answer

\* The guest is given the claim of a call that ends.
LEMMA HandingOver ==
    ASSUME OwnInv, NobodyExecs, NEW t \in Threads, BooksInv', Turn(t), Quiet, SameOwners,
           call[t].at \in {"fill", "protect"}, call'[t] = Idle,
           Holding(call[t].pages, call[t].kind)
    PROVE  OwnInv'
  <1> DEFINE S == call[t].pages
  <1>1. /\ S \subseteq Claim(call[t]) /\ Claim(call[t]) \subseteq Page
        /\ UsableCall(call[t], Committed, Usable) /\ OwnCall(call[t], Lands)
        /\ \A u \in Threads : u # t => Claim(call[u]) \cap Claim(call[t]) = {}
    BY CallFacts
  <1>2. Usable \subseteq Usable' /\ Committed' = Committed
    BY DEF Quiet, Usable
  <1>3. S \subseteq Usable' /\ S \cap Lands = {}
    BY <1>1, <1>2 DEF UsableCall, OwnCall
  <1>4. \A p \in Page : held'[p] = IF p \in S THEN call[t].kind ELSE held[p]
    BY DEF Holding
  <1>5. call[t].kind = "none" \/ call[t].kind \in Mapped
    BY CallFacts DEF CallType, Mapped
  <1>6. CallOK(t, call'[t], heap, Committed', Usable', held', Lands) /\ Claim(call'[t]) = {}
    BY IdleIsOK
  <1>7. call'[t].at \in CallStages
    BY IdleFacts DEF CallStages
  <1> HIDE DEF S
  <1>8. Spares(t, {}, S)
    BY <1>1, <1>2, <1>4, <1>6 DEF Spares
  <1>9. OffLands({}, S)
    BY <1>3, <1>4, <1>5 DEF OffLands
  <1> QED BY <1>6, <1>7, <1>8, <1>9, OrdinaryStep

\* A mapping that cannot be written is not answered until it is protected.
LEMMA OwnAnswer ==
    ASSUME OwnInv, NobodyExecs, NEW t \in Threads, BooksInv', Turn(t), Quiet, SameOwners,
           call[t].at = "fill", Answer(t)
    PROVE  OwnInv'
  <1>1. Typed
    BY DEF OwnInv, BooksInv
  <1>2. \/ call'[t] = Idle /\ Holding(call[t].pages, call[t].kind)
        \/ /\ call'[t].at = "protect" /\ call'[t].pages = call[t].pages
           /\ call'[t].kind = call[t].kind /\ call'[t].stale = {} /\ held' = held
    BY <1>1, AnswerEffect
  <1>3. CASE call'[t] = Idle /\ Holding(call[t].pages, call[t].kind)
    <2>1. call[t].at \in {"fill", "protect"}
      OBVIOUS
    <2> QED BY <1>3, <2>1, HandingOver
  <1>4. CASE /\ call'[t].at = "protect" /\ call'[t].pages = call[t].pages
             /\ call'[t].kind = call[t].kind /\ call'[t].stale = {} /\ held' = held
    <2>1. /\ UsableCall(call[t], Committed, Usable) /\ HeldCall(call[t], held) /\ OwnCall(call[t], Lands)
      BY CallFacts
    <2>2. Claim(call'[t]) = Claim(call[t]) /\ Target(call'[t]) = {}
      BY <1>4 DEF Claim, Target
    <2>3. Usable \subseteq Usable'
      BY DEF Quiet, Usable
    <2>4. StagedCall(t, call'[t], heap)
      BY <1>4 DEF StagedCall
    <2>5. UsableCall(call'[t], Committed', Usable') /\ OwnCall(call'[t], Lands)
      BY <1>4, <2>1, <2>2, <2>3 DEF UsableCall, OwnCall
    <2>6. HeldCall(call'[t], held')
      BY <1>4, <2>1, <2>2 DEF HeldCall
    <2>7. CallOK(t, call'[t], heap, Committed', Usable', held', Lands)
      BY <2>4, <2>5, <2>6 DEF CallOK
    <2>8. call'[t].at \in CallStages /\ Claim(call'[t]) \subseteq Claim(call[t])
      BY <1>4, <2>2 DEF CallStages
    <2> QED BY <1>4, <2>7, <2>8, QuietStep
  <1> QED BY <1>2, <1>3, <1>4

LEMMA LandPages ==
    ASSUME BooksInv
    PROVE  /\ Reserve \subseteq Page /\ KeptPages \subseteq Page /\ program.stack \subseteq Page
           /\ \A i \in DOMAIN segments : segments[i].pages \subseteq KeptPages
  <1>1. heap.base \in Nat /\ heap.limit \in Ends
    BY DEF BooksInv, Typed, HeapType
  <1>2. Reserve \subseteq Page
    BY <1>1, PageFacts, SMT DEF Reserve, Ends
  <1>3. \A i \in DOMAIN segments : segments[i] \in SegmentType
    BY SMT DEF BooksInv, Typed
  <1>4. \A i \in DOMAIN segments : segments[i].pages \subseteq KeptPages
    BY <1>3 DEF SegmentType, KeptPages, IsKept
  <1> QED BY <1>2, <1>4 DEF BooksInv, Typed, ProgramType, KeptPages

\* A segment call: what is kept changes, and holdings only there.
LEMMA KeptStep ==
    ASSUME LandsInv, heap' = heap, program' = program, NEW G, Usable \ G \subseteq Usable',
           G \cap (Reserve \cup program.stack) = {}, \A p \in Page : p \in G => held'[p] = "none",
           \A p \in Page : p \notin KeptPages => held'[p] = held[p],
           \A p \in Page : p \in KeptPages \cup KeptPages' => held'[p] \in {"none", "segment"},
           \A p \in Page : held'[p] = "segment" => p \in KeptPages',
           KeptPages' \cap (Reserve \cup program.stack) = {}, KeptPages' \cap Placed = {}, KeptPages' \subseteq Usable',
           \A i, j \in DOMAIN segments' : i # j => segments'[i].pages \cap segments'[j].pages = {},
           \A i \in DOMAIN segments' : segments'[i].attached = 0 => \A p \in segments'[i].pages : held'[p] = "none",
           Reserve \subseteq Page, program.stack \subseteq Page
    PROVE  LandsInv' /\ Reserve' = Reserve /\ Lands' = Reserve \cup KeptPages' \cup program.stack
  <1>1. Reserve' = Reserve
    BY DEF Reserve
  <1>2. Lands' = Reserve \cup KeptPages' \cup program.stack
    BY <1>1 DEF Lands
  <1>3. Reserve \cup program.stack \subseteq Usable /\ (Reserve \cup program.stack) \cap KeptPages = {}
    BY DEF LandsInv, Lands
  <1>4. Lands' \subseteq Usable'
    BY <1>2, <1>3
  <1>5. HeldIsUsable'
    <2> SUFFICES ASSUME NEW p \in Page, held'[p] # "none" PROVE p \in Usable'
      BY DEF HeldIsUsable, Usable
    <2>1. CASE p \in KeptPages
      BY <2>1
    <2>2. CASE p \notin KeptPages
      <3>1. held[p] # "none" /\ p \notin G
        BY <2>2
      <3>2. p \in Usable
        BY <3>1 DEF LandsInv, HeldIsUsable, Usable
      <3> QED BY <3>1, <3>2
    <2> QED BY <2>1, <2>2
  <1>6. \A p \in Reserve \cup program.stack : held'[p] = held[p]
    BY <1>3
  <1>7. \A p \in Reserve : held'[p] \in {"none", "heap"} /\ (heap.break <= p => held'[p] = "none")
    BY <1>6 DEF LandsInv
  <1>8. \A p \in Page : held'[p] \in {"heap", "stack"} => held'[p] = held[p]
    <2> TAKE p \in Page
    <2>1. CASE p \in KeptPages
      BY <2>1
    <2>2. CASE p \notin KeptPages
      BY <2>2
    <2> QED BY <2>1, <2>2
  <1>9. \A p \in Page : held'[p] = "heap" => p \in Reserve
    BY <1>8 DEF LandsInv
  <1>10. \A p \in Page : p \in program.stack <=> held'[p] = "stack"
    <2> TAKE p \in Page
    <2>1. ASSUME p \in program.stack PROVE held'[p] = "stack"
      BY <1>6, <2>1 DEF LandsInv
    <2>2. ASSUME held'[p] = "stack" PROVE p \in program.stack
      BY <1>8, <2>2 DEF LandsInv
    <2> QED BY <2>1, <2>2
  <1>11. KeptPages' \subseteq Page
    BY DEF KeptPages
  <1>12. /\ \A p \in KeptPages' : held'[p] \in {"none", "segment"}
         /\ Reserve' \cap (KeptPages' \cup program'.stack) = {} /\ program'.stack \cap KeptPages' = {}
    <2>1. Reserve \cap program.stack = {}
      BY DEF LandsInv
    <2> QED BY <1>1, <1>11, <2>1
  <1>13. heap'.base <= heap'.break /\ heap'.break <= heap'.limit /\ heap'.limit <= heap'.base + HeapPages
    BY DEF LandsInv
  <1> QED BY <1>1, <1>2, <1>4, <1>5, <1>7, <1>9, <1>10, <1>12, <1>13 DEF LandsInv

LEMMA SegmentStep ==
    ASSUME OwnInv, NobodyExecs, NEW t \in Threads, BooksInv', Turn(t), SameProgram, heap' = heap,
           call'[t] = Idle, NEW G, LandsInv', Lands' = Reserve \cup KeptPages' \cup program.stack,
           Usable \ G \subseteq Usable', Committed \ G \subseteq Committed',
           \A p \in Page : p \notin KeptPages => held'[p] = held[p],
           \A u \in Threads : Claim(call[u]) \cap G = {} /\ Claim(call[u]) \cap KeptPages' = {}
    PROVE  OwnInv'
  <1>0. BooksInv /\ CallsInv /\ ExecsInv
    BY DEF OwnInv
  <1>1. CallOK(t, call'[t], heap', Committed', Usable', held', Lands') /\ Claim(call'[t]) = {}
    BY IdleIsOK
  <1>2. ASSUME NEW u \in Threads
        PROVE  /\ StagedCall(u, call[u], heap') /\ Claim(call[u]) \cap Lands' = {}
               /\ Claim(call[u]) \cap KeptPages = {}
    <2>1. StagedCall(u, call[u], heap) /\ Claim(call[u]) \cap Lands = {}
      BY CallFacts DEF OwnCall
    <2> QED BY <2>1 DEF Lands
  <1>3. Spares(t, G, KeptPages)
    BY <1>1, <1>2 DEF Spares
  <1>4. CallsInv'
    BY <1>0, <1>1, <1>2, <1>3, CallsKeep
  <1>5. call'[t].at \in CallStages
    BY IdleFacts DEF CallStages
  <1>6. ExecsInv'
    BY <1>0, <1>5, ExecsKeep
  <1> QED BY <1>4, <1>6 DEF OwnInv

\* What moving the break or giving up reserve does to the lands.
HeapMoves ==
    /\ heap'.base = heap.base /\ Reserve' \subseteq Reserve /\ segments' = segments /\ SameProgram
    /\ heap'.base <= heap'.break /\ heap'.break <= heap'.limit /\ heap'.limit <= heap'.base + HeapPages
    /\ Usable \ (Reserve \ Reserve') \subseteq Usable' /\ Committed \ (Reserve \ Reserve') \subseteq Committed'
    /\ \A p \in Page : p \notin Reserve => held'[p] = held[p]
    /\ \A p \in Reserve : /\ held'[p] \in {"none", "heap"} /\ (p \notin Reserve' => held'[p] = "none")
                          /\ (heap'.break <= p => held'[p] = "none")

LEMMA HeapStep ==
    ASSUME OwnInv, OneHeapThread, NobodyExecs, NEW t \in HeapThreads, BooksInv', Turn(t), HeapMoves,
           call'[t].at \in CallStages, Claim(call'[t]) = {},
           CallOK(t, call'[t], heap', Committed', Usable', held', Lands')
    PROVE  OwnInv'
  <1> USE DEF HeapMoves
  <1>0. BooksInv /\ CallsInv /\ LandsInv /\ ExecsInv /\ t \in Threads
    BY RequestFacts DEF OwnInv
  <1>1. /\ Reserve \subseteq Page /\ KeptPages \subseteq Page /\ program.stack \subseteq Page
        /\ \A i \in DOMAIN segments : segments[i].pages \subseteq KeptPages
    BY <1>0, LandPages
  <1>2. KeptPages' = KeptPages /\ program' = program
    BY DEF KeptPages, IsKept, SameProgram
  <1>3. Lands' = Reserve' \cup KeptPages \cup program.stack
    BY <1>2 DEF Lands
  <1>4. /\ Reserve \cap (KeptPages \cup program.stack) = {} /\ program.stack \cap KeptPages = {}
        /\ Lands \subseteq Usable /\ Lands = Reserve \cup KeptPages \cup program.stack
    BY <1>0 DEF LandsInv, Lands
  <1>5. Lands' \subseteq Usable'
    BY <1>3, <1>4
  <1>6. HeldIsUsable'
    <2> SUFFICES ASSUME NEW p \in Page, held'[p] # "none" PROVE p \in Usable'
      BY DEF HeldIsUsable, Usable
    <2>1. CASE p \in Reserve
      BY <1>3, <1>5, <2>1
    <2>2. CASE p \notin Reserve
      <3>1. p \in Usable
        BY <1>0, <2>2 DEF LandsInv, HeldIsUsable, Usable
      <3> QED BY <2>2, <3>1
    <2> QED BY <2>1, <2>2
  <1>7. \A p \in KeptPages \cup program.stack : held'[p] = held[p]
    BY <1>1, <1>4
  <1>8. \A p \in Page : held'[p] \in {"segment", "stack"} => held'[p] = held[p]
    OBVIOUS
  <1>9. \A p \in Page : held'[p] = "heap" => p \in Reserve'
    <2> TAKE p \in Page
    <2>1. CASE p \in Reserve
      BY <2>1
    <2>2. CASE p \notin Reserve
      BY <1>0, <2>2 DEF LandsInv
    <2> QED BY <2>1, <2>2
  <1>10. /\ \A p \in KeptPages : held'[p] \in {"none", "segment"}
         /\ \A p \in Page : held'[p] = "segment" => p \in KeptPages
         /\ \A i \in DOMAIN segments : segments[i].attached = 0 => \A p \in segments[i].pages : held'[p] = "none"
    BY <1>0, <1>1, <1>7, <1>8 DEF LandsInv
  <1>11. \A p \in Page : p \in program.stack <=> held'[p] = "stack"
    BY <1>0, <1>7, <1>8 DEF LandsInv
  <1>12. /\ KeptPages \cap Placed = {}
         /\ \A i, j \in DOMAIN segments : i # j => segments[i].pages \cap segments[j].pages = {}
    BY <1>0 DEF LandsInv
  <1>13. LandsInv'
    BY <1>2, <1>4, <1>5, <1>6, <1>9, <1>10, <1>11, <1>12 DEF LandsInv
  <1>14. ASSUME NEW u \in Threads, u # t
         PROVE  /\ StagedCall(u, call[u], heap') /\ Claim(call[u]) \cap Lands' = {}
                /\ Claim(call[u]) \cap Reserve = {}
    <2>1. StagedCall(u, call[u], heap) /\ Claim(call[u]) \cap Lands = {} /\ u \notin HeapThreads
      BY <1>14, CallFacts DEF OwnCall, OneHeapThread
    <2>2. StagedCall(u, call[u], heap')
      BY <2>1 DEF StagedCall
    <2> QED BY <1>3, <1>4, <2>1, <2>2
  <1> DEFINE G == Reserve \ Reserve'
  <1>15. Spares(t, G, Reserve)
    BY <1>14 DEF Spares
  <1> HIDE DEF G
  <1>16. CallsInv'
    BY <1>0, <1>14, <1>15, CallsKeep
  <1>17. ExecsInv'
    BY <1>0, ExecsKeep
  <1> QED BY <1>13, <1>16, <1>17 DEF OwnInv

\* A segment is attached, detached or removed; G is what was given back of it.
SegmentChanges(id, G) ==
    /\ DOMAIN segments' = DOMAIN segments /\ G \subseteq segments[id].pages
    /\ \A i \in DOMAIN segments : i # id => segments'[i] = segments[i]
    /\ segments'[id].pages = segments[id].pages \ G
    /\ Usable \ G \subseteq Usable' /\ Committed \ G \subseteq Committed'
    /\ \A p \in Page : p \notin segments[id].pages => held'[p] = held[p]
    /\ \A p \in segments[id].pages : /\ held'[p] \in {"none", "segment"}
                                     /\ segments'[id].attached = 0 \/ p \in G => held'[p] = "none"

LEMMA SegmentCall ==
    ASSUME OwnInv, NobodyExecs, NEW t \in Threads, BooksInv', Turn(t), SameProgram, heap' = heap,
           call'[t] = Idle, NEW id \in DOMAIN segments, NEW G, SegmentChanges(id, G)
    PROVE  OwnInv'
  <1> USE DEF SegmentChanges
  <1>0. BooksInv /\ LandsInv
    BY DEF OwnInv
  <1>1. /\ Reserve \subseteq Page /\ KeptPages \subseteq Page /\ program.stack \subseteq Page
        /\ \A i \in DOMAIN segments : segments[i].pages \subseteq KeptPages
    BY <1>0, LandPages
  <1>2. \A i, j \in DOMAIN segments : i # j => segments[i].pages \cap segments[j].pages = {}
    BY <1>0 DEF LandsInv
  <1>3. \A i \in DOMAIN segments : segments'[i].pages = segments[i].pages \ G
    BY <1>2
  <1>4. KeptPages' = KeptPages \ G
    <2>1. ASSUME NEW p \in Page PROVE IsKept(p)' <=> IsKept(p) /\ p \notin G
      BY <1>3 DEF IsKept
    <2> QED BY <2>1 DEF KeptPages
  <1>5. G \subseteq KeptPages
    BY <1>1
  <1>6. /\ KeptPages \cap (Reserve \cup program.stack) = {} /\ KeptPages \cap Placed = {} /\ KeptPages \subseteq Usable
        /\ \A p \in KeptPages : held[p] \in {"none", "segment"}
        /\ \A p \in Page : held[p] = "segment" => p \in KeptPages
    BY <1>0 DEF LandsInv, Lands
  <1>7. \A p \in Page : p \notin KeptPages => held'[p] = held[p]
    BY <1>1
  <1>8. \A p \in Page : p \in G => held'[p] = "none"
    OBVIOUS
  <1>9. \A p \in Page : p \in KeptPages \cup KeptPages' => held'[p] \in {"none", "segment"}
    <2> TAKE p \in Page
    <2> HAVE p \in KeptPages \cup KeptPages'
    <2>1. CASE p \in segments[id].pages
      BY <2>1
    <2>2. CASE p \notin segments[id].pages
      BY <1>4, <1>6, <2>2
    <2> QED BY <2>1, <2>2
  <1>10. \A p \in Page : held'[p] = "segment" => p \in KeptPages'
    <2> TAKE p \in Page
    <2> HAVE held'[p] = "segment"
    <2>1. p \notin G
      BY <1>8
    <2>2. p \in KeptPages
      BY <1>1, <1>6
    <2> QED BY <1>4, <2>1, <2>2
  <1>11. \A i, j \in DOMAIN segments' : i # j => segments'[i].pages \cap segments'[j].pages = {}
    BY <1>2, <1>3
  <1>12. \A i \in DOMAIN segments' : segments'[i].attached = 0 => \A p \in segments'[i].pages : held'[p] = "none"
    <2> TAKE i \in DOMAIN segments'
    <2> HAVE segments'[i].attached = 0
    <2>1. CASE i = id
      BY <1>3, <2>1
    <2>2. CASE i # id
      <3>1. segments'[i] = segments[i] /\ segments[i].pages \cap segments[id].pages = {} /\ segments[i].pages \subseteq Page
        BY <1>1, <1>2, <2>2
      <3>2. \A p \in segments[i].pages : held[p] = "none"
        BY <1>0, <3>1 DEF LandsInv
      <3> QED BY <3>1, <3>2
    <2> QED BY <2>1, <2>2
  <1>13. /\ KeptPages' \cap (Reserve \cup program.stack) = {} /\ KeptPages' \cap Placed = {} /\ KeptPages' \subseteq Usable'
         /\ G \cap (Reserve \cup program.stack) = {} /\ program' = program
    BY <1>4, <1>5, <1>6 DEF SameProgram
  <1>14. LandsInv' /\ Lands' = Reserve \cup KeptPages' \cup program.stack
    BY <1>0, <1>1, <1>7, <1>8, <1>9, <1>10, <1>11, <1>12, <1>13, KeptStep
  <1>15. \A u \in Threads : Claim(call[u]) \cap G = {} /\ Claim(call[u]) \cap KeptPages' = {}
    <2> TAKE u \in Threads
    <2>1. Claim(call[u]) \cap KeptPages = {}
      BY CallFacts DEF OwnCall, Lands
    <2> QED BY <1>4, <1>5, <2>1
  <1> QED BY <1>7, <1>14, <1>15, SegmentStep

\* Replacing an element of a sequence.
LEMMA SegmentReplaced ==
    ASSUME segments \in Seq(SegmentType), NEW id \in DOMAIN segments, NEW x \in SegmentType, NEW new,
           new = [segments EXCEPT ![id] = x]
    PROVE  /\ new \in Seq(SegmentType) /\ DOMAIN new = DOMAIN segments /\ new[id] = x
           /\ \A i \in DOMAIN segments : i # id => new[i] = segments[i]
           /\ \A i \in DOMAIN segments : segments[i] \in SegmentType
  <1>1. DOMAIN segments = 1..Len(segments) /\ Len(segments) \in Nat /\ \A i \in DOMAIN segments : segments[i] \in SegmentType
    BY SMT
  <1>2. /\ DOMAIN new = DOMAIN segments /\ new[id] = x
        /\ \A i \in DOMAIN segments : i # id => new[i] = segments[i]
    OBVIOUS
  <1>3. new \in [1..Len(segments) -> SegmentType]
    BY <1>1
  <1>4. new \in Seq(SegmentType)
    BY <1>1, <1>3, SMT
  <1> QED BY <1>1, <1>2, <1>4

\* A segment goes if it is removed and nothing has it attached.
LEMMA FreeIfUnusedEffect ==
    ASSUME BooksInv, NEW id \in DOMAIN segments, NEW x \in SegmentType, FreeIfUnused(id, x)
    PROVE  /\ Booked' /\ free' \subseteq Page /\ nextEpoch' \in Nat \ {0} /\ bytes' \in [Page -> {"zero", "data"}]
           /\ segments' \in Seq(SegmentType) /\ DOMAIN segments' = DOMAIN segments
           /\ \A i \in DOMAIN segments : i # id => segments'[i] = segments[i]
           /\ \/ Gave(x.pages) /\ segments'[id] = NoSegment /\ x.attached = 0
              \/ Quiet /\ SameBytes /\ live' = live /\ segments'[id] = x
  <1>1. Typed /\ Booked /\ segments \in Seq(SegmentType)
    BY DEF BooksInv, Typed
  <1>2. CASE Unused(x)
    <2>1. /\ Release(x.pages, "ok") /\ Fresh(Vacated(x.pages)) /\ segments' = [segments EXCEPT ![id] = NoSegment]
          /\ x.attached = 0
      BY <1>2 DEF FreeIfUnused, Unused
    <2>2. x.pages \subseteq Page
      BY DEF SegmentType
    <2>3. NoSegment \in SegmentType
      <3>1. 0 \in Nat
        BY SMT
      <3> QED BY <3>1 DEF NoSegment, SegmentType
    <2>4. Booked' /\ Gave(x.pages) /\ nextEpoch' = nextEpoch
      BY <1>1, <2>1, <2>2, BookedRelease DEF Typed
    <2>5. free' \subseteq Page /\ bytes' \in [Page -> {"zero", "data"}]
      BY <1>1, <2>2, <2>4, VacatedFacts DEF Gave, Typed
    <2>6. /\ segments' \in Seq(SegmentType) /\ DOMAIN segments' = DOMAIN segments /\ segments'[id] = NoSegment
          /\ \A i \in DOMAIN segments : i # id => segments'[i] = segments[i]
      BY <1>1, <2>1, <2>3, SegmentReplaced
    <2> QED BY <1>1, <2>1, <2>4, <2>5, <2>6 DEF Typed
  <1>3. CASE ~ Unused(x)
    <2>1. /\ free' = free /\ epoch' = epoch /\ nextEpoch' = nextEpoch /\ bytes' = bytes /\ open' = open
          /\ live' = live /\ segments' = [segments EXCEPT ![id] = x]
      BY <1>3 DEF FreeIfUnused, arena, books
    <2>2. Committed' = Committed
      BY <2>1 DEF Committed
    <2>3. Booked'
      BY <1>1, <2>1, <2>2, BookedQuiet
    <2>4. /\ segments' \in Seq(SegmentType) /\ DOMAIN segments' = DOMAIN segments /\ segments'[id] = x
          /\ \A i \in DOMAIN segments : i # id => segments'[i] = segments[i]
      BY <1>1, <2>1, SegmentReplaced
    <2> QED BY <1>1, <2>1, <2>2, <2>3, <2>4 DEF Quiet, SameBytes, Typed
  <1> QED BY <1>2, <1>3

\* Pages the host maps to a file are noted in a slot that is in use, are not free
\* and not the heap's; no call under way is going to write to one, and nothing of
\* a program being loaded is one.
FileCall(c, files) ==
    /\ c.at \in {"commit", "fill", "protect"} => Claim(c) \cap files = {}
    /\ Target(c) \cap files = {}
Viewed == \A p \in live : \E i \in DOMAIN slots : slots[i].inUse /\ p \in slots[i].pages

FilesInv ==
    /\ CallsNeverFault
    /\ Viewed
    /\ live \cap free = {} /\ live \cap Reserve = {}
    /\ \A t \in Threads : FileCall(call[t], live)
    /\ \A t \in Threads : call[t].at \in Before => live \cap (loading.images \cup loading.heap) = {}

\* There is a slot for every view that is about to be made (linux_syscalls.cpp:926
\* leaves a view without one when all are used).
SlotsSuffice == \A t \in Threads : call[t].at = "fill" /\ call[t].kind = "shared" => Len(slots) < MaxSlots

\* What a step may do to the views, unless it makes one: leave them or take some out.
FewerViews == live' \subseteq live /\ Viewed' /\ live' \cap free' = {} /\ live' \cap Reserve' = {}
FilesMove ==
    /\ slots' = slots /\ Reserve' \subseteq Reserve
    /\ (Quiet /\ live' \subseteq live) \/ (\E S : Took(S)) \/ (\E S : Gave(S))

LEMMA NoFiles ==
    ASSUME NEW c, NEW files
    PROVE  /\ c.pages = {} /\ c.at # "copy" => FileCall(c, files)
           /\ c.at \notin {"commit", "fill", "protect", "copy"} => FileCall(c, files)
  BY DEF FileCall, Claim, Target, Outward

LEMMA FewerByMove ==
    ASSUME FilesInv, FilesMove
    PROVE  FewerViews
  <1>1. /\ slots' = slots /\ Reserve' \subseteq Reserve
        /\ Viewed /\ live \cap free = {} /\ live \cap Reserve = {}
    BY DEF FilesInv, FilesMove
  <1>2. live' \subseteq live /\ live' \cap free' = {}
    <2>1. CASE Quiet /\ live' \subseteq live
      BY <1>1, <2>1 DEF Quiet
    <2>2. ASSUME NEW S, Took(S) PROVE live' \subseteq live /\ live' \cap free' = {}
      BY <1>1, <2>2 DEF Took
    <2>3. ASSUME NEW S, Gave(S) PROVE live' \subseteq live /\ live' \cap free' = {}
      BY <1>1, <2>3 DEF Gave
    <2> QED BY <2>1, <2>2, <2>3 DEF FilesMove
  <1> QED BY <1>1, <1>2 DEF FewerViews, Viewed

LEMMA FilesCall ==
    ASSUME FilesInv, NobodyExecs, NEW t \in Threads, Turn(t), FewerViews, ~faulted',
           FileCall(call'[t], live'), call'[t].at \in CallStages
    PROVE  FilesInv'
  <1>1. \A u \in Threads : FileCall(call'[u], live')
    <2> TAKE u \in Threads
    <2>1. CASE u = t
      BY <2>1
    <2>2. CASE u # t
      <3>1. call'[u] = call[u] /\ FileCall(call[u], live) /\ live' \subseteq live
        BY <2>2 DEF Turn, FilesInv, FewerViews
      <3> QED BY <3>1 DEF FileCall
    <2> QED BY <2>1, <2>2
  <1>2. \A u \in Threads : call'[u].at \notin Before
    BY DEF Turn, NobodyExecs, Execing, Before, CallStages
  <1> QED BY <1>1, <1>2 DEF FilesInv, FewerViews, CallsNeverFault

\* The steps that end in a stage with nothing to write.
PlainStages == {"idle", "shrink", "alloc", "release", "move", "brk"}
LEMMA PlainFiles ==
    ASSUME FilesInv, NobodyExecs, NEW t \in Threads, Turn(t), FilesMove, ~faulted', call'[t].at \in PlainStages
    PROVE  FilesInv'
  <1>1. FileCall(call'[t], live') /\ call'[t].at \in CallStages
    BY NoFiles DEF PlainStages, CallStages
  <1> QED BY <1>1, FewerByMove, FilesCall

\* Taking pages S out of the files they belong to.
LEMMA ReplacedViews ==
    ASSUME BooksInv, FilesInv, NEW S, S \subseteq Page, ReplaceSharedMappingsIn(S), Quiet, heap' = heap
    PROVE  FewerViews /\ S \cap live' = {}
  <1>0. slots \in Seq(SlotType)
    BY DEF BooksInv, Typed
  <1>1. /\ live' \subseteq live /\ DOMAIN slots' = DOMAIN slots
        /\ \A i \in DOMAIN slots : slots'[i].pages = slots[i].pages
        /\ \A i \in DOMAIN slots : \A p \in S : slots[i].inUse /\ p \in slots[i].pages => p \notin live'
        /\ \A i \in DOMAIN slots : \A p \in live' : slots[i].inUse /\ p \in slots[i].pages => slots'[i].inUse
    BY <1>0, ReplaceEffect
  <1>2. Viewed /\ live \cap free = {} /\ live \cap Reserve = {} /\ Reserve' = Reserve
    BY DEF FilesInv, Reserve
  <1>3. Viewed' /\ S \cap live' = {}
    BY <1>1, <1>2 DEF Viewed
  <1> QED BY <1>1, <1>2, <1>3 DEF FewerViews, Quiet

LEMMA LoadFiles ==
    ASSUME FilesInv, NEW t \in Threads, Turn(t), \A u \in Threads : u # t => call[u] = Idle,
           FewerViews, ~faulted', call'[t].at # "copy", call'[t].pages = {},
           call'[t].at \in Before => live' \cap (loading'.images \cup loading'.heap) = {}
    PROVE  FilesInv'
  <1>1. \A u \in Threads : u # t => call'[u].at = "idle"
    BY IdleFacts DEF Turn
  <1>2. \A u \in Threads : FileCall(call'[u], live')
    <2> TAKE u \in Threads
    <2>1. CASE u = t
      BY <2>1, NoFiles
    <2>2. CASE u # t
      BY <1>1, <2>2, NoFiles
    <2> QED BY <2>1, <2>2
  <1>3. \A u \in Threads : call'[u].at \in Before => live' \cap (loading'.images \cup loading'.heap) = {}
    BY <1>1 DEF Before
  <1> QED BY <1>2, <1>3 DEF FilesInv, FewerViews, CallsNeverFault
\* The end of mmap: what the call still has to protect is not a file's.
LEMMA AnswerFiles ==
    ASSUME NEW t \in Threads, call \in [Threads -> CallType], Answer(t), call[t].at = "fill",
           FileCall(call[t], live), FewerViews
    PROVE  FileCall(call'[t], live') /\ call'[t].at \in CallStages
  <1>1. CASE Back(t)
    <2>1. call'[t] = Idle
      BY <1>1 DEF Back, GoOn
    <2> QED BY <2>1, IdleFacts, NoFiles DEF CallStages
  <1>2. CASE GoOn(t, [call[t] EXCEPT !.at = "protect", !.stale = {}])
    <2>1. call'[t] = [call[t] EXCEPT !.at = "protect", !.stale = {}] /\ call[t] \in CallType
      BY <1>2 DEF GoOn
    <2>2. call'[t].at = "protect" /\ call'[t].pages = call[t].pages /\ call'[t].kind = call[t].kind
      BY <2>1 DEF CallType
    <2> QED BY <2>2 DEF FileCall, Claim, Target, FewerViews, CallStages
  <1> QED BY <1>1, <1>2 DEF Answer

\* What a step is shown to do: types and books whatever the threads do; who owns
\* what while they are careful; and where the files are while there are slots.
Preserves ==
    /\ BooksInv'
    /\ OwnInv /\ Careful => OwnInv'
    /\ OwnInv /\ FilesInv /\ SlotsSuffice => FilesInv'

-----------------------------------------------------------------------------
(***************************************************************************)
(* The steps of execve.  Nobody else is in a call meanwhile, so all that   *)
(* can go wrong is between the two programs.                               *)
(***************************************************************************)
SameCalls == held' = held /\ slots' = slots /\ heap' = heap /\ segments' = segments

\* The call of a thread that is loading a program, or gave up.
LoadingCall(c) == c = Idle \/ (c.at \in ExecStages /\ c.pages = {} /\ c.kind = "none" /\ c.stale = {})

LEMMA ExecCalls ==
    ASSUME NEW t \in Threads, Turn(t), \A u \in Threads : u # t => call[u] = Idle, LoadingCall(call'[t])
    PROVE  CallsInv' /\ \A u \in Threads : Claim(call'[u]) = {}
  <1>1. ASSUME NEW u \in Threads
        PROVE  CallOK(u, call'[u], heap', Committed', Usable', held', Lands') /\ Claim(call'[u]) = {}
    <2>1. CASE call'[u] = Idle
      BY <2>1, IdleIsOK
    <2>2. CASE call'[u] # Idle
      <3>1. u = t /\ call'[t] \in CallType
        BY <2>2 DEF Turn
      <3>2. call'[t].at \in ExecStages /\ call'[t].pages = {} /\ call'[t].stale = {}
        BY <2>2, <3>1 DEF LoadingCall
      <3>3. call'[t].at \notin {"commit", "fill", "protect", "release", "move", "copy", "brk", "shrink"}
        BY <3>2 DEF ExecStages
      <3>4. StagedCall(t, call'[t], heap')
        BY <3>2, <3>3 DEF StagedCall
      <3>5. call'[t].at \notin {"commit", "fill", "protect", "release", "move", "copy"}
        BY <3>3
      <3> QED BY <3>1, <3>4, <3>5, NoClaim
    <2> QED BY <2>1, <2>2
  <1> QED BY <1>1 DEF CallsInv

\* G, which nobody has, is all that a step takes.
Loses(G) ==
    /\ G \cap Lands = {} /\ \A p \in Page : p \in G => held[p] = "none"
    /\ Usable \ G \subseteq Usable' /\ Committed \ G \subseteq Committed'

\* A step that leaves the program as it is, and goes on loading or ends it.
LEMMA LoadStep ==
    ASSUME OwnInv, BooksInv', NEW t \in Threads, Turn(t), \A u \in Threads : u # t => call[u] = Idle,
           SameCalls, program' = program, NEW G, Loses(G), LoadingCall(call'[t]), call'[t].at # "previous",
           call'[t] = Idle => loading' = NoProgram,
           call'[t].at \in Before => LoadInv(call[t])'
    PROVE  OwnInv'
  <1>0. BooksInv /\ CallsInv /\ LandsInv /\ ExecsInv
    BY DEF OwnInv
  <1>1. CallsInv' /\ \A u \in Threads : Claim(call'[u]) = {}
    BY ExecCalls
  <1>2. \A u \in Threads : u # t => call'[u] = Idle /\ Claim(call[u]) = {}
    BY <1>1 DEF Turn
  <1>3. Spares(t, G, {})
    BY <1>2 DEF Spares, Loses, SameCalls
  <1>4. OffLands(G, {}) /\ SameLands
    BY DEF OffLands, Loses, SameCalls, SameLands
  <1>5. LandsInv'
    BY <1>0, <1>3, <1>4, LandsKeep
  <1>6. \A u \in Threads : call'[u].at \in ExecStages => u = t
    BY <1>2, IdleFacts DEF ExecStages
  <1>7. \A u \in Threads : Execing(u)' <=> call'[u].at \in ExecStages
    BY DEF Execing, ExecStages
  <1>8. program'.heap = Span(heap'.base, HeapPages)
    BY <1>0 DEF ExecsInv, SameCalls
  <1>9. NobodyExecs' => loading' = NoProgram
    BY <1>7 DEF NobodyExecs, LoadingCall
  <1>10. \A u \in Threads : call'[u].at \in Before \cup {"previous"} => u = t
    BY <1>6 DEF Before, ExecStages
  <1>11. ASSUME NEW u \in Threads, Execing(u)'
         PROVE  /\ call'[u].pages = {} /\ call'[u].kind = "none" /\ call'[u].stale = {}
                /\ \A v \in Threads : v # u => call'[v] = Idle
    BY <1>2, <1>6, <1>7, <1>11, IdleFacts DEF LoadingCall
  <1>12. \A u \in Threads : call'[u].at \in Before => LoadInv(call[u])'
    BY <1>10
  <1>13. \A u \in Threads : call'[u].at # "previous"
    BY <1>10
  <1>14. ExecsInv'
    BY <1>8, <1>9, <1>11, <1>12, <1>13 DEF ExecsInv
  <1> QED BY <1>1, <1>5, <1>14 DEF OwnInv

LEMMA ExecFacts ==
    ASSUME OwnInv, NEW t \in Threads, call[t].at \in ExecStages
    PROVE  /\ \A u \in Threads : u # t => call[u] = Idle
           /\ call[t].pages = {} /\ call[t].kind = "none" /\ call[t].stale = {}
           /\ call[t].at \in Before => LoadInv(call[t])
           /\ Loaded \subseteq Page
  <1>1. Execing(t)
    BY DEF Execing, ExecStages
  <1>2. loading \in ProgramType
    BY DEF OwnInv, BooksInv, Typed
  <1>3. Loaded \subseteq Page
    BY <1>2 DEF Loaded, ProgramType
  <1> QED BY <1>1, <1>3 DEF OwnInv, ExecsInv

\* Nothing is added to what was loaded, or fresh pages B are.
LEMMA LoadGrows ==
    ASSUME OwnInv, NEW t \in Threads, call[t].at \in ExecStages, LoadInv(call[t]), SameCalls, program' = program,
           NEW B, B \cap Committed = {}, B \subseteq Page, Usable \cup B \subseteq Usable',
           Loaded' \subseteq Loaded \cup B
    PROVE  /\ Reserve' = program'.heap /\ Loaded' \subseteq Usable' /\ Loaded' \cap Lands' = {}
           /\ \A p \in Loaded' : held'[p] = "none"
           /\ B \cap Loaded = {}
  <1>1. Reserve' = Reserve /\ KeptPages' = KeptPages
    BY DEF SameCalls, Reserve, KeptPages, IsKept
  <1>2. Lands' = Lands
    BY <1>1 DEF Lands
  <1>3. B \cap Lands = {} /\ \A p \in Page : p \in B => held[p] = "none"
    BY FreshIsNobodys
  <1>4. Loaded \subseteq Usable /\ Loaded \cap Lands = {} /\ (\A p \in Loaded : held[p] = "none") /\ Reserve = program.heap
    BY DEF LoadInv
  <1>5. B \cap Loaded = {}
    BY <1>4 DEF Usable
  <1> QED BY <1>1, <1>2, <1>3, <1>4, <1>5 DEF SameCalls

\* A load ends, for want of memory or of a whole file.
Ended(t) == call'[t] = Idle /\ loading' = NoProgram /\ Usable \subseteq Usable' /\ Committed \subseteq Committed'

LEMMA GivingUp ==
    ASSUME OwnInv, BooksInv', NEW t \in Threads, Turn(t), call[t].at \in ExecStages, SameCalls, program' = program,
           Ended(t)
    PROVE  OwnInv'
  <1>1. \A u \in Threads : u # t => call[u] = Idle
    BY ExecFacts
  <1>2. Loses({})
    BY DEF Loses, Ended
  <1>3. LoadingCall(call'[t]) /\ call'[t].at # "previous" /\ call'[t].at \notin Before /\ loading' = NoProgram
    BY IdleFacts DEF Ended, LoadingCall, Before
  <1> QED BY <1>1, <1>2, <1>3, LoadStep

\* The load goes on.
LEMMA GoingOn ==
    ASSUME OwnInv, BooksInv', NEW t \in Threads, Turn(t), call[t].at \in ExecStages, SameCalls, program' = program,
           Usable \subseteq Usable', Committed \subseteq Committed',
           call'[t].at \in Before, call'[t].pages = call[t].pages, call'[t].kind = call[t].kind,
           call'[t].stale = call[t].stale, LoadInv(call[t])'
    PROVE  OwnInv'
  <1>1. /\ \A u \in Threads : u # t => call[u] = Idle
        /\ call[t].pages = {} /\ call[t].kind = "none" /\ call[t].stale = {}
    BY ExecFacts
  <1>2. Loses({})
    BY DEF Loses
  <1>3. call'[t].at \in ExecStages /\ call'[t].at # "previous" /\ call'[t] # Idle
    BY IdleFacts DEF Before, ExecStages
  <1>4. LoadingCall(call'[t])
    BY <1>1, <1>3 DEF LoadingCall
  <1> QED BY <1>1, <1>2, <1>3, <1>4, LoadStep

LEMMA SpanPlaced ==
    ASSUME Booked, free \subseteq Page, NEW n \in Nat, AlignUp(n) = n, NEW hint \in {NoHint} \cup Nat,
           NEW s \in Placement(n, hint)
    PROVE  Span(s, n) \subseteq free /\ WholePages(Span(s, n)) /\ s \in Nat /\ s + n <= NPages
  <1>1. AlignUp(n) = n
    OBVIOUS
  <1>2. s \in Nat /\ (n = 0 => s <= NPages)
    BY PlacementType
  <1>3. CASE n = 0
    <2>1. Span(s, n) = {} /\ s + n <= NPages
      BY <1>2, <1>3, PageFacts, SMT DEF Span
    <2> QED BY <1>2, <2>1 DEF WholePages
  <1>4. CASE n # 0
    <2>1. n \in Nat \ {0} /\ s \in Placement(AlignUp(n), hint)
      BY <1>1, <1>4
    <2>2. s..(s + AlignUp(n) - 1) \subseteq free /\ WholePages(s..(s + AlignUp(n) - 1))
      BY <2>1, PlacementIsWhole DEF Booked
    <2>3. Span(s, n) \subseteq free /\ WholePages(Span(s, n))
      BY <1>1, <2>2 DEF Span
    <2>4. s + n - 1 \in Span(s, n)
      BY <1>2, <2>1, SMT DEF Span
    <2>5. s + n - 1 < NPages
      BY <2>3, <2>4, PageFacts
    <2> QED BY <1>2, <2>3, <2>5, PageFacts, SMT
  <1> QED BY <1>3, <1>4

LEMMA SpanBlock ==
    ASSUME Booked, free \subseteq Page, nextEpoch \in Nat \ {0}, NEW S, S \subseteq free, WholePages(S), NEW pr,
           CommitFree(S, pr, "ok"), Fresh(S)
    PROVE  Booked' /\ Took(S) /\ nextEpoch' \in Nat \ {0}
  <1>1. S \subseteq Page
    OBVIOUS
  <1>2. Took(S) /\ nextEpoch' \in Nat \ {0}
    BY <1>1, CommitFreeEffect DEF Took, Fresh
  <1> QED BY <1>1, <1>2, BookedCommit DEF Took

\* A load that fails for want of memory.
GaveUp(t) == call'[t] = Idle /\ loading' = NoProgram /\ Quiet /\ SameBytes /\ live' = live

LEMMA NoProgramFacts ==
    NoProgram \in ProgramType /\ NoProgram.images = {} /\ NoProgram.stack = {} /\ NoProgram.heap = {}
  BY DEF NoProgram, ProgramType

LEMMA ExecFailsEffect ==
    ASSUME BooksInv, NEW t \in Threads, ExecFails(t), UNCHANGED <<arena, live>>, SameCalls, program' = program
    PROVE  BooksInv' /\ Turn(t) /\ GaveUp(t)
  <1>1. free' = free /\ epoch' = epoch /\ nextEpoch' = nextEpoch /\ bytes' = bytes /\ open' = open /\ live' = live
    BY DEF arena, books
  <1>2. Typed /\ Committed' = Committed
    BY <1>1 DEF BooksInv, Committed
  <1>3. call'[t] = Idle /\ Turn(t) /\ loading' = NoProgram
    BY <1>2, IdleFacts, GoOnEffect DEF Turn, Typed, Back, ExecFails
  <1>4. BooksInv'
    BY <1>1, <1>2, <1>3, IdleFacts, NoProgramFacts, BooksOfQuietStep DEF SizedCall, Typed, SameCalls
  <1> QED BY <1>1, <1>2, <1>3, <1>4 DEF Quiet, SameBytes, GaveUp

\* The stack: a block whose lowest host page is closed again.
StackTook(S, G, T) ==
    /\ S \subseteq free /\ WholePages(S) /\ G \subseteq S /\ T \subseteq S /\ T \cap G = {}
    /\ free' = free \ S /\ Committed' = Committed \cup S /\ open' = (open \cup S) \ G
    /\ bytes' \in [Page -> {"zero", "data"}] /\ \A p \in Page \ S : bytes'[p] = bytes[p]
    /\ live' = live \ S

LEMMA ExecProcessStep ==
    ASSUME BooksInv, NEW t \in Threads, NEW images \in 1..2, ExecProcess(t, images)
    PROVE  Preserves
  <1>1. /\ BooksInv' /\ Turn(t) /\ Quiet /\ SameBytes /\ SameViews /\ SameOwners /\ held' = held /\ faulted' = faulted
        /\ \A u \in Threads : call[u] = Idle
        /\ ExecsShrunk \/ heap.limit = heap.base + HeapPages
        /\ call'[t].at = "image" /\ call'[t].pages = {} /\ call'[t].kind = "none" /\ call'[t].stale = {}
    <2> DEFINE c == [Idle EXCEPT !.at = "image", !.n = images]
    <2>1. /\ Begin(t, c) /\ \A u \in Threads : call[u] = Idle
          /\ ExecsShrunk \/ heap.limit = heap.base + HeapPages
          /\ held' = held /\ faulted' = faulted /\ program' = program /\ loading' = loading
          /\ free' = free /\ epoch' = epoch /\ nextEpoch' = nextEpoch /\ open' = open
          /\ bytes' = bytes /\ heap' = heap /\ segments' = segments /\ live' = live /\ slots' = slots
      BY DEF ExecProcess, arena, books
    <2>2. images \in Nat /\ images # 0
      BY SMT
    <2>3. c \in CallType /\ c.at = "image" /\ c.pages = {} /\ c.n = images /\ c.kind = "none" /\ c.stale = {}
      BY <2>2, IdleFacts DEF CallType, ExecStages
    <2> HIDE DEF c
    <2>4. Typed /\ Committed' = Committed
      BY <2>1 DEF BooksInv, Committed
    <2>5. call'[t] = c /\ Turn(t)
      BY <2>1, <2>3, <2>4, BeginEffect DEF Turn, Typed
    <2>6. BooksInv'
      BY <2>1, <2>2, <2>3, <2>4, <2>5, BooksOfQuietStep DEF SizedCall, Typed
    <2> QED BY <2>1, <2>3, <2>4, <2>5, <2>6 DEF Quiet, SameBytes, SameOwners, SameViews, SameProgram
  <1>2. ASSUME OwnInv, Careful PROVE OwnInv'
    <2> USE <1>2
    <2>1. NobodyExecs /\ call[t] = Idle
      BY <1>1, IdleFacts DEF NobodyExecs, Execing
    <2>2. loading = NoProgram /\ program.heap = Span(heap.base, HeapPages)
      BY <2>1 DEF OwnInv, ExecsInv
    <2>3. Reserve = program.heap
      <3>1. heap.limit = heap.base + HeapPages /\ heap.base \in Nat
        BY <1>1 DEF Careful, BooksInv, Typed, HeapType
      <3> QED BY <2>2, <3>1, PageFacts, SMT DEF Reserve, Span
    <2>4. SameCalls /\ program' = program /\ loading' = loading /\ Loaded' = {}
      BY <1>1, <2>2, NoProgramFacts DEF SameCalls, SameOwners, SameProgram, SameViews, Loaded
    <2>5. Reserve' = program'.heap
      BY <2>3, <2>4 DEF Reserve, SameCalls
    <2>6. LoadInv(call[t])'
      BY <1>1, <2>2, <2>4, <2>5, NoProgramFacts DEF LoadInv
    <2>7. Loses({})
      BY <1>1 DEF Loses, Usable, Quiet
    <2>8. LoadingCall(call'[t]) /\ call'[t].at # "previous" /\ call'[t] # Idle
      BY <1>1, IdleFacts DEF LoadingCall, ExecStages
    <2> QED BY <1>1, <2>4, <2>6, <2>7, <2>8, LoadStep
  <1>3. ASSUME OwnInv, FilesInv, SlotsSuffice PROVE FilesInv'
    <2>1. loading = NoProgram
      BY <1>1, <1>3, IdleFacts DEF OwnInv, ExecsInv, NobodyExecs, Execing
    <2>2. FewerViews /\ ~faulted'
      BY <1>1, <1>3, FewerByMove DEF FilesMove, SameViews, SameOwners, Reserve, FilesInv, CallsNeverFault
    <2>3. live' \cap (loading'.images \cup loading'.heap) = {}
      BY <1>1, <2>1, NoProgramFacts DEF SameOwners, SameProgram
    <2> QED BY <1>1, <1>3, <2>2, <2>3, LoadFiles
  <1> QED BY <1>1, <1>2, <1>3 DEF Preserves

LEMMA LoadElfStep ==
    ASSUME BooksInv, ImagesEnd \in {NoHint} \cup Nat, NEW t \in Threads, LoadElf(t)
    PROVE  Preserves
  <1>1. /\ BooksInv' /\ Turn(t) /\ SameCalls /\ program' = program /\ faulted' = faulted
        /\ call[t].at = "image"
        /\ \/ GaveUp(t)
           \/ \E s \in Nat :
                 /\ Took(Span(s, ImageSize))
                 /\ loading'.images = loading.images \cup Span(s, ImageSize)
                 /\ loading'.stack = loading.stack /\ loading'.heap = loading.heap
                 /\ call'[t].at = "segments" /\ call'[t].pages = call[t].pages /\ call'[t].kind = call[t].kind
                 /\ call'[t].stale = call[t].stale /\ call'[t].from = s
    <2>1. /\ call[t].at = "image" /\ SameCalls /\ program' = program /\ faulted' = faulted
      BY DEF LoadElf, At, SameCalls
    <2>2. /\ Typed /\ Booked /\ call[t] \in CallType /\ call[t].n \in Nat /\ call[t].n # 0
      BY <2>1 DEF BooksInv, Typed, CallType, SizedCall
    <2>3. CASE ExecFails(t) /\ UNCHANGED <<arena, live>>
      BY <2>1, <2>3, ExecFailsEffect
    <2>4. CASE \E s \in Placement(ImageSize, ImagesEnd) :
                  /\ CommitFree(Span(s, ImageSize), {"R", "W"}, "ok")
                  /\ Fresh(Span(s, ImageSize))
                  /\ loading' = [loading EXCEPT !.images = @ \cup Span(s, ImageSize)]
                  /\ GoOn(t, [call[t] EXCEPT !.at = "segments", !.n = @ - 1, !.from = s])
      <3>1. PICK s \in Placement(ImageSize, ImagesEnd) :
                  /\ CommitFree(Span(s, ImageSize), {"R", "W"}, "ok")
                  /\ Fresh(Span(s, ImageSize))
                  /\ loading' = [loading EXCEPT !.images = @ \cup Span(s, ImageSize)]
                  /\ GoOn(t, [call[t] EXCEPT !.at = "segments", !.n = @ - 1, !.from = s])
        BY <2>4
      <3> DEFINE S == Span(s, ImageSize)
                 m == call[t].n - 1
                 r == [call[t] EXCEPT !.at = "segments", !.n = m, !.from = s]
      <3>2. ImageSize \in Nat /\ AlignUp(ImageSize) = ImageSize
        <4>1. ImageSize \in Nat /\ ImageSize % K = 0
          BY ProgramsAssumption, SMT DEF ProgramsAssumption
        <4> QED BY <4>1, AlignUpFacts
      <3>3. S \subseteq free /\ WholePages(S) /\ s \in Nat
        BY <2>2, <3>2, SpanPlaced DEF Typed
      <3>4. m \in Nat
        BY <2>2, SMT
      <3>5. GoOn(t, r) /\ loading' = [loading EXCEPT !.images = loading.images \cup S]
        BY <3>1
      <3> HIDE DEF S, m
      <3>6. Booked' /\ Took(S) /\ nextEpoch' \in Nat \ {0} /\ S \subseteq Page
        <4>1. CommitFree(S, {"R", "W"}, "ok") /\ Fresh(S)
          BY <3>1 DEF S
        <4> QED BY <2>2, <3>3, <4>1, SpanBlock DEF Typed
      <3>7. /\ r \in CallType /\ r.at = "segments" /\ r.pages = call[t].pages /\ r.kind = call[t].kind
            /\ r.stale = call[t].stale /\ r.from = s
        BY <2>2, <3>3, <3>4 DEF CallType, ExecStages
      <3> HIDE DEF r
      <3>8. call'[t] = r /\ Turn(t)
        BY <2>2, <3>5, <3>7, GoOnEffect DEF Turn, Typed
      <3>9. /\ loading' \in ProgramType /\ loading'.images = loading.images \cup S
            /\ loading'.stack = loading.stack /\ loading'.heap = loading.heap
        BY <2>2, <3>5, <3>6 DEF Typed, ProgramType
      <3>10. Typed'
        BY <2>1, <2>2, <3>6, <3>8, <3>9 DEF Typed, Turn, Took, SameCalls
      <3>11. \A u \in Threads : SizedCall(call[u])'
        BY <3>7, <3>8 DEF BooksInv, Turn, SizedCall
      <3>12. BooksInv'
        BY <3>6, <3>10, <3>11 DEF BooksInv
      <3> QED BY <2>1, <3>3, <3>6, <3>7, <3>8, <3>9, <3>12 DEF S
    <2> QED BY <2>3, <2>4 DEF LoadElf
  <1>2. ASSUME OwnInv, Careful PROVE OwnInv'
    <2> USE <1>2
    <2>0. call[t].at \in ExecStages /\ call[t].at \in Before
      BY <1>1 DEF ExecStages, Before
    <2>1. LoadInv(call[t])
      BY <2>0, ExecFacts
    <2>2. CASE GaveUp(t)
      <3>1. Ended(t)
        BY <2>2 DEF GaveUp, Ended, Usable, Quiet
      <3> QED BY <1>1, <2>0, <3>1, GivingUp
    <2>3. ASSUME NEW s \in Nat, Took(Span(s, ImageSize)),
                 loading'.images = loading.images \cup Span(s, ImageSize),
                 loading'.stack = loading.stack, loading'.heap = loading.heap,
                 call'[t].at = "segments", call'[t].pages = call[t].pages, call'[t].kind = call[t].kind,
                 call'[t].stale = call[t].stale, call'[t].from = s
          PROVE  OwnInv'
      <3> DEFINE B == Span(s, ImageSize)
      <3>1. B \subseteq free /\ Committed' = Committed \cup B /\ open' = open \cup B
        BY <2>3 DEF Took
      <3>2. B \cap Committed = {} /\ B \subseteq Page
        BY <3>1 DEF BooksInv, Booked, FreeIsUncommitted, Typed
      <3>3. Usable \cup B \subseteq Usable' /\ Committed \subseteq Committed'
        BY <3>1 DEF Usable
      <3>4. loading.stack = {} /\ loading.heap = {}
        BY <1>1, <2>1 DEF LoadInv
      <3>5. Loaded' = Loaded \cup B
        BY <2>3 DEF Loaded
      <3> HIDE DEF B
      <3>6. /\ Reserve' = program'.heap /\ Loaded' \subseteq Usable' /\ Loaded' \cap Lands' = {}
            /\ \A p \in Loaded' : held'[p] = "none"
        BY <1>1, <2>0, <2>1, <3>2, <3>3, <3>5, LoadGrows
      <3>7. Span(call'[t].from, ImageSize) \subseteq loading'.images
        BY <2>3
      <3>8. LoadInv(call[t])'
        BY <2>3, <3>4, <3>6, <3>7 DEF LoadInv
      <3>9. call'[t].at \in Before /\ Usable \subseteq Usable'
        BY <2>3, <3>3 DEF Before
      <3> QED BY <1>1, <2>0, <2>3, <3>3, <3>8, <3>9, GoingOn
    <2> QED BY <1>1, <2>2, <2>3
  <1>3. ASSUME OwnInv, FilesInv, SlotsSuffice PROVE FilesInv'
    <2>1. \A u \in Threads : u # t => call[u] = Idle
      BY <1>1, <1>3, ExecFacts DEF ExecStages
    <2>2. call[t].pages = {}
      BY <1>1, <1>3, ExecFacts DEF ExecStages
    <2>3. live \cap (loading.images \cup loading.heap) = {}
      BY <1>1, <1>3 DEF FilesInv, Before
    <2>4. ~faulted'
      BY <1>1, <1>3 DEF FilesInv, CallsNeverFault
    <2>5. CASE GaveUp(t)
      <3>1. FewerViews
        BY <1>1, <1>3, <2>5, FewerByMove DEF FilesMove, SameCalls, GaveUp, Reserve
      <3>2. call'[t].at = "idle" /\ call'[t].pages = {}
        BY <2>5, IdleFacts DEF GaveUp
      <3> QED BY <1>1, <1>3, <2>1, <2>4, <3>1, <3>2, LoadFiles DEF Before
    <2>6. ASSUME NEW s \in Nat, Took(Span(s, ImageSize)), loading'.images = loading.images \cup Span(s, ImageSize),
                 loading'.heap = loading.heap, call'[t].at = "segments", call'[t].pages = call[t].pages
          PROVE  FilesInv'
      <3>1. FewerViews
        BY <1>1, <1>3, <2>6, FewerByMove DEF FilesMove, SameCalls, Reserve
      <3>2. live' \cap (loading'.images \cup loading'.heap) = {}
        BY <2>3, <2>6 DEF Took
      <3> QED BY <1>1, <1>3, <2>1, <2>2, <2>4, <2>6, <3>1, <3>2, LoadFiles
    <2> QED BY <1>1, <2>5, <2>6
  <1> QED BY <1>1, <1>2, <1>3 DEF Preserves

LEMMA LoadSegmentsStep ==
    ASSUME BooksInv, NEW t \in Threads, LoadSegments(t)
    PROVE  Preserves
  <1>1. /\ BooksInv' /\ Turn(t) /\ Quiet /\ SameCalls /\ live' = live /\ program' = program
        /\ call[t].at = "segments"
        /\ bytes' = [p \in Page |-> IF p = call[t].from THEN "data" ELSE IF p \in Span(call[t].from, ImageSize) THEN "zero" ELSE bytes[p]]
        /\ (faulted' <=> faulted \/ Span(call[t].from, ImageSize) \cap live # {})
        /\ \/ call'[t] = Idle /\ loading' = NoProgram
           \/ /\ call'[t].at = "segprot" /\ call'[t].pages = call[t].pages /\ call'[t].kind = call[t].kind
              /\ call'[t].stale = call[t].stale /\ call'[t].from = call[t].from /\ loading' = loading
    <2> DEFINE S == Span(call[t].from, ImageSize)
               c == [call[t] EXCEPT !.at = "segprot"]
    <2>1. /\ call[t].at = "segments" /\ SameCalls /\ program' = program /\ live' = live /\ Writes(S)
          /\ bytes' = [p \in Page |-> IF p = call[t].from THEN "data" ELSE IF p \in S THEN "zero" ELSE bytes[p]]
          /\ (GoOn(t, c) /\ loading' = loading) \/ ExecFails(t)
          /\ free' = free /\ epoch' = epoch /\ nextEpoch' = nextEpoch /\ open' = open
      BY DEF LoadSegments, At, SameCalls, books
    <2> HIDE DEF S
    <2>2. Typed /\ Committed' = Committed /\ call[t] \in CallType
      BY <2>1 DEF BooksInv, Committed, Typed
    <2>3. /\ c \in CallType /\ c.at = "segprot" /\ c.pages = call[t].pages /\ c.kind = call[t].kind
          /\ c.stale = call[t].stale /\ c.from = call[t].from
      BY <2>2 DEF CallType, ExecStages
    <2> HIDE DEF c
    <2>4. bytes' \in [Page -> {"zero", "data"}]
      BY <2>1, <2>2 DEF Typed
    <2>5. CASE GoOn(t, c) /\ loading' = loading
      <3>1. call'[t] = c /\ Turn(t)
        BY <2>2, <2>3, <2>5, GoOnEffect DEF Turn, Typed
      <3>2. BooksInv'
        BY <2>1, <2>2, <2>3, <2>4, <2>5, <3>1, BooksOfQuietStep DEF SizedCall, Typed, SameCalls
      <3> QED BY <2>1, <2>2, <2>3, <2>5, <3>1, <3>2 DEF Quiet, Writes, S
    <2>6. CASE ExecFails(t)
      <3>1. call'[t] = Idle /\ Turn(t) /\ loading' = NoProgram
        BY <2>2, <2>6, IdleFacts, GoOnEffect DEF Turn, Typed, Back, ExecFails
      <3>2. BooksInv'
        BY <2>1, <2>2, <2>4, <3>1, IdleFacts, NoProgramFacts, BooksOfQuietStep DEF SizedCall, Typed, SameCalls
      <3> QED BY <2>1, <2>2, <3>1, <3>2 DEF Quiet, Writes, S
    <2> QED BY <2>1, <2>5, <2>6
  <1>2. ASSUME OwnInv, Careful PROVE OwnInv'
    <2> USE <1>2
    <2>0. call[t].at \in ExecStages /\ call[t].at \in Before
      BY <1>1 DEF ExecStages, Before
    <2>1. LoadInv(call[t])
      BY <2>0, ExecFacts
    <2>2. Usable \subseteq Usable' /\ Committed \subseteq Committed'
      BY <1>1 DEF Quiet, Usable
    <2>3. CASE call'[t] = Idle /\ loading' = NoProgram
      <3>1. Ended(t)
        BY <2>2, <2>3 DEF Ended
      <3> QED BY <1>1, <2>0, <3>1, GivingUp
    <2>4. ASSUME loading' = loading PROVE
          /\ Reserve' = program'.heap /\ Loaded' \subseteq Usable' /\ Loaded' \cap Lands' = {}
          /\ \A p \in Loaded' : held'[p] = "none"
      <3> DEFINE B == {}
      <3>1. B \cap Committed = {} /\ B \subseteq Page /\ Usable \cup B \subseteq Usable' /\ Loaded' \subseteq Loaded \cup B
        BY <2>2, <2>4 DEF Loaded
      <3> HIDE DEF B
      <3> QED BY <1>1, <2>0, <2>1, <2>2, <3>1, LoadGrows
    <2>5. CASE /\ call'[t].at = "segprot" /\ call'[t].pages = call[t].pages /\ call'[t].kind = call[t].kind
               /\ call'[t].stale = call[t].stale /\ call'[t].from = call[t].from /\ loading' = loading
      <3>1. LoadInv(call[t])'
        BY <1>1, <2>1, <2>4, <2>5 DEF LoadInv
      <3>2. call'[t].at \in Before
        BY <2>5 DEF Before
      <3> QED BY <1>1, <2>0, <2>2, <2>5, <3>1, <3>2, GoingOn
    <2> QED BY <1>1, <2>3, <2>5
  <1>3. ASSUME OwnInv, FilesInv, SlotsSuffice PROVE FilesInv'
    <2>1. \A u \in Threads : u # t => call[u] = Idle
      BY <1>1, <1>3, ExecFacts DEF ExecStages
    <2>2. call[t].pages = {}
      BY <1>1, <1>3, ExecFacts DEF ExecStages
    <2>3. live \cap (loading.images \cup loading.heap) = {}
      BY <1>1, <1>3 DEF FilesInv, Before
    <2>4. Span(call[t].from, ImageSize) \subseteq loading.images
      BY <1>1, <1>3, ExecFacts DEF ExecStages, Before, LoadInv
    <2>5. ~faulted'
      BY <1>1, <1>3, <2>3, <2>4 DEF FilesInv, CallsNeverFault
    <2>6. FewerViews
      BY <1>1, <1>3, FewerByMove DEF FilesMove, SameCalls, Reserve
    <2>7. call'[t].at # "copy" /\ call'[t].pages = {}
      BY <1>1, <2>2, IdleFacts
    <2>8. call'[t].at \in Before => live' \cap (loading'.images \cup loading'.heap) = {}
      BY <1>1, <2>3, IdleFacts DEF Before
    <2> QED BY <1>1, <1>3, <2>1, <2>5, <2>6, <2>7, <2>8, LoadFiles
  <1> QED BY <1>1, <1>2, <1>3 DEF Preserves

LEMMA ProtectSegmentsStep ==
    ASSUME BooksInv, NEW t \in Threads, ProtectSegments(t)
    PROVE  Preserves
  <1>1. /\ BooksInv' /\ Turn(t) /\ Quiet /\ SameBytes /\ SameCalls /\ live' = live /\ SameProgram
        /\ call[t].at = "segprot" /\ call'[t].at \in {"image", "stack"}
        /\ call'[t].pages = call[t].pages /\ call'[t].kind = call[t].kind /\ call'[t].stale = call[t].stale
        /\ faulted' = faulted
    <2> DEFINE at == IF call[t].n > 0 THEN "image" ELSE "stack"
               c == [call[t] EXCEPT !.at = at, !.from = 0]
    <2>1. /\ call[t].at = "segprot" /\ SameCalls /\ SameProgram /\ live' = live /\ GoOn(t, c)
          /\ Protect({call[t].from}, {"R", "X"}) /\ faulted' = faulted
      BY DEF ProtectSegments, At, SameCalls, SameProgram
    <2>2. free' = free /\ epoch' = epoch /\ nextEpoch' = nextEpoch /\ bytes' = bytes /\ open \subseteq open'
      BY <2>1 DEF Protect
    <2>3. Typed /\ Committed' = Committed /\ call[t] \in CallType /\ call[t].n \in Nat
      BY <2>2 DEF BooksInv, Committed, Typed, CallType
    <2>4. at \in {"image", "stack"} /\ (at = "image" => call[t].n # 0) /\ 0 \in Nat
      BY <2>3, SMT
    <2> HIDE DEF at
    <2>5. /\ c \in CallType /\ c.at = at /\ c.pages = call[t].pages /\ c.kind = call[t].kind
          /\ c.stale = call[t].stale /\ c.n = call[t].n
      BY <2>3, <2>4 DEF CallType, ExecStages
    <2> HIDE DEF c
    <2>6. call'[t] = c /\ Turn(t)
      BY <2>1, <2>3, <2>5, GoOnEffect DEF Turn, Typed
    <2>7. SizedCall(call'[t])
      BY <2>4, <2>5, <2>6 DEF SizedCall
    <2>8. BooksInv'
      BY <2>1, <2>2, <2>3, <2>6, <2>7, BooksOfQuietStep DEF Typed, SameCalls, SameProgram
    <2> QED BY <2>1, <2>2, <2>3, <2>4, <2>5, <2>6, <2>8 DEF Quiet, SameBytes
  <1>2. ASSUME OwnInv, Careful PROVE OwnInv'
    <2> USE <1>2
    <2>0. call[t].at \in ExecStages /\ call[t].at \in Before
      BY <1>1 DEF ExecStages, Before
    <2>1. LoadInv(call[t])
      BY <2>0, ExecFacts
    <2>2. Usable \subseteq Usable' /\ Committed \subseteq Committed' /\ program' = program /\ loading' = loading
      BY <1>1 DEF Quiet, Usable, SameProgram
    <2>3. ASSUME loading' = loading PROVE
          /\ Reserve' = program'.heap /\ Loaded' \subseteq Usable' /\ Loaded' \cap Lands' = {}
          /\ \A p \in Loaded' : held'[p] = "none"
      <3> DEFINE B == {}
      <3>1. B \cap Committed = {} /\ B \subseteq Page /\ Usable \cup B \subseteq Usable' /\ Loaded' \subseteq Loaded \cup B
        BY <2>2, <2>3 DEF Loaded
      <3> HIDE DEF B
      <3> QED BY <1>1, <2>0, <2>1, <2>2, <3>1, LoadGrows
    <2>4. LoadInv(call[t])'
      <3>1. call'[t].at \notin {"heap", "adopt"} /\ call'[t].at # "adopt" /\ call'[t].at # "segments"
        BY <1>1
      <3>2. loading.stack = {} /\ loading.heap = {}
        BY <1>1, <2>1 DEF LoadInv
      <3> QED BY <2>1, <2>2, <2>3, <3>1, <3>2 DEF LoadInv
    <2>5. call'[t].at \in Before
      BY <1>1 DEF Before
    <2> QED BY <1>1, <2>0, <2>2, <2>4, <2>5, GoingOn
  <1>3. ASSUME OwnInv, FilesInv, SlotsSuffice PROVE FilesInv'
    <2>1. \A u \in Threads : u # t => call[u] = Idle
      BY <1>1, <1>3, ExecFacts DEF ExecStages
    <2>2. call[t].pages = {}
      BY <1>1, <1>3, ExecFacts DEF ExecStages
    <2>3. live \cap (loading.images \cup loading.heap) = {}
      BY <1>1, <1>3 DEF FilesInv, Before
    <2>4. FewerViews /\ ~faulted'
      BY <1>1, <1>3, FewerByMove DEF FilesMove, SameCalls, Reserve, FilesInv, CallsNeverFault
    <2>5. live' \cap (loading'.images \cup loading'.heap) = {}
      BY <1>1, <2>3 DEF SameProgram
    <2> QED BY <1>1, <1>3, <2>1, <2>2, <2>4, <2>5, LoadFiles
  <1> QED BY <1>1, <1>2, <1>3 DEF Preserves

LEMMA BuildInitialStackStep ==
    ASSUME BooksInv, NEW t \in Threads, BuildInitialStack(t)
    PROVE  Preserves
  <1>1. /\ BooksInv' /\ Turn(t) /\ SameCalls /\ program' = program /\ faulted' = faulted
        /\ call[t].at = "stack"
        /\ \/ GaveUp(t)
           \/ \E S, G, T :
                 /\ StackTook(S, G, T)
                 /\ \/ call'[t] = Idle /\ loading' = NoProgram
                    \/ /\ loading'.images = loading.images /\ loading'.stack = T /\ loading'.heap = loading.heap
                       /\ call'[t].at = "heap" /\ call'[t].pages = call[t].pages /\ call'[t].kind = call[t].kind
                       /\ call'[t].stale = call[t].stale
    <2> DEFINE len == K + StackPages
    <2>1. /\ call[t].at = "stack" /\ SameCalls /\ program' = program /\ faulted' = faulted
      BY DEF BuildInitialStack, At, SameCalls
    <2>2. Typed /\ Booked /\ call[t] \in CallType
      BY <2>1 DEF BooksInv, Typed
    <2>3. K \in Nat /\ K > 0 /\ StackPages \in Nat /\ StackPages > 0 /\ StackPages % K = 0
      BY PageFacts, ProgramsAssumption, SMT DEF ProgramsAssumption
    <2>4. len \in Nat /\ AlignUp(len) = len
      <3>1. PICK q \in Nat : StackPages = K * q
        BY <2>3, AlignUpFacts
      <3>2. q + 1 \in Nat /\ len = K * (q + 1) /\ len \in Nat
        BY <2>3, <3>1, SMT
      <3> QED BY <3>2, AlignUpFacts
    <2>5. CASE ExecFails(t) /\ UNCHANGED <<arena, live>>
      BY <2>1, <2>5, ExecFailsEffect
    <2>6. ASSUME NEW s \in Placement(len, NoHint),
                 free' = free \ Span(s, len),
                 epoch' = [p \in Page |-> IF p \in Span(s, len) THEN nextEpoch ELSE epoch[p]],
                 nextEpoch' = nextEpoch + 1,
                 bytes' = [Zeroed(Span(s, len), "ok") EXCEPT ![s + len - 1] = "data"],
                 open' = (open \cup Span(s, len)) \ Span(s, K),
                 Fresh(Span(s, len)),
                 \/ /\ loading' = [loading EXCEPT !.stack = Span(s + K, StackPages)]
                    /\ GoOn(t, [call[t] EXCEPT !.at = "heap"])
                 \/ ExecFails(t)
          PROVE  /\ BooksInv' /\ Turn(t)
                 /\ \E S, G, T :
                      /\ StackTook(S, G, T)
                      /\ \/ call'[t] = Idle /\ loading' = NoProgram
                         \/ /\ loading'.images = loading.images /\ loading'.stack = T /\ loading'.heap = loading.heap
                            /\ call'[t].at = "heap" /\ call'[t].pages = call[t].pages /\ call'[t].kind = call[t].kind
                            /\ call'[t].stale = call[t].stale
      <3> DEFINE S == Span(s, len)
                 G == Span(s, K)
                 T == Span(s + K, StackPages)
                 r == [call[t] EXCEPT !.at = "heap"]
      <3>1. S \subseteq free /\ WholePages(S) /\ s \in Nat
        <4> DEFINE hint == NoHint
        <4>1. hint \in {NoHint} \cup Nat /\ s \in Placement(len, hint)
          BY <2>6
        <4> HIDE DEF hint, len
        <4> QED BY <2>2, <2>4, <4>1, SpanPlaced DEF Typed
      <3>2. G \subseteq S /\ T \subseteq S /\ T \cap G = {} /\ s + len - 1 \in S
        BY <2>3, <3>1, SMT DEF Span
      <3>3. /\ free' = free \ S /\ open' = (open \cup S) \ G /\ live' = live \ S
            /\ \A p \in Page : epoch'[p] = IF p \in S THEN nextEpoch ELSE epoch[p]
        BY <2>6 DEF Fresh
      <3>4. S \subseteq Page /\ nextEpoch \in Nat \ {0}
        BY <2>2, <3>1 DEF Typed
      <3>5. nextEpoch' \in Nat \ {0}
        BY <2>6, <3>4, SMT
      <3>6. bytes' \in [Page -> {"zero", "data"}] /\ \A p \in Page \ S : bytes'[p] = bytes[p]
        <4>1. bytes \in [Page -> {"zero", "data"}]
          BY <2>2 DEF Typed
        <4> DEFINE z == [p \in Page |-> IF p \in S THEN "zero" ELSE bytes[p]]
                   top == s + len - 1
        <4>2. z = Zeroed(S, "ok")
          BY DEF Zeroed
        <4>3. bytes' = [z EXCEPT ![top] = "data"] /\ top \in S
          BY <2>6, <3>2, <4>2
        <4> HIDE DEF S, top
        <4> QED BY <3>4, <4>1, <4>3
      <3>7. (loading' = [loading EXCEPT !.stack = T] /\ GoOn(t, r)) \/ ExecFails(t)
        BY <2>6
      <3> HIDE DEF S, G, T
      <3>8. Committed' = Committed \cup S
        BY <3>3, <3>4 DEF Committed
      <3>9. StackTook(S, G, T)
        BY <3>1, <3>2, <3>3, <3>6, <3>8 DEF StackTook
      <3>10. Booked'
        BY <2>2, <3>1, <3>3, <3>4, <3>8, BookedCommit DEF Typed
      <3>11. CASE loading' = [loading EXCEPT !.stack = T] /\ GoOn(t, r)
        <4>1. /\ r \in CallType /\ r.at = "heap" /\ r.pages = call[t].pages /\ r.kind = call[t].kind
              /\ r.stale = call[t].stale
          BY <2>2 DEF CallType, ExecStages
        <4> HIDE DEF r
        <4>2. call'[t] = r /\ Turn(t)
          BY <2>2, <3>11, <4>1, GoOnEffect DEF Turn, Typed
        <4>3. /\ loading' \in ProgramType /\ loading'.images = loading.images
              /\ loading'.stack = T /\ loading'.heap = loading.heap
          BY <2>2, <3>2, <3>4, <3>11 DEF Typed, ProgramType
        <4>4. Typed'
          BY <2>1, <2>2, <3>3, <3>5, <3>6, <4>2, <4>3 DEF Typed, Turn, SameCalls
        <4>5. \A u \in Threads : SizedCall(call[u])'
          BY <4>1, <4>2 DEF BooksInv, Turn, SizedCall
        <4> QED BY <3>9, <3>10, <4>1, <4>2, <4>3, <4>4, <4>5 DEF BooksInv
      <3>12. CASE ExecFails(t)
        <4>1. call'[t] = Idle /\ Turn(t) /\ loading' = NoProgram
          BY <2>2, <3>12, IdleFacts, GoOnEffect DEF Turn, Typed, Back, ExecFails
        <4>2. Typed'
          BY <2>1, <2>2, <3>3, <3>5, <3>6, <4>1, NoProgramFacts DEF Typed, Turn, SameCalls
        <4>3. \A u \in Threads : SizedCall(call[u])'
          BY <4>1, IdleFacts DEF BooksInv, Turn, SizedCall
        <4> QED BY <3>9, <3>10, <4>1, <4>2, <4>3 DEF BooksInv
      <3> QED BY <3>7, <3>11, <3>12
    <2>7. \/ ExecFails(t) /\ UNCHANGED <<arena, live>>
          \/ \E s \in Placement(len, NoHint) :
                 /\ free' = free \ Span(s, len)
                 /\ epoch' = [p \in Page |-> IF p \in Span(s, len) THEN nextEpoch ELSE epoch[p]]
                 /\ nextEpoch' = nextEpoch + 1
                 /\ bytes' = [Zeroed(Span(s, len), "ok") EXCEPT ![s + len - 1] = "data"]
                 /\ open' = (open \cup Span(s, len)) \ Span(s, K)
                 /\ Fresh(Span(s, len))
                 /\ \/ /\ loading' = [loading EXCEPT !.stack = Span(s + K, StackPages)]
                       /\ GoOn(t, [call[t] EXCEPT !.at = "heap"])
                    \/ ExecFails(t)
      BY DEF BuildInitialStack
    <2> QED BY <2>1, <2>5, <2>6, <2>7
  <1>2. ASSUME OwnInv, Careful PROVE OwnInv'
    <2> USE <1>2
    <2>0. call[t].at \in ExecStages /\ call[t].at \in Before
      BY <1>1 DEF ExecStages, Before
    <2>1. LoadInv(call[t])
      BY <2>0, ExecFacts
    <2>2. CASE GaveUp(t)
      <3>1. Ended(t)
        BY <2>2 DEF GaveUp, Ended, Usable, Quiet
      <3> QED BY <1>1, <2>0, <3>1, GivingUp
    <2>3. ASSUME NEW S, NEW G, NEW T, StackTook(S, G, T) PROVE
          /\ T \cap Committed = {} /\ T \subseteq Page /\ Usable \cup T \subseteq Usable' /\ Committed \subseteq Committed'
      <3>1. /\ S \subseteq free /\ Committed' = Committed \cup S /\ open' = (open \cup S) \ G
            /\ T \subseteq S /\ G \subseteq S /\ T \cap G = {}
        BY <2>3 DEF StackTook
      <3>2. S \cap Committed = {} /\ S \subseteq Page
        BY <3>1 DEF BooksInv, Booked, FreeIsUncommitted, Typed
      <3> QED BY <3>1, <3>2 DEF Usable
    <2>4. ASSUME NEW S, NEW G, NEW T, StackTook(S, G, T), call'[t] = Idle, loading' = NoProgram PROVE OwnInv'
      <3>1. Ended(t)
        BY <2>3, <2>4 DEF Ended
      <3> QED BY <1>1, <2>0, <3>1, GivingUp
    <2>5. ASSUME NEW S, NEW G, NEW T, StackTook(S, G, T),
                 loading'.images = loading.images, loading'.stack = T, loading'.heap = loading.heap,
                 call'[t].at = "heap", call'[t].pages = call[t].pages, call'[t].kind = call[t].kind,
                 call'[t].stale = call[t].stale
          PROVE  OwnInv'
      <3>1. T \cap Committed = {} /\ T \subseteq Page /\ Usable \cup T \subseteq Usable' /\ Committed \subseteq Committed'
        BY <2>3, <2>5
      <3>2. loading.heap = {} /\ loading.stack = {}
        BY <1>1, <2>1 DEF LoadInv
      <3>3. Loaded' = Loaded \cup T
        BY <2>5, <3>2 DEF Loaded
      <3>4. /\ Reserve' = program'.heap /\ Loaded' \subseteq Usable' /\ Loaded' \cap Lands' = {}
            /\ \A p \in Loaded' : held'[p] = "none"
            /\ T \cap Loaded = {}
        BY <1>1, <2>0, <2>1, <3>1, <3>3, LoadGrows
      <3>5. loading'.images \cap loading'.stack = {}
        BY <2>5, <3>4 DEF Loaded
      <3>6. LoadInv(call[t])'
        BY <2>5, <3>2, <3>4, <3>5 DEF LoadInv
      <3>7. call'[t].at \in Before /\ Usable \subseteq Usable'
        BY <2>5, <3>1 DEF Before
      <3> QED BY <1>1, <2>0, <2>5, <3>1, <3>6, <3>7, GoingOn
    <2> QED BY <1>1, <2>2, <2>4, <2>5
  <1>3. ASSUME OwnInv, FilesInv, SlotsSuffice PROVE FilesInv'
    <2>1. \A u \in Threads : u # t => call[u] = Idle
      BY <1>1, <1>3, ExecFacts DEF ExecStages
    <2>2. call[t].pages = {}
      BY <1>1, <1>3, ExecFacts DEF ExecStages
    <2>3. live \cap (loading.images \cup loading.heap) = {}
      BY <1>1, <1>3 DEF FilesInv, Before
    <2>4. ~faulted'
      BY <1>1, <1>3 DEF FilesInv, CallsNeverFault
    <2>5. CASE GaveUp(t)
      <3>1. FewerViews
        BY <1>1, <1>3, <2>5, FewerByMove DEF FilesMove, SameCalls, GaveUp, Reserve
      <3>2. call'[t].at = "idle" /\ call'[t].pages = {}
        BY <2>5, IdleFacts DEF GaveUp
      <3> QED BY <1>1, <1>3, <2>1, <2>4, <3>1, <3>2, LoadFiles DEF Before
    <2>6. ASSUME NEW S, NEW G, NEW T, StackTook(S, G, T),
                 \/ call'[t] = Idle
                 \/ /\ loading'.images = loading.images /\ loading'.heap = loading.heap
                    /\ call'[t].at = "heap" /\ call'[t].pages = call[t].pages
          PROVE  FilesInv'
      <3>1. live' \subseteq live /\ free' \subseteq free /\ slots' = slots /\ Reserve' = Reserve
        BY <1>1, <2>6 DEF StackTook, SameCalls, Reserve
      <3>2. FewerViews
        BY <1>3, <3>1 DEF FewerViews, FilesInv, Viewed
      <3>3. call'[t].at # "copy" /\ call'[t].pages = {}
        BY <2>2, <2>6, IdleFacts
      <3>4. call'[t].at \in Before => live' \cap (loading'.images \cup loading'.heap) = {}
        BY <2>3, <2>6, <3>1, IdleFacts DEF Before
      <3> QED BY <1>1, <1>3, <2>1, <2>4, <3>2, <3>3, <3>4, LoadFiles
    <2> QED BY <1>1, <2>5, <2>6
  <1> QED BY <1>1, <1>2, <1>3 DEF Preserves

LEMMA LoadHeapStep ==
    ASSUME BooksInv, ImagesEnd \in {NoHint} \cup Nat, NEW t \in Threads, LoadHeap(t)
    PROVE  Preserves
  <1>1. /\ BooksInv' /\ Turn(t) /\ SameCalls /\ program' = program /\ faulted' = faulted
        /\ call[t].at = "heap"
        /\ \/ GaveUp(t)
           \/ \E s \in Nat :
                 /\ Took(Span(s, HeapPages))
                 /\ loading'.images = loading.images /\ loading'.stack = loading.stack
                 /\ loading'.heap = Span(s, HeapPages)
                 /\ call'[t].at = "adopt" /\ call'[t].pages = call[t].pages /\ call'[t].kind = call[t].kind
                 /\ call'[t].stale = call[t].stale /\ call'[t].from = s
    <2>1. /\ call[t].at = "heap" /\ SameCalls /\ program' = program /\ faulted' = faulted
      BY DEF LoadHeap, At, SameCalls
    <2>2. Typed /\ Booked /\ call[t] \in CallType
      BY <2>1 DEF BooksInv, Typed
    <2>3. CASE ExecFails(t) /\ UNCHANGED <<arena, live>>
      BY <2>1, <2>3, ExecFailsEffect
    <2>4. CASE \E s \in Placement(HeapPages, ImagesEnd) :
                  /\ CommitFree(Span(s, HeapPages), {"R", "W"}, "ok")
                  /\ Fresh(Span(s, HeapPages))
                  /\ loading' = [loading EXCEPT !.heap = Span(s, HeapPages)]
                  /\ GoOn(t, [call[t] EXCEPT !.at = "adopt", !.from = s])
      <3>1. PICK s \in Placement(HeapPages, ImagesEnd) :
                  /\ CommitFree(Span(s, HeapPages), {"R", "W"}, "ok")
                  /\ Fresh(Span(s, HeapPages))
                  /\ loading' = [loading EXCEPT !.heap = Span(s, HeapPages)]
                  /\ GoOn(t, [call[t] EXCEPT !.at = "adopt", !.from = s])
        BY <2>4
      <3> DEFINE S == Span(s, HeapPages)
                 r == [call[t] EXCEPT !.at = "adopt", !.from = s]
      <3>2. HeapPages \in Nat /\ AlignUp(HeapPages) = HeapPages
        <4>1. HeapPages \in Nat /\ HeapPages % K = 0
          BY CallsAssumption, PageFacts DEF CallsAssumption
        <4> QED BY <4>1, AlignUpFacts
      <3>3. S \subseteq free /\ WholePages(S) /\ s \in Nat /\ s + HeapPages <= NPages
        BY <2>2, <3>2, SpanPlaced DEF Typed
      <3>4. GoOn(t, r) /\ loading' = [loading EXCEPT !.heap = S]
        BY <3>1
      <3> HIDE DEF S
      <3>5. Booked' /\ Took(S) /\ nextEpoch' \in Nat \ {0} /\ S \subseteq Page
        <4>1. CommitFree(S, {"R", "W"}, "ok") /\ Fresh(S)
          BY <3>1 DEF S
        <4> QED BY <2>2, <3>3, <4>1, SpanBlock DEF Typed
      <3>6. /\ r \in CallType /\ r.at = "adopt" /\ r.pages = call[t].pages /\ r.kind = call[t].kind
            /\ r.stale = call[t].stale /\ r.from = s
        BY <2>2, <3>3 DEF CallType, ExecStages
      <3> HIDE DEF r
      <3>7. call'[t] = r /\ Turn(t)
        BY <2>2, <3>4, <3>6, GoOnEffect DEF Turn, Typed
      <3>8. /\ loading' \in ProgramType /\ loading'.images = loading.images
            /\ loading'.stack = loading.stack /\ loading'.heap = S
        BY <2>2, <3>4, <3>5 DEF Typed, ProgramType
      <3>9. Typed'
        BY <2>1, <2>2, <3>5, <3>7, <3>8 DEF Typed, Turn, Took, SameCalls
      <3>10. SizedCall(call'[t])
        BY <3>3, <3>6, <3>7 DEF SizedCall
      <3>11. \A u \in Threads : SizedCall(call[u])'
        BY <3>7, <3>10 DEF BooksInv, Turn, SizedCall
      <3>12. BooksInv'
        BY <3>5, <3>9, <3>11 DEF BooksInv
      <3> QED BY <2>1, <3>3, <3>5, <3>6, <3>7, <3>8, <3>12 DEF S
    <2> QED BY <2>3, <2>4 DEF LoadHeap
  <1>2. ASSUME OwnInv, Careful PROVE OwnInv'
    <2> USE <1>2
    <2>0. call[t].at \in ExecStages /\ call[t].at \in Before
      BY <1>1 DEF ExecStages, Before
    <2>1. LoadInv(call[t])
      BY <2>0, ExecFacts
    <2>2. CASE GaveUp(t)
      <3>1. Ended(t)
        BY <2>2 DEF GaveUp, Ended, Usable, Quiet
      <3> QED BY <1>1, <2>0, <3>1, GivingUp
    <2>3. ASSUME NEW s \in Nat, Took(Span(s, HeapPages)),
                 loading'.images = loading.images, loading'.stack = loading.stack,
                 loading'.heap = Span(s, HeapPages),
                 call'[t].at = "adopt", call'[t].pages = call[t].pages, call'[t].kind = call[t].kind,
                 call'[t].stale = call[t].stale, call'[t].from = s
          PROVE  OwnInv'
      <3> DEFINE B == Span(s, HeapPages)
      <3>1. B \subseteq free /\ Committed' = Committed \cup B /\ open' = open \cup B
        BY <2>3 DEF Took
      <3>2. B \cap Committed = {} /\ B \subseteq Page
        BY <3>1 DEF BooksInv, Booked, FreeIsUncommitted, Typed
      <3>3. Usable \cup B \subseteq Usable' /\ Committed \subseteq Committed'
        BY <3>1 DEF Usable
      <3>4. loading.heap = {} /\ loading.images \cap loading.stack = {}
        BY <1>1, <2>1 DEF LoadInv
      <3>5. Loaded' = Loaded \cup B
        BY <2>3, <3>4 DEF Loaded
      <3>6. loading'.heap = B /\ loading'.heap = Span(call'[t].from, HeapPages)
        BY <2>3
      <3> HIDE DEF B
      <3>7. /\ Reserve' = program'.heap /\ Loaded' \subseteq Usable' /\ Loaded' \cap Lands' = {}
            /\ \A p \in Loaded' : held'[p] = "none"
            /\ B \cap Loaded = {}
        BY <1>1, <2>0, <2>1, <3>2, <3>3, <3>5, LoadGrows
      <3>8. (loading'.images \cup loading'.stack) \cap loading'.heap = {}
        BY <2>3, <3>6, <3>7 DEF Loaded
      <3>9. LoadInv(call[t])'
        BY <2>3, <3>4, <3>6, <3>7, <3>8 DEF LoadInv
      <3>10. call'[t].at \in Before /\ Usable \subseteq Usable'
        BY <2>3, <3>3 DEF Before
      <3> QED BY <1>1, <2>0, <2>3, <3>3, <3>9, <3>10, GoingOn
    <2> QED BY <1>1, <2>2, <2>3
  <1>3. ASSUME OwnInv, FilesInv, SlotsSuffice PROVE FilesInv'
    <2>1. \A u \in Threads : u # t => call[u] = Idle
      BY <1>1, <1>3, ExecFacts DEF ExecStages
    <2>2. call[t].pages = {}
      BY <1>1, <1>3, ExecFacts DEF ExecStages
    <2>3. live \cap (loading.images \cup loading.heap) = {}
      BY <1>1, <1>3 DEF FilesInv, Before
    <2>4. ~faulted'
      BY <1>1, <1>3 DEF FilesInv, CallsNeverFault
    <2>5. CASE GaveUp(t)
      <3>1. FewerViews
        BY <1>1, <1>3, <2>5, FewerByMove DEF FilesMove, SameCalls, GaveUp, Reserve
      <3>2. call'[t].at = "idle" /\ call'[t].pages = {}
        BY <2>5, IdleFacts DEF GaveUp
      <3> QED BY <1>1, <1>3, <2>1, <2>4, <3>1, <3>2, LoadFiles DEF Before
    <2>6. ASSUME NEW s \in Nat, Took(Span(s, HeapPages)), loading'.images = loading.images,
                 loading'.heap = Span(s, HeapPages), call'[t].at = "adopt", call'[t].pages = call[t].pages
          PROVE  FilesInv'
      <3>1. FewerViews
        BY <1>1, <1>3, <2>6, FewerByMove DEF FilesMove, SameCalls, Reserve
      <3>2. live' \cap (loading'.images \cup loading'.heap) = {}
        BY <2>3, <2>6 DEF Took
      <3> QED BY <1>1, <1>3, <2>1, <2>2, <2>4, <2>6, <3>1, <3>2, LoadFiles
    <2> QED BY <1>1, <2>5, <2>6
  <1> QED BY <1>1, <1>2, <1>3 DEF Preserves

LEMMA AdoptImageStep ==
    ASSUME BooksInv, NEW t \in Threads, AdoptImage(t)
    PROVE  Preserves
  <1>1. /\ BooksInv' /\ Turn(t) /\ Quiet /\ open' = open /\ SameBytes /\ SameViews /\ segments' = segments /\ faulted' = faulted
        /\ call[t].at = "adopt" /\ program' = loading /\ loading' = program
        /\ call[t].from \in Nat
        /\ heap'.base = call[t].from /\ heap'.break = call[t].from /\ heap'.limit = call[t].from + HeapPages
        /\ held' = [p \in Page |-> IF p \in loading.images THEN "file"
                                   ELSE IF p \in loading.stack THEN "stack" ELSE "none"]
        /\ call'[t].at = "previous" /\ call'[t].pages = {} /\ call'[t].kind = "none" /\ call'[t].stale = {}
    <2> DEFINE f == call[t].from
               c == [Idle EXCEPT !.at = "previous"]
    <2>1. /\ call[t].at = "adopt" /\ program' = loading /\ loading' = program /\ GoOn(t, c)
          /\ heap' = [base |-> f, break |-> f, limit |-> f + HeapPages]
          /\ held' = [p \in Page |-> IF p \in loading.images THEN "file"
                                     ELSE IF p \in loading.stack THEN "stack" ELSE "none"]
          /\ free' = free /\ epoch' = epoch /\ nextEpoch' = nextEpoch /\ open' = open
          /\ bytes' = bytes /\ segments' = segments /\ live' = live /\ slots' = slots /\ faulted' = faulted
      BY DEF AdoptImage, At, arena, books
    <2>2. Typed /\ Committed' = Committed /\ f \in Nat /\ SizedCall(call[t])
      BY <2>1 DEF BooksInv, Committed, Typed, CallType
    <2>3. f + HeapPages \in Ends
      <3>1. f + HeapPages <= NPages
        BY <2>1, <2>2 DEF SizedCall
      <3> QED BY <2>2, <3>1, PageFacts, SMT DEF Ends
    <2>4. heap' \in HeapType /\ heap'.base = f /\ heap'.break = f /\ heap'.limit = f + HeapPages
      BY <2>1, <2>2, <2>3 DEF HeapType
    <2>5. c \in CallType /\ c.at = "previous" /\ c.pages = {} /\ c.kind = "none" /\ c.stale = {}
      BY IdleFacts DEF CallType, ExecStages
    <2> HIDE DEF c, f
    <2>6. call'[t] = c /\ Turn(t)
      BY <2>1, <2>2, <2>5, GoOnEffect DEF Turn, Typed
    <2>7. held' \in [Page -> Kinds]
      BY <2>1, <2>2 DEF Typed, Kinds
    <2>8. BooksInv'
      BY <2>1, <2>2, <2>4, <2>5, <2>6, <2>7, BooksOfQuietStep DEF Typed, SizedCall
    <2> QED BY <2>1, <2>2, <2>4, <2>5, <2>6, <2>8 DEF Quiet, SameBytes, SameViews, f
  <1>2. ASSUME OwnInv, Careful PROVE OwnInv'
    <2> USE <1>2
    <2>0. call[t].at \in ExecStages /\ call[t].at \in Before /\ BooksInv /\ LandsInv
      BY <1>1 DEF ExecStages, Before, OwnInv
    <2>1. LoadInv(call[t]) /\ Loaded \subseteq Page /\ \A u \in Threads : u # t => call[u] = Idle
      BY <2>0, ExecFacts
    <2>2. /\ Loaded \subseteq Usable /\ Loaded \cap Lands = {} /\ Reserve = program.heap
          /\ loading.images \cap loading.stack = {} /\ (loading.images \cup loading.stack) \cap loading.heap = {}
          /\ loading.heap = Span(call[t].from, HeapPages)
      BY <1>1, <2>1 DEF LoadInv
    <2>3. Reserve' = loading.heap
      <3>1. Reserve' = call[t].from..((call[t].from + HeapPages) - 1)
        BY <1>1 DEF Reserve
      <3>2. call[t].from \in Nat /\ HeapPages \in Nat
        BY <1>1, PageFacts
      <3>3. Span(call[t].from, HeapPages) = call[t].from..((call[t].from + HeapPages) - 1)
        BY <3>2, SMT DEF Span
      <3> QED BY <2>2, <3>1, <3>3
    <2>4. KeptPages' = KeptPages
      BY <1>1 DEF KeptPages, IsKept
    <2>5. Lands' = loading.heap \cup KeptPages \cup loading.stack
      BY <1>1, <2>3, <2>4 DEF Lands
    <2>6. /\ Reserve \cup program.stack \subseteq Lands /\ (Reserve \cup program.stack) \cap KeptPages = {}
          /\ KeptPages \subseteq Lands /\ KeptPages \cap Placed = {} /\ Lands \subseteq Usable
          /\ \A i, j \in DOMAIN segments : i # j => segments[i].pages \cap segments[j].pages = {}
          /\ \A i \in DOMAIN segments : segments[i].pages \subseteq KeptPages
          /\ Lands \subseteq Page
      BY <2>0, LandPages DEF LandsInv, Lands
    <2>7. Usable' = Usable
      BY <1>1 DEF Usable, Quiet
    <2>8. /\ \A p \in Page : p \in loading.images => held'[p] = "file"
          /\ \A p \in Page : p \in loading.stack => held'[p] = "stack"
          /\ \A p \in Page : p \notin loading.images /\ p \notin loading.stack => held'[p] = "none"
      BY <1>1, <2>2
    <2>9. \A p \in Lands \cup loading.heap : held'[p] = "none"
      BY <2>1, <2>2, <2>6, <2>8 DEF Loaded
    <2>10. HeldIsUsable'
      BY <2>2, <2>7, <2>8 DEF HeldIsUsable, Usable, Loaded
    <2>11. Lands' \subseteq Usable'
      BY <2>2, <2>5, <2>6, <2>7 DEF Loaded
    <2>12. \A p \in Page : held'[p] \in {"file", "stack", "none"} /\ (p \in loading.stack <=> held'[p] = "stack")
      BY <2>2, <2>8
    <2>13. loading.heap \cap (KeptPages \cup loading.stack) = {} /\ loading.stack \cap KeptPages = {}
      BY <2>2, <2>6 DEF Loaded
    <2>14. heap'.base <= heap'.break /\ heap'.break <= heap'.limit /\ heap'.limit <= heap'.base + HeapPages
      BY <1>1, PageFacts, SMT
    <2>15. LandsInv'
      BY <1>1, <2>3, <2>4, <2>6, <2>9, <2>10, <2>11, <2>12, <2>13, <2>14 DEF LandsInv
    <2>16. LoadingCall(call'[t])
      BY <1>1 DEF LoadingCall, ExecStages
    <2>17. CallsInv'
      BY <1>1, <2>1, <2>16, ExecCalls
    <2>18. \A u \in Threads : u # t => call'[u] = Idle
      BY <1>1, <2>1 DEF Turn
    <2>19. \A u \in Threads : call'[u].at \in ExecStages => u = t
      BY <2>18, IdleFacts DEF ExecStages
    <2>20. ProgramData' = program.stack \cup Reserve
      BY <1>1, <2>2 DEF ProgramData
    <2>21. ProgramData' \cap Lands' = {} /\ \A p \in ProgramData' : held'[p] = "none"
      BY <2>2, <2>5, <2>6, <2>9, <2>20 DEF Loaded
    <2>22. program'.heap = Span(heap'.base, HeapPages) /\ ~NobodyExecs'
      BY <1>1, <2>2 DEF NobodyExecs, Execing
    <2>23. \A u \in Threads : call'[u].at \notin Before
      BY <1>1, <2>19 DEF Before, ExecStages
    <2>24. ASSUME NEW u \in Threads, Execing(u)'
           PROVE  /\ call'[u].pages = {} /\ call'[u].kind = "none" /\ call'[u].stale = {}
                  /\ \A v \in Threads : v # u => call'[v] = Idle
      <3>1. u = t
        BY <2>19, <2>24 DEF Execing, ExecStages
      <3> QED BY <1>1, <2>18, <3>1
    <2>25. ExecsInv'
      BY <2>21, <2>22, <2>23, <2>24 DEF ExecsInv
    <2> QED BY <1>1, <2>15, <2>17, <2>25 DEF OwnInv
  <1>3. ASSUME OwnInv, FilesInv, SlotsSuffice PROVE FilesInv'
    <2>1. \A u \in Threads : u # t => call[u] = Idle
      BY <1>1, <1>3, ExecFacts DEF ExecStages
    <2>2. call[t].pages = {}
      BY <1>1, <1>3, ExecFacts DEF ExecStages
    <2>3. live \cap (loading.images \cup loading.heap) = {}
      BY <1>1, <1>3 DEF FilesInv, Before
    <2>4. Reserve' = loading.heap
      <3>1. Reserve' = call[t].from..((call[t].from + HeapPages) - 1)
        BY <1>1 DEF Reserve
      <3>2. Span(call[t].from, HeapPages) = call[t].from..((call[t].from + HeapPages) - 1)
        BY <1>1, PageFacts, SMT DEF Span
      <3>3. loading.heap = Span(call[t].from, HeapPages)
        BY <1>1, <1>3, ExecFacts DEF ExecStages, Before, LoadInv
      <3> QED BY <3>1, <3>2, <3>3
    <2>5. FewerViews
      BY <1>1, <1>3, <2>3, <2>4 DEF FewerViews, FilesInv, Viewed, Quiet, SameViews
    <2>6. ~faulted' /\ call'[t].at \notin Before
      BY <1>1, <1>3 DEF FilesInv, CallsNeverFault, Before
    <2> QED BY <1>1, <1>3, <2>1, <2>5, <2>6, LoadFiles
  <1> QED BY <1>1, <1>2, <1>3 DEF Preserves

LEMMA ReleasePreviousStep ==
    ASSUME BooksInv, NEW t \in Threads, ReleasePrevious(t)
    PROVE  Preserves
  <1>1. /\ BooksInv' /\ Turn(t) /\ Gave(ProgramData) /\ SameCalls /\ program' = program /\ faulted' = faulted
        /\ call[t].at = "previous" /\ call'[t] = Idle /\ loading' = NoProgram
    <2> DEFINE S == ProgramData
    <2>1. /\ call[t].at = "previous" /\ Release(S, "ok") /\ Fresh(Vacated(S)) /\ Back(t) /\ loading' = NoProgram
          /\ SameCalls /\ program' = program /\ faulted' = faulted
      BY DEF ReleasePrevious, At, SameCalls
    <2>2. Typed /\ Booked /\ S \subseteq Page
      BY DEF BooksInv, Typed, ProgramType, ProgramData
    <2> HIDE DEF S
    <2>3. call'[t] = Idle /\ Turn(t)
      BY <2>1, <2>2, IdleFacts, GoOnEffect DEF Turn, Typed, Back
    <2>4. Booked' /\ Gave(S) /\ nextEpoch' = nextEpoch
      BY <2>1, <2>2, BookedRelease DEF Typed
    <2>5. free' \subseteq Page /\ bytes' \in [Page -> {"zero", "data"}]
      BY <2>2, <2>4, VacatedFacts DEF Gave, Typed
    <2>6. Typed'
      BY <2>1, <2>2, <2>3, <2>4, <2>5, NoProgramFacts DEF Typed, Turn, SameCalls
    <2>7. \A u \in Threads : SizedCall(call[u])'
      BY <2>3, IdleFacts DEF BooksInv, Turn, SizedCall
    <2> QED BY <2>1, <2>3, <2>4, <2>6, <2>7 DEF BooksInv, S
  <1>2. ASSUME OwnInv, Careful PROVE OwnInv'
    <2> USE <1>2
    <2> DEFINE S == ProgramData
    <2>1. \A u \in Threads : u # t => call[u] = Idle
      BY <1>1, ExecFacts DEF ExecStages
    <2>2. S \cap Lands = {} /\ \A p \in S : held[p] = "none"
      BY <1>1 DEF OwnInv, ExecsInv
    <2>3. Gave(S)
      BY <1>1
    <2> HIDE DEF S
    <2>4. S \subseteq Page /\ Committed' = Committed \ S /\ open' = open \ Vacated(S)
      BY <2>3 DEF Gave
    <2>5. Vacated(S) \cap Committed \subseteq S
      BY <2>4, VacatedFacts
    <2>6. Loses(S)
      BY <2>2, <2>4, <2>5 DEF Loses, Usable
    <2>7. LoadingCall(call'[t]) /\ call'[t].at # "previous" /\ call'[t].at \notin Before /\ loading' = NoProgram
      BY <1>1, IdleFacts DEF LoadingCall, Before
    <2> QED BY <1>1, <2>1, <2>6, <2>7, LoadStep
  <1>3. ASSUME OwnInv, FilesInv, SlotsSuffice PROVE FilesInv'
    <2>1. \A u \in Threads : u # t => call[u] = Idle
      BY <1>1, <1>3, ExecFacts DEF ExecStages
    <2>2. FewerViews /\ ~faulted'
      BY <1>1, <1>3, FewerByMove DEF FilesMove, SameCalls, Reserve, FilesInv, CallsNeverFault
    <2>3. call'[t].at = "idle" /\ call'[t].pages = {}
      BY <1>1, IdleFacts
    <2> QED BY <1>1, <1>3, <2>1, <2>2, <2>3, LoadFiles DEF Before
  <1> QED BY <1>1, <1>2, <1>3 DEF Preserves
=============================================================================
