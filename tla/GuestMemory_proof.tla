------------------------- MODULE GuestMemory_proof --------------------------
(***************************************************************************)
(* What is proved about guest memory: the arena for every number of pages, *)
(* host page size and set of spans; and the memory calls and execve over   *)
(* it for every number of threads, heap and requests.                      *)
(***************************************************************************)
EXTENDS MemoryCalls_proof, FiniteSetTheorems

USE ZenonT(30)

-----------------------------------------------------------------------------
(***************************************************************************)
(* The inductive invariant.  FreeIsUncommitted is not inductive alone: a   *)
(* release returns whole host pages, and a placement takes them, so the    *)
(* free list has to be made of whole host pages as well.  RestoreOnlyIntact *)
(* needs epochs that lie behind nextEpoch, and a broken copy to have a     *)
(* page whose epoch is not the copy's -- which it can never get back.      *)
(***************************************************************************)
EpochsPast == \A p \in Page : epoch[p] < nextEpoch

CopyKnowsItsEpoch ==
    /\ copy.epoch < nextEpoch
    /\ copy.pages # {} => copy.epoch # 0
    /\ copy.intact \/ \E p \in copy.pages : epoch[p] # copy.epoch

IInv ==
    /\ TypeOK
    /\ FreeIsUncommitted
    /\ WholePages(free)
    /\ EpochsPast
    /\ CopyKnowsItsEpoch

\* However the epochs of some pages T change -- to none, or to new ones -- a
\* copy that loses a page to T can be told from an intact one.
LEMMA CopySurvives ==
    ASSUME IInv, NEW T,
           nextEpoch' \in Nat, nextEpoch <= nextEpoch', epoch' \in [Page -> Nat],
           \A p \in T : epoch'[p] = 0 \/ nextEpoch <= epoch'[p],
           \A p \in Page \ T : epoch'[p] = epoch[p],
           copy' = [copy EXCEPT !.intact = @ /\ copy.pages \cap T = {}]
    PROVE  CopyKnowsItsEpoch' /\ copy' \in [pages : SUBSET Page, epoch : Nat, intact : BOOLEAN]
  <1>1. copy \in [pages : SUBSET Page, epoch : Nat, intact : BOOLEAN] /\ nextEpoch \in Nat
    BY DEF IInv, TypeOK
  <1>2. /\ copy'.pages = copy.pages
        /\ copy'.epoch = copy.epoch
        /\ copy'.intact <=> (copy.intact /\ copy.pages \cap T = {})
        /\ copy' \in [pages : SUBSET Page, epoch : Nat, intact : BOOLEAN]
    BY <1>1
  <1>3. CopyKnowsItsEpoch
    BY DEF IInv
  <1>4. copy'.epoch < nextEpoch' /\ (copy'.pages # {} => copy'.epoch # 0)
    BY <1>1, <1>2, <1>3, SMT DEF CopyKnowsItsEpoch
  <1>5. ASSUME NEW p \in copy.pages, p \in T \/ epoch[p] # copy.epoch
        PROVE  epoch'[p] # copy.epoch
    <2>1. p \in Page /\ copy.epoch # 0 /\ copy.epoch < nextEpoch
      BY <1>1, <1>3 DEF CopyKnowsItsEpoch
    <2>2. CASE p \in T
      BY <2>1, <2>2, <1>1, SMT
    <2>3. CASE p \notin T
      BY <2>1, <2>3, <1>5
    <2> QED BY <2>2, <2>3
  <1>6. copy'.intact \/ \E p \in copy'.pages : epoch'[p] # copy'.epoch
    BY <1>1, <1>2, <1>3, <1>5 DEF CopyKnowsItsEpoch
  <1> QED BY <1>2, <1>4, <1>6 DEF CopyKnowsItsEpoch

LEMMA InitIInv == Init => IInv
  <1> SUFFICES ASSUME Init PROVE IInv
    OBVIOUS
  <1>1. TypeOK
    BY ArenaAssumption, SMT DEF Init, TypeOK, NoCopy, Page, ArenaAssumption
  <1>2. FreeIsUncommitted /\ EpochsPast
    BY SMT DEF Init, FreeIsUncommitted, EpochsPast, Committed
  <1>3. CopyKnowsItsEpoch
    BY SMT DEF Init, NoCopy, CopyKnowsItsEpoch
  <1>4. WholePages(free)
    <2>1. K \in Nat /\ K > 0 /\ NPages \in Nat /\ LowPages \in Nat /\ LowPages = K * (LowPages \div K)
      BY ArenaAssumption, SMT DEF ArenaAssumption
    <2>2. PICK c \in Nat : LowPages = K * c
      <3>1. LowPages \div K \in Nat
        BY <2>1, DivBounds
      <3> QED BY <3>1, <2>1
    <2> SUFFICES ASSUME NEW p \in Page \ Low, NEW q \in HostPage[p] PROVE q \in Page \ Low
      BY DEF WholePages, Init
    <2>3. p \in Nat /\ q \in Nat /\ q \in Page /\ p \in Page /\ q \div K = p \div K
      BY <2>1, SMT DEF HostPage, Page
    <2>4. K * c <= p
      BY <2>1, <2>2, <2>3, SMT DEF Low
    <2>5. c <= q \div K
      BY <2>3, <2>4, DivMonotone
    <2>6. K * c <= q
      BY <2>3, <2>5, DivMonotone
    <2> QED BY <2>1, <2>2, <2>3, <2>6, SMT DEF Low
  <1> QED BY <1>1, <1>2, <1>3, <1>4 DEF IInv

\* Committing free host pages, or being refused, keeps the invariant.
LEMMA CommitFreeKeeps ==
    ASSUME IInv, NEW S, S \subseteq free, WholePages(S), NEW pr \in SUBSET {"R", "W", "X"},
           NEW ok, CommitFree(S, pr, ok), filling' = filling
    PROVE  IInv'
  <1>1. TypeOK /\ FreeIsUncommitted /\ WholePages(free) /\ EpochsPast /\ CopyKnowsItsEpoch
    BY DEF IInv
  <1>2. bytes' \in [Page -> {"zero", "data"}] /\ filling' \in BOOLEAN
    BY <1>1 DEF CommitFree, Zeroed, TypeOK
  <1>3. CASE ok = "mprotect"
    <2>1. UNCHANGED <<free, epoch, prot, written, nextEpoch, copy>> /\ open' = open \ S
      BY <1>3 DEF CommitFree, books
    <2>2. TypeOK'
      BY <1>1, <1>2, <2>1 DEF TypeOK
    <2> QED BY <1>1, <2>1, <2>2 DEF IInv, FreeIsUncommitted, Committed, WholePages, EpochsPast, CopyKnowsItsEpoch
  <1>4. CASE ok # "mprotect"
    <2>1. /\ free' = free \ S
          /\ open' = open \cup S
          /\ epoch' = [p \in Page |-> IF p \in S THEN nextEpoch ELSE epoch[p]]
          /\ prot' = [p \in Page |-> IF p \in S THEN pr ELSE prot[p]]
          /\ written' = IF "W" \in pr THEN written \cup S ELSE written \ S
          /\ nextEpoch' = nextEpoch + 1
          /\ copy' = [copy EXCEPT !.intact = @ /\ copy.pages \cap S = {}]
      BY <1>4 DEF CommitFree, RecordCommitted, Page
    <2>2. S \subseteq Page
      BY <1>1 DEF TypeOK
    <2>3. /\ epoch' \in [Page -> Nat] /\ nextEpoch' \in Nat \ {0} /\ nextEpoch <= nextEpoch'
          /\ \A p \in S : epoch'[p] = nextEpoch
          /\ \A p \in Page \ S : epoch'[p] = epoch[p]
      BY <1>1, <2>1, <2>2, SMT DEF TypeOK
    <2>4. CopyKnowsItsEpoch' /\ copy' \in [pages : SUBSET Page, epoch : Nat, intact : BOOLEAN]
      <3>1. /\ nextEpoch' \in Nat
            /\ \A p \in S : epoch'[p] = 0 \/ nextEpoch <= epoch'[p]
        BY <2>3, <1>1, SMT DEF TypeOK
      <3> QED BY <2>1, <2>3, <3>1, CopySurvives
    <2>5. TypeOK'
      BY <1>1, <1>2, <2>1, <2>2, <2>3, <2>4 DEF TypeOK
    <2>6. EpochsPast'
      BY <1>1, <2>1, <2>3, SMT DEF EpochsPast, TypeOK
    <2>7. FreeIsUncommitted'
      BY <1>1, <2>1, <2>3 DEF FreeIsUncommitted, Committed, TypeOK
    <2>8. WholePages(free')
      BY <1>1, <2>1, HostPageFacts DEF WholePages, TypeOK
    <2> QED BY <2>4, <2>5, <2>6, <2>7, <2>8 DEF IInv, WholePages
  <1> QED BY <1>3, <1>4

\* The epochs a fixed commit gives to the gaps it fills are new ones.
LEMMA GapEpochsAreNew ==
    ASSUME NEW S, S \subseteq Page, NEW refused, nextEpoch \in Nat,
           NEW s \in GapStarts(S) \ refused, NEW p \in Page, s <= p
    PROVE  /\ GapEpoch(S, refused, p) \in Nat
           /\ nextEpoch <= GapEpoch(S, refused, p)
           /\ GapEpoch(S, refused, p) < nextEpoch + Cardinality(GapStarts(S) \ refused)
           /\ Cardinality(GapStarts(S) \ refused) \in Nat
  <1> DEFINE G == GapStarts(S) \ refused
             A == {t \in G : t <= p}
  <1>1. IsFiniteSet(Page)
    BY ArenaAssumption, FS_Interval, SMT DEF Page, ArenaAssumption
  <1>2. G \subseteq Page
    BY DEF GapStarts
  <1>3. IsFiniteSet(G) /\ A \subseteq G
    BY <1>1, <1>2, FS_Subset
  <1>4. Cardinality(G) \in Nat /\ Cardinality(A) \in Nat /\ Cardinality(A) <= Cardinality(G)
    BY <1>3, FS_Subset, FS_CardinalityType
  <1>5. A # {}
    OBVIOUS
  <1>6. Cardinality(A) # 0
    BY <1>3, <1>5, FS_Subset, FS_EmptySet
  <1>7. GapEpoch(S, refused, p) = nextEpoch + Cardinality(A) - 1
    BY DEF GapEpoch
  <1> HIDE DEF A, G
  <1>8. /\ nextEpoch + Cardinality(A) - 1 \in Nat
        /\ nextEpoch <= nextEpoch + Cardinality(A) - 1
        /\ nextEpoch + Cardinality(A) - 1 < nextEpoch + Cardinality(G)
    BY <1>4, <1>6, SMT
  <1> QED BY <1>4, <1>7, <1>8 DEF G

\* Whether or not all of them are granted, filling the gaps of a span of host
\* pages keeps the invariant.
LEMMA CommitPartlyKeeps ==
    ASSUME IInv, NEW S, S \subseteq Page, WholePages(S), NEW pr \in SUBSET {"R", "W", "X"},
           NEW refused, NEW ok, CommitPartly(S, pr, refused, ok), filling' = filling
    PROVE  IInv'
  <1> DEFINE gaps == S \ Committed
             taken == {p \in gaps : \E s \in GapStarts(S) \ refused : InGap(s, p)}
             count == Cardinality(GapStarts(S) \ refused)
             touched == (S \cap Committed) \cup taken
  <1>1. TypeOK /\ FreeIsUncommitted /\ WholePages(free) /\ EpochsPast /\ CopyKnowsItsEpoch
    BY DEF IInv
  <1>2. /\ free' = free \ gaps
        /\ epoch' = [p \in Page |-> IF p \in taken THEN GapEpoch(S, refused, p) ELSE epoch[p]]
        /\ prot' = [p \in Page |-> IF p \in touched THEN pr ELSE prot[p]]
        /\ written' = IF "W" \in pr THEN written \cup touched ELSE written
        /\ nextEpoch' = nextEpoch + count
        /\ copy' = [copy EXCEPT !.intact = @ /\ copy.pages \cap taken = {}]
    BY DEF CommitPartly
  <1>3. bytes' \in [Page -> {"zero", "data"}] /\ filling' \in BOOLEAN
    BY <1>1 DEF CommitPartly, Zeroed, TypeOK
  <1>4. open' \subseteq Page
    <2>1. Outward(taken) \subseteq Page
      BY OutwardFacts
    <2>2. open' \subseteq open \cup Outward(taken) \cup S
      BY DEF CommitPartly
    <2> QED BY <1>1, <2>1, <2>2 DEF TypeOK
  <1>5. count \in Nat
    <2>1. IsFiniteSet(Page)
      BY ArenaAssumption, FS_Interval, SMT DEF Page, ArenaAssumption
    <2>2. GapStarts(S) \ refused \subseteq Page
      BY DEF GapStarts
    <2> QED BY <2>1, <2>2, FS_Subset, FS_CardinalityType
  <1>6. ASSUME NEW p \in taken
        PROVE  /\ GapEpoch(S, refused, p) \in Nat
               /\ nextEpoch <= GapEpoch(S, refused, p)
               /\ GapEpoch(S, refused, p) < nextEpoch + count
    <2>1. PICK s \in GapStarts(S) \ refused : s <= p
      BY DEF InGap
    <2> QED BY <2>1, <1>1, GapEpochsAreNew DEF TypeOK
  <1> HIDE DEF count
  <1>7. taken \subseteq gaps /\ touched \subseteq Page /\ gaps \subseteq Page
    OBVIOUS
  <1> HIDE DEF taken
  <1>8. /\ nextEpoch' \in Nat /\ nextEpoch' \in Nat \ {0} /\ nextEpoch <= nextEpoch'
        /\ epoch' \in [Page -> Nat]
        /\ \A p \in taken : epoch'[p] = 0 \/ nextEpoch <= epoch'[p]
        /\ \A p \in Page \ taken : epoch'[p] = epoch[p]
    BY <1>1, <1>2, <1>5, <1>6, <1>7, SMT DEF TypeOK
  <1>9. CopyKnowsItsEpoch' /\ copy' \in [pages : SUBSET Page, epoch : Nat, intact : BOOLEAN]
    BY <1>2, <1>8, CopySurvives
  <1>10. TypeOK'
    BY <1>1, <1>2, <1>3, <1>4, <1>7, <1>8, <1>9 DEF TypeOK
  <1>11. EpochsPast'
    BY <1>1, <1>2, <1>5, <1>6, <1>7, <1>8, SMT DEF EpochsPast, TypeOK
  <1>12. FreeIsUncommitted'
    BY <1>1, <1>2, <1>7, <1>8 DEF FreeIsUncommitted, Committed, TypeOK
  <1>13. WholePages(free')
    <2> SUFFICES ASSUME NEW p \in free \ gaps, NEW q \in HostPage[p]
                 PROVE  q \in free \ gaps
      BY <1>2 DEF WholePages
    <2>1. p \in Page /\ q \in free /\ p \in HostPage[q]
      BY <1>1, HostPageFacts DEF WholePages, TypeOK
    <2>2. q \notin gaps
      BY <2>1, <1>1 DEF WholePages, FreeIsUncommitted
    <2> QED BY <2>1, <2>2
  <1> QED BY <1>9, <1>10, <1>11, <1>12, <1>13 DEF IInv, WholePages

\* A release keeps the invariant: what goes back is host pages nothing is
\* committed in any more.
LEMMA ReleaseKeeps ==
    ASSUME IInv, NEW S, S \subseteq Page, NEW ok, Release(S, ok), filling' = filling
    PROVE  IInv'
  <1>1. TypeOK /\ FreeIsUncommitted /\ WholePages(free) /\ EpochsPast /\ CopyKnowsItsEpoch
    BY DEF IInv
  <1>2. /\ epoch' = [p \in Page |-> IF p \in S THEN 0 ELSE epoch[p]]
        /\ prot' = [p \in Page |-> IF p \in S THEN {} ELSE prot[p]]
        /\ written' = written \ S
        /\ free' = free \cup Vacated(S)
        /\ nextEpoch' = nextEpoch
        /\ copy' = [copy EXCEPT !.intact = @ /\ copy.pages \cap (S \cap Committed) = {}]
    BY DEF Release
  <1>3. Vacated(S) \subseteq Page /\ WholePages(Vacated(S))
    BY OutwardFacts, HostPageFacts DEF Vacated, WholePages
  <1>4. bytes' \in [Page -> {"zero", "data"}] /\ filling' \in BOOLEAN /\ open' \subseteq Page
    BY <1>1 DEF Release, Zeroed, Closed, TypeOK
  <1>5. /\ nextEpoch' \in Nat /\ nextEpoch <= nextEpoch'
        /\ epoch' \in [Page -> Nat]
        /\ \A p \in S \cap Committed : epoch'[p] = 0 \/ nextEpoch <= epoch'[p]
        /\ \A p \in Page \ (S \cap Committed) : epoch'[p] = epoch[p]
    BY <1>1, <1>2, SMT DEF TypeOK, Committed
  <1>6. CopyKnowsItsEpoch' /\ copy' \in [pages : SUBSET Page, epoch : Nat, intact : BOOLEAN]
    BY <1>2, <1>5, CopySurvives
  <1>7. TypeOK'
    BY <1>1, <1>2, <1>3, <1>4, <1>5, <1>6 DEF TypeOK
  <1>8. EpochsPast'
    BY <1>1, <1>2, SMT DEF EpochsPast, TypeOK
  <1>9. FreeIsUncommitted'
    <2>1. Committed' = Committed \ S
      BY <1>2 DEF Committed
    <2>2. \A p \in Vacated(S) : p \in Committed => p \in S
      BY <1>3, HostPageFacts DEF Vacated
    <2> QED BY <1>1, <1>2, <2>1, <2>2 DEF FreeIsUncommitted
  <1>10. WholePages(free')
    BY <1>1, <1>2, <1>3 DEF WholePages
  <1> QED BY <1>6, <1>7, <1>8, <1>9, <1>10 DEF IInv, WholePages

\* Adopting a remapped copy keeps the invariant.
LEMMA AdoptKeeps ==
    ASSUME IInv, NEW S, S \subseteq Page, WholePages(S), NEW pr \in SUBSET {"R", "W", "X"}, NEW w \in BOOLEAN,
           AdoptCopiedMapping(S, pr, w)
    PROVE  IInv'
  <1>1. TypeOK /\ FreeIsUncommitted /\ WholePages(free) /\ EpochsPast /\ CopyKnowsItsEpoch
    BY DEF IInv
  <1>2. /\ S \subseteq free /\ free' = free \ S
        /\ epoch' = [p \in Page |-> IF p \in S THEN nextEpoch ELSE epoch[p]]
        /\ prot' = [p \in Page |-> IF p \in S THEN pr ELSE prot[p]]
        /\ written' \subseteq written \cup S
        /\ nextEpoch' = nextEpoch + 1
        /\ bytes' = [p \in Page |-> IF p \in S THEN "data" ELSE bytes[p]]
        /\ open' = open \cup S
        /\ copy' = copy /\ filling' = filling
    BY DEF AdoptCopiedMapping
  <1>3. \A p \in S : epoch[p] = 0
    BY <1>1, <1>2 DEF FreeIsUncommitted, Committed
  <1>4. TypeOK'
    BY <1>1, <1>2, SMT DEF TypeOK
  <1>5. EpochsPast'
    BY <1>1, <1>2, SMT DEF EpochsPast, TypeOK
  <1>6. FreeIsUncommitted'
    BY <1>1, <1>2 DEF FreeIsUncommitted, Committed, TypeOK
  <1>7. WholePages(free')
    BY <1>1, <1>2, HostPageFacts DEF WholePages, TypeOK
  <1>8. CopyKnowsItsEpoch'
    <2>1. \A p \in copy.pages : epoch[p] # copy.epoch => epoch'[p] # copy.epoch
      BY <1>1, <1>2, SMT DEF CopyKnowsItsEpoch, TypeOK
    <2> QED BY <1>1, <1>2, <2>1, SMT DEF CopyKnowsItsEpoch, TypeOK
  <1> QED BY <1>4, <1>5, <1>6, <1>7, <1>8 DEF IInv, WholePages

\* Every step of the arena keeps the invariant.
LEMMA NextIInv == IInv /\ [Next]_vars => IInv'
  <1> SUFFICES ASSUME IInv, [Next]_vars PROVE IInv'
    OBVIOUS
  <1>1. TypeOK /\ FreeIsUncommitted /\ WholePages(free) /\ EpochsPast /\ CopyKnowsItsEpoch
    BY DEF IInv
  <1>2. /\ \A pr \in Prots : pr \in SUBSET {"R", "W", "X"}
        /\ \A pr \in CommitProts : pr \in SUBSET {"R", "W", "X"}
    <2>1. Prots \subseteq SUBSET {"R", "W", "X"}
      BY ArenaAssumption DEF ArenaAssumption
    <2>2. \A pr \in Prots : pr \in SUBSET {"R", "W", "X"}
      BY <2>1
    <2>3. ASSUME NEW c \in CommitProts PROVE c \in SUBSET {"R", "W", "X"}
      <3>1. PICK pr \in Prots : c = pr \cup {"W"}
        BY <2>3 DEF CommitProts
      <3>2. pr \subseteq {"R", "W", "X"}
        BY <2>1
      <3>3. c \subseteq {"R", "W", "X"}
        BY <3>1, <3>2
      <3> QED BY <3>3
    <2> QED BY <2>2, <2>3
  <1>3. /\ \A S \in Spans : S \subseteq Page
        /\ \A S \in HostSpans : S \subseteq Page /\ WholePages(S)
    <2>1. \A S \in Spans : S \subseteq Page
      BY ArenaAssumption, SMT DEF Spans, Page, ArenaAssumption
    <2> QED BY <2>1, OutwardFacts DEF HostSpans
  <1>4. CASE Adopts
    BY <1>2, <1>3, <1>4, AdoptKeeps DEF Adopts
  <1>5. CASE Running /\ Allocates
    <2>1. PICK n \in Sizes, hint \in {NoHint} \cup Hints, pr \in CommitProts, ok \in Outcomes :
             Allocate(n, hint, pr, ok)
      BY <1>5 DEF Allocates
    <2>2. PICK s \in Placement(AlignUp(n), hint) : CommitFree(s..(s + AlignUp(n) - 1), pr, ok)
      BY <2>1 DEF Allocate
    <2>3. n \in Nat \ {0} /\ hint \in {NoHint} \cup Nat
      <3>1. Sizes \subseteq 1..NPages /\ Hints \subseteq Page /\ NPages \in Nat
        BY ArenaAssumption DEF ArenaAssumption, Page
      <3>2. n \in 1..NPages
        BY <3>1
      <3>3. Page \subseteq Nat
        BY <3>1, SMT DEF Page
      <3>4. n \in Nat \ {0}
        BY <3>1, <3>2, SMT
      <3> QED BY <3>1, <3>3, <3>4
    <2>4. s..(s + AlignUp(n) - 1) \subseteq free /\ WholePages(s..(s + AlignUp(n) - 1))
      BY <1>1, <2>2, <2>3, PlacementIsWhole DEF TypeOK
    <2> QED BY <1>2, <1>5, <2>2, <2>4, CommitFreeKeeps DEF Running
  <1>6. CASE Running /\ CommitsFixed
    <2>1. PICK S \in HostSpans, pr \in CommitProts, ok \in Outcomes : CommitFixed(S, pr, ok)
      BY <1>6 DEF CommitsFixed
    <2>2. Outward(S) \subseteq Page /\ WholePages(Outward(S))
      BY <1>3, OutwardFacts
    <2>3. CASE Outward(S) \subseteq free
      BY <1>2, <1>6, <2>1, <2>2, <2>3, CommitFreeKeeps DEF CommitFixed, Running
    <2>4. CASE ~ (Outward(S) \subseteq free)
      <3>1. PICK refused : CommitPartly(Outward(S), pr, refused, ok)
        BY <2>1, <2>4 DEF CommitFixed
      <3> QED BY <1>2, <1>6, <2>2, <3>1, CommitPartlyKeeps DEF Running
    <2> QED BY <2>3, <2>4
  <1>7. CASE Running /\ Releases
    BY <1>3, <1>7, ReleaseKeeps DEF Releases, Running
  <1>8. CASE Running /\ Protects
    <2>1. PICK S \in Spans, pr \in Prots : Protect(S, pr)
      BY <1>8 DEF Protects
    <2>2. Outward(S) \subseteq Page
      BY <1>3, OutwardFacts
    <2>3. /\ prot' \in [Page -> SUBSET {"R", "W", "X"}]
          /\ written' \subseteq Page /\ open' \subseteq Page
          /\ UNCHANGED <<free, epoch, nextEpoch, bytes, copy, filling>>
      BY <1>1, <1>2, <1>8, <2>1, <2>2 DEF Protect, ProtectedAs, TypeOK, Running
    <2>4. TypeOK'
      BY <1>1, <2>3 DEF TypeOK
    <2> QED BY <1>1, <2>3, <2>4 DEF IInv, FreeIsUncommitted, Committed, WholePages, EpochsPast, CopyKnowsItsEpoch
  <1>9. CASE Running /\ Drops
    <2>1. PICK S \in Spans, ok \in Outcomes : DropPages(S, ok)
      BY <1>9 DEF Drops
    <2>2. /\ bytes' \in [Page -> {"zero", "data"}] /\ open' \subseteq Page
          /\ UNCHANGED <<free, epoch, prot, written, nextEpoch, copy, filling>>
      BY <1>1, <1>3, <1>9, <2>1 DEF DropPages, Zeroed, Inward, TypeOK, Running, books
    <2>3. TypeOK'
      BY <1>1, <2>2 DEF TypeOK
    <2> QED BY <1>1, <2>2, <2>3 DEF IInv, FreeIsUncommitted, Committed, WholePages, EpochsPast, CopyKnowsItsEpoch
  <1>10. CASE Running /\ Stores
    <2>1. /\ bytes' \in [Page -> {"zero", "data"}]
          /\ UNCHANGED <<free, epoch, prot, written, nextEpoch, open, copy, filling>>
      BY <1>1, <1>10 DEF Stores, GuestStore, TypeOK, Running, books
    <2>2. TypeOK'
      BY <1>1, <2>1 DEF TypeOK
    <2> QED BY <1>1, <2>1, <2>2 DEF IInv, FreeIsUncommitted, Committed, WholePages, EpochsPast, CopyKnowsItsEpoch
  <1>11. CASE Running /\ TakesCopy
    <2>1. PICK S \in CopySpans : TakeCopy(S)
      BY <1>11 DEF TakesCopy
    <2>2. PICK p \in S : p = CHOOSE q \in S : TRUE
      BY <2>1 DEF TakeCopy
    <2>3. /\ copy' = [pages |-> S, epoch |-> epoch[p], intact |-> TRUE]
          /\ UNCHANGED <<free, epoch, prot, written, nextEpoch, bytes, open, filling>>
          /\ S \subseteq Committed
      BY <1>11, <2>1, <2>2 DEF TakeCopy, Running, books
    <2>4. p \in Page /\ epoch[p] # 0 /\ epoch[p] \in Nat /\ epoch[p] < nextEpoch /\ S \subseteq Page
      BY <1>1, <2>3 DEF Committed, TypeOK, EpochsPast
    <2>5. TypeOK'
      BY <1>1, <2>3, <2>4 DEF TypeOK
    <2>6. CopyKnowsItsEpoch'
      BY <2>3, <2>4 DEF CopyKnowsItsEpoch
    <2> QED BY <1>1, <2>3, <2>5, <2>6 DEF IInv, FreeIsUncommitted, Committed, WholePages, EpochsPast
  <1>12. CASE Running /\ Restores
    <2>1. PICK ok \in Outcomes : RestoreIfUnchanged(ok)
      BY <1>12 DEF Restores
    <2>2. copy.pages \subseteq Page /\ Outward(copy.pages) \subseteq Page
      BY <1>1, OutwardFacts DEF TypeOK
    <2>3. /\ bytes' \in [Page -> {"zero", "data"}] /\ open' \subseteq Page
          /\ UNCHANGED <<free, epoch, prot, written, nextEpoch, filling>>
          /\ copy' = NoCopy
      BY <1>1, <1>12, <2>1, <2>2, SMT DEF RestoreIfUnchanged, TypeOK, Running, books
    <2>4. TypeOK'
      BY <1>1, <2>3 DEF TypeOK, NoCopy
    <2>5. CopyKnowsItsEpoch'
      BY <1>1, <2>3, SMT DEF CopyKnowsItsEpoch, NoCopy, TypeOK
    <2> QED BY <1>1, <2>3, <2>4, <2>5 DEF IInv, FreeIsUncommitted, Committed, WholePages, EpochsPast
  <1>13. CASE Filled \/ UNCHANGED vars
    <2>1. UNCHANGED <<free, epoch, prot, written, nextEpoch, bytes, open, copy>> /\ filling' \in BOOLEAN
      BY <1>1, <1>13 DEF Filled, vars, books, TypeOK
    <2>2. TypeOK'
      BY <1>1, <2>1 DEF TypeOK
    <2> QED BY <1>1, <2>1, <2>2 DEF IInv, FreeIsUncommitted, Committed, WholePages, EpochsPast, CopyKnowsItsEpoch
  <1> QED BY <1>4, <1>5, <1>6, <1>7, <1>8, <1>9, <1>10, <1>11, <1>12, <1>13 DEF Next

\* The inductive invariant holds of every behaviour of the arena.
THEOREM ArenaInvariant == Spec => []IInv
  BY InitIInv, NextIInv, PTL DEF Spec

\* The arena's state keeps its types, under any mix of commits, releases,
\* protections, copies and host refusals.
THEOREM ArenaTypes == Spec => []TypeOK
  <1>1. IInv => TypeOK
    BY DEF IInv
  <1> QED BY <1>1, ArenaInvariant, PTL

\* Memory on the free list is never memory the committed list also holds, so
\* no page is handed to a second program while the first still has it.
THEOREM FreeNeverCommitted == Spec => []FreeIsUncommitted
  <1>1. IInv => FreeIsUncommitted
    BY DEF IInv
  <1> QED BY <1>1, ArenaInvariant, PTL

\* The free list is made of whole host pages.
THEOREM FreeByHostPage == Spec => []FreeIsWholeHostPages
  <1>1. IInv => FreeIsWholeHostPages
    BY OutwardFacts DEF IInv, FreeIsWholeHostPages, TypeOK
  <1> QED BY <1>1, ArenaInvariant, PTL

\* RestoreIfUnchanged's epoch check is never fooled by an address that was
\* freed and handed out again.
THEOREM RestoresOnlyIntact == Spec => []RestoreOnlyIntact
  <1>1. IInv => RestoreOnlyIntact
    BY DEF IInv, CopyKnowsItsEpoch, RestoreOnlyIntact, RestorePermitted
  <1> QED BY <1>1, ArenaInvariant, PTL

\* A protection request never takes access from a page it does not name: such a
\* page is part of its own range, so ProtectLocked widens.  This is so in every
\* state the books can be in.
THEOREM NeighboursAlwaysKeepAccess == Spec => []NeighboursKeepAccess
  <1>1. ASSUME NEW S, NEW pr, NEW p \in (Outward(S) \cap Committed) \ S
        PROVE  prot[p] \subseteq ProtectedAs(S, pr, p)
    <2>1. p \in Committed /\ p \in Nat
      BY ArenaAssumption, SMT DEF Committed, Page, ArenaAssumption
    <2>2. p \in RangeOf(p)
      <3>1. \A r \in (p..p) \cup (p..p) : r = p
        BY <2>1, SMT
      <3> QED BY <2>1, <3>1 DEF RangeOf, SameRange
    <2>3. p \notin Inward(S)
      BY DEF Inward
    <2> QED BY <2>2, <2>3 DEF ProtectedAs
  <1>2. NeighboursKeepAccess
    BY <1>1 DEF NeighboursKeepAccess
  <1> QED BY <1>2, PTL

-----------------------------------------------------------------------------
(***************************************************************************)
(* Nothing is leaked.                                                      *)
(***************************************************************************)
INSTANCE WellFoundedInduction

LEMMA HasLowest ==
    ASSUME NEW S, S \subseteq Nat, S # {}
    PROVE  \E x \in S : \A y \in S : x <= y
  <1> DEFINE R == OpToRel(<, Nat)
  <1>1. IsWellFoundedOn(R, Nat)
    BY NatLessThanWellFounded
  <1>2. \A x, y \in Nat : y < x => <<y, x>> \in R
    BY DEF OpToRel
  <1> HIDE DEF R
  <1>3. \E x \in S : \A y \in S : ~(<<y, x>> \in R)
    BY <1>1, WFMin
  <1>4. \E x \in S : \A y \in S : ~(y < x)
    BY <1>2, <1>3
  <1> QED BY <1>4, SMT

\* Every uncommitted page of a span is in a gap that starts in the span.
LEMMA GapsHaveStarts ==
    ASSUME NEW S, S \subseteq Page, NEW p \in S \ Committed
    PROVE  \E s \in GapStarts(S) : InGap(s, p)
  <1> DEFINE A == {s \in Nat : s <= p /\ s..p \subseteq S \ Committed}
  <1>1. p \in Nat
    BY ArenaAssumption, SMT DEF Page, ArenaAssumption
  <1>2. p \in A
    BY <1>1, SMT
  <1>3. PICK m \in A : \A y \in A : m <= y
    <2>1. A \subseteq Nat /\ A # {}
      BY <1>2
    <2> QED BY <2>1, HasLowest
  <1>4. m \in Nat /\ m <= p /\ m..p \subseteq S \ Committed /\ m \in m..p
    BY <1>1, <1>3, SMT
  <1>5. ~ (m - 1 \in S \ Committed)
    <2> SUFFICES ASSUME m - 1 \in S \ Committed PROVE FALSE
      OBVIOUS
    <2>1. m - 1 \in Nat
      BY ArenaAssumption, SMT DEF Page, ArenaAssumption
    <2>2. \A r \in (m - 1)..p : r = m - 1 \/ r \in m..p
      BY <1>1, <1>4, <2>1, SMT
    <2>3. (m - 1)..p \subseteq S \ Committed
      BY <1>4, <2>2
    <2>4. m - 1 <= p /\ ~ (m <= m - 1)
      BY <1>1, <1>4, <2>1, SMT
    <2>5. m - 1 \in A
      BY <2>1, <2>3, <2>4
    <2> QED BY <1>3, <2>4, <2>5
  <1>6. m \in GapStarts(S)
    BY <1>4, <1>5 DEF GapStarts
  <1>7. InGap(m, p)
    BY <1>4 DEF InGap
  <1> QED BY <1>6, <1>7

\* Where nothing is refused, a fixed commit takes all the gaps of its span.
LEMMA AllGapsTaken ==
    ASSUME NEW S, S \subseteq Page, nextEpoch \in Nat \ {0}, NEW pr, NEW ok, CommitPartly(S, pr, {}, ok)
    PROVE  /\ free' = free \ (S \ Committed)
           /\ Committed' = Committed \cup S
           /\ \A p \in S \cap Committed : epoch'[p] = epoch[p]
           /\ \A p \in Page \ S : epoch'[p] = epoch[p]
  <1> DEFINE taken == {p \in S \ Committed : \E s \in GapStarts(S) \ {} : InGap(s, p)}
  <1>1. taken = S \ Committed
    BY GapsHaveStarts
  <1>2. /\ free' = free \ (S \ Committed)
        /\ epoch' = [p \in Page |-> IF p \in taken THEN GapEpoch(S, {}, p) ELSE epoch[p]]
    BY DEF CommitPartly
  <1>3. ASSUME NEW p \in S \ Committed PROVE GapEpoch(S, {}, p) # 0
    <2>1. PICK s \in GapStarts(S) : s <= p
      BY GapsHaveStarts DEF InGap
    <2>2. nextEpoch <= GapEpoch(S, {}, p) /\ GapEpoch(S, {}, p) \in Nat
      BY <2>1, GapEpochsAreNew
    <2> QED BY <2>2, SMT
  <1> HIDE DEF taken
  <1>4. \A p \in Page : epoch'[p] = IF p \in S \ Committed THEN GapEpoch(S, {}, p) ELSE epoch[p]
    BY <1>1, <1>2
  <1>5. Committed' = Committed \cup S
    BY <1>3, <1>4 DEF Committed
  <1> QED BY <1>2, <1>4, <1>5

\* A fixed commit that is refused nothing loses nothing.
LEMMA CommitPartlyLosesNothing ==
    ASSUME NothingLeaked, nextEpoch \in Nat \ {0}, NEW S, S \subseteq Page, NEW pr, NEW ok,
           CommitPartly(S, pr, {}, ok)
    PROVE  NothingLeaked'
  <1>1. Committed' = Committed \cup S /\ free' = free \ (S \ Committed)
    BY AllGapsTaken
  <1>2. free \ S \subseteq free'
    BY <1>1
  <1> QED BY <1>1, <1>2, CommittedIsNotLost

\* Where the host refuses no mprotect, the arena never loses a host page: one
\* that nothing is committed in is on the free list.
THEOREM ArenaLeaksNothing == "mprotect" \notin Refusals => (Spec => []NothingLeaked)
  <1> SUFFICES ASSUME "mprotect" \notin Refusals PROVE Spec => []NothingLeaked
    OBVIOUS
  <1>1. Init => NothingLeaked
    BY DEF Init, NothingLeaked
  <1>2. ASSUME IInv, NothingLeaked, [Next]_vars PROVE NothingLeaked'
    <2>1. TypeOK
      BY <1>2 DEF IInv
    <2>2. /\ \A S \in Spans : S \subseteq Page
          /\ nextEpoch \in Nat \ {0}
          /\ \A S : S \subseteq Page => Outward(S) \subseteq Page
      <3>1. \A S \in Spans : S \subseteq Page
        BY ArenaAssumption, SMT DEF Spans, Page, ArenaAssumption
      <3> QED BY <2>1, <3>1, OutwardFacts DEF TypeOK
    <2>3. CASE Adopts
      <3>1. PICK S \in HostSpans, pr \in Prots, w \in BOOLEAN : AdoptCopiedMapping(S, pr, w)
        BY <2>3 DEF Adopts
      <3>2. /\ free' = free \ S
            /\ \A p \in Page : epoch'[p] = IF p \in S THEN nextEpoch ELSE epoch[p]
        BY <3>1 DEF AdoptCopiedMapping
      <3>3. Committed' = Committed \cup S
        BY <2>2, <3>2 DEF Committed, HostSpans
      <3> QED BY <1>2, <3>2, <3>3, CommittedIsNotLost
    <2>4. CASE Allocates
      <3>1. PICK n \in Sizes, hint \in {NoHint} \cup Hints, pr \in CommitProts, ok \in Outcomes :
               Allocate(n, hint, pr, ok)
        BY <2>4 DEF Allocates
      <3>2. PICK s \in Placement(AlignUp(n), hint) : CommitFree(s..(s + AlignUp(n) - 1), pr, ok)
        BY <3>1 DEF Allocate
      <3>3. s..(s + AlignUp(n) - 1) \subseteq Page
        BY <2>1, <3>2 DEF Placement, FirstFit, Fits, TypeOK
      <3> QED BY <1>2, <2>2, <3>2, <3>3, CommitFreeLosesNothing
    <2>5. CASE CommitsFixed
      <3>1. PICK S \in HostSpans, pr \in CommitProts, ok \in Outcomes : CommitFixed(S, pr, ok)
        BY <2>5 DEF CommitsFixed
      <3>2. ok # "mprotect" /\ Outward(S) \subseteq Page
        BY <2>2 DEF Outcomes, HostSpans
      <3>3. CASE Outward(S) \subseteq free
        BY <1>2, <2>2, <3>1, <3>2, <3>3, CommitFreeLosesNothing DEF CommitFixed
      <3>4. CASE ~ (Outward(S) \subseteq free)
        <4>1. CommitPartly(Outward(S), pr, {}, ok)
          BY <3>1, <3>2, <3>4 DEF CommitFixed
        <4> QED BY <1>2, <2>2, <3>2, <4>1, CommitPartlyLosesNothing
      <3> QED BY <3>3, <3>4
    <2>6. CASE Releases
      BY <1>2, <2>2, <2>6, ReleaseLosesNothing DEF Releases
    <2>7. CASE Protects \/ Drops \/ Stores \/ TakesCopy \/ Restores \/ Filled \/ UNCHANGED vars
      <3>1. free' = free /\ epoch' = epoch
        BY <2>7 DEF Protects, Drops, Stores, TakesCopy, Restores, Filled, Protect, DropPages, GuestStore,
                           TakeCopy, RestoreIfUnchanged, books, vars
      <3> QED BY <1>2, <3>1 DEF NothingLeaked
    <2> QED BY <1>2, <2>3, <2>4, <2>5, <2>6, <2>7 DEF Next
  <1> QED BY <1>1, <1>2, ArenaInvariant, PTL DEF Spec

\* A fixed commit: the host pages it touches are committed and open, and the
\* ones nothing was committed in are zeroed.
LEMMA CommitFixedEffect ==
    ASSUME nextEpoch \in Nat \ {0}, FreeIsUncommitted, NEW S, S \subseteq Page,
           NEW pr, "W" \in pr, CommitFixed(S, pr, "ok")
    PROVE  /\ free' = free \ (Outward(S) \ Committed)
           /\ Committed' = Committed \cup Outward(S)
           /\ open \cup S \subseteq open'
           /\ bytes' = [p \in Page |-> IF p \in Outward(S) /\ HostPage[p] \cap Committed = {}
                                       THEN "zero" ELSE bytes[p]]
           /\ nextEpoch' \in Nat \ {0}
  <1> DEFINE span == Outward(S)
  <1>1. span \subseteq Page /\ S \subseteq span /\ WholePages(span)
    BY OutwardFacts
  <1>2. \A p \in span : HostPage[p] \subseteq span
    BY <1>1 DEF WholePages
  <1>3. CASE span \subseteq free
    <2>1. CommitFree(span, pr, "ok")
      BY <1>3 DEF CommitFixed
    <2>2. /\ free' = free \ span
          /\ Committed' = Committed \cup span
          /\ open' = open \cup span
          /\ bytes' = [p \in Page |-> IF p \in span THEN "zero" ELSE bytes[p]]
          /\ nextEpoch' \in Nat \ {0}
      BY <1>1, <2>1, CommitFreeEffect
    <2>3. span \cap Committed = {}
      BY <1>3 DEF FreeIsUncommitted
    <2>4. \A p \in span : HostPage[p] \cap Committed = {}
      BY <1>2, <2>3
    <2>5. bytes' = [p \in Page |-> IF p \in span /\ HostPage[p] \cap Committed = {} THEN "zero" ELSE bytes[p]]
      BY <2>2, <2>4
    <2>6. span \ Committed = span
      BY <2>3
    <2> QED BY <1>1, <2>2, <2>5, <2>6
  <1>4. CASE ~ (span \subseteq free)
    <2>1. CommitPartly(span, pr, {}, "ok")
      BY <1>4 DEF CommitFixed
    <2> DEFINE gaps == span \ Committed
               taken == {p \in gaps : \E s \in GapStarts(span) \ {} : InGap(s, p)}
               whole == {p \in gaps : HostPage[p] \subseteq gaps}
               count == Cardinality(GapStarts(span) \ {})
               touched == (span \cap Committed) \cup taken
    <2>2. /\ free' = free \ gaps
          /\ nextEpoch' = nextEpoch + count
          /\ bytes' = Zeroed(whole, "ok")
          /\ open' = (open \ (whole \ taken)) \cup Outward(taken) \cup (IF "W" \in pr /\ touched # {} THEN span ELSE {})
      BY <2>1 DEF CommitPartly
    <2>3. Committed' = Committed \cup span
      BY <1>1, <2>1, AllGapsTaken
    <2>4. taken = gaps
      BY <1>1, GapsHaveStarts
    <2>5. count \in Nat
      <3>1. GapStarts(span) \ {} \subseteq Page
        BY <1>1 DEF GapStarts
      <3>2. IsFiniteSet(Page)
        BY PageFacts, FS_Interval, SMT DEF Page
      <3> QED BY <3>1, <3>2, FS_Subset, FS_CardinalityType
    <2> HIDE DEF count
    <2>6. nextEpoch' \in Nat \ {0}
      BY <2>2, <2>5, SMT
    <2>7. whole \subseteq gaps
      OBVIOUS
    <2>8. touched = span
      BY <2>4
    <2> HIDE DEF taken, touched
    <2>9. open \cup S \subseteq open'
      BY <1>1, <2>2, <2>4, <2>7, <2>8
    <2>10. \A p \in Page : p \in whole <=> p \in span /\ HostPage[p] \cap Committed = {}
      BY <1>1, <1>2, HostPageFacts
    <2>11. bytes' = [p \in Page |-> IF p \in whole THEN "zero" ELSE bytes[p]]
      BY <2>2 DEF Zeroed
    <2> HIDE DEF whole
    <2>12. bytes' = [p \in Page |-> IF p \in span /\ HostPage[p] \cap Committed = {} THEN "zero" ELSE bytes[p]]
      BY <2>10, <2>11
    <2> QED BY <2>2, <2>3, <2>6, <2>9, <2>12
  <1> QED BY <1>3, <1>4

LEMMA MmapCommitStep ==
    ASSUME BooksInv, NobodyExecs, NEW t \in Threads, MmapCommit(t), SameProgram
    PROVE  Preserves
  <1>1. /\ BooksInv' /\ Turn(t) /\ SameOwners
        /\ call[t].at = "commit" /\ call[t].pages \subseteq Page
        /\ call'[t].at = "fill" /\ call'[t].pages = call[t].pages
        /\ call'[t].kind = call[t].kind /\ call'[t].stale = call[t].stale
        /\ free' = free \ (Outward(call[t].pages) \ Committed)
        /\ Committed' = Committed \cup Outward(call[t].pages)
        /\ open \cup call[t].pages \subseteq open'
        /\ bytes' = [p \in Page |-> IF p \in Outward(call[t].pages) /\ HostPage[p] \cap Committed = {}
                                    THEN "zero" ELSE bytes[p]]
        /\ live' = live \ {p \in Outward(call[t].pages) : HostPage[p] \cap Committed = {}}
        /\ held' = held /\ slots' = slots /\ faulted' = faulted
    <2> DEFINE S == call[t].pages
               pr == call[t].prot \cup {"W"}
               c == [call[t] EXCEPT !.at = "fill"]
    <2>1. /\ call[t].at = "commit" /\ CommitFixed(S, pr, "ok") /\ GoOn(t, c)
          /\ live' = live \ {p \in Outward(S) : HostPage[p] \cap Committed = {}}
          /\ held' = held /\ slots' = slots /\ heap' = heap /\ segments' = segments /\ faulted' = faulted
      BY DEF MmapCommit, At, Fresh
    <2>2. Typed /\ Booked /\ call[t] \in CallType /\ S \subseteq Page
      BY DEF BooksInv, Typed, CallType
    <2>3. /\ c \in CallType /\ c.at = "fill" /\ c.pages = S /\ c.kind = call[t].kind /\ c.stale = call[t].stale
      BY <2>2 DEF CallType, CallStages
    <2> HIDE DEF c
    <2>4. call'[t] = c /\ Turn(t)
      BY <2>1, <2>2, <2>3, GoOnEffect DEF Turn, Typed
    <2>5. "W" \in pr
      OBVIOUS
    <2>6. /\ free' = free \ (Outward(S) \ Committed) /\ Committed' = Committed \cup Outward(S)
          /\ open \cup S \subseteq open'
          /\ bytes' = [p \in Page |-> IF p \in Outward(S) /\ HostPage[p] \cap Committed = {} THEN "zero" ELSE bytes[p]]
          /\ nextEpoch' \in Nat \ {0}
      <3> HIDE DEF pr, S
      <3> QED BY <2>1, <2>2, <2>5, CommitFixedEffect DEF Booked, Typed
    <2>7. Outward(S) \subseteq Page /\ WholePages(Outward(S))
      BY <2>2, OutwardFacts
    <2>8. free' = free \ Outward(S)
      BY <2>2, <2>6 DEF Booked, FreeIsUncommitted
    <2>9. Booked'
      BY <2>2, <2>6, <2>7, <2>8, BookedCommit DEF Typed
    <2>10. Typed'
      BY <2>1, <2>2, <2>4, <2>6 DEF Typed, Turn, SameProgram
    <2>11. \A u \in Threads : SizedCall(call[u])'
      BY <2>3, <2>4 DEF BooksInv, Turn, SizedCall
    <2> QED BY <2>1, <2>2, <2>3, <2>4, <2>6, <2>9, <2>10, <2>11 DEF BooksInv, SameOwners
  <1>2. ASSUME OwnInv, Careful PROVE OwnInv'
    <2> USE <1>2
    <2>1. BooksInv
      BY DEF OwnInv
    <2>2. /\ BooksInv' /\ Turn(t) /\ SameOwners /\ call[t].at = "commit" /\ call[t].pages \subseteq Page
          /\ call'[t].at = "fill" /\ call'[t].pages = call[t].pages
          /\ call'[t].kind = call[t].kind /\ call'[t].stale = call[t].stale
          /\ Committed' = Committed \cup Outward(call[t].pages) /\ open \cup call[t].pages \subseteq open' /\ held' = held
      BY <1>1
    <2>3. /\ call[t] \in CallType /\ StagedCall(t, call[t], heap) /\ HeldCall(call[t], held) /\ OwnCall(call[t], Lands)
          /\ \A u \in Threads : u # t => Claim(call[t]) \cap Claim(call[u]) = {}
      BY CallFacts
    <2>4. Claim(call'[t]) = Claim(call[t]) /\ Target(call'[t]) = {} /\ Target(call[t]) = {}
      BY <2>2 DEF Claim, Target
    <2>5. Claim(call[t]) = call[t].pages
      BY <2>2, <2>3, ClaimFacts DEF StagedCall
    <2>6. Usable \subseteq Usable' /\ Committed \subseteq Committed'
      BY <2>2 DEF Usable
    <2>7. call[t].pages \subseteq Usable'
      BY <2>2, OutwardFacts DEF Usable
    <2>8. StagedCall(t, call'[t], heap)
      BY <2>2, <2>3 DEF StagedCall
    <2>9. UsableCall(call'[t], Committed', Usable') /\ OwnCall(call'[t], Lands)
      BY <2>2, <2>3, <2>4, <2>5, <2>7 DEF UsableCall, OwnCall
    <2>10. HeldCall(call'[t], held')
      BY <2>2, <2>3, <2>4 DEF HeldCall
    <2>11. CallOK(t, call'[t], heap, Committed', Usable', held', Lands)
      BY <2>8, <2>9, <2>10 DEF CallOK
    <2>12. Spares(t, {}, {})
      BY <2>2, <2>3, <2>4, <2>6 DEF Spares
    <2>13. OffLands({}, {})
      BY DEF OffLands
    <2>14. call'[t].at \in CallStages
      BY <2>2 DEF CallStages
    <2> QED BY <2>2, <2>11, <2>12, <2>13, <2>14, OrdinaryStep
  <1>3. ASSUME OwnInv, FilesInv, SlotsSuffice PROVE FilesInv'
    <2>1. FewerViews
      <3>1. live' \subseteq live /\ free' \subseteq free /\ slots' = slots /\ Reserve' = Reserve
        BY <1>1 DEF SameOwners, Reserve
      <3> QED BY <1>3, <3>1 DEF FewerViews, FilesInv, Viewed
    <2>2. FileCall(call[t], live)
      BY <1>3 DEF FilesInv
    <2>3. FileCall(call'[t], live') /\ ~faulted' /\ call'[t].at \in CallStages
      BY <1>1, <1>3, <2>1, <2>2 DEF FileCall, Claim, Target, FewerViews, FilesInv, CallsNeverFault, CallStages
    <2> QED BY <1>1, <1>3, <2>1, <2>3, FilesCall
  <1> QED BY <1>1, <1>2, <1>3 DEF Preserves

\* Every step of every memory call.
LEMMA CallsStep ==
    ASSUME BooksInv, NobodyExecs, CallsNext, SameProgram
    PROVE  Preserves
  <1>1. ASSUME NEW p \in StorePages, StoreHeld(p) PROVE Preserves
    BY <1>1, StoreHeldStep
  <1>2. ASSUME NEW t \in Threads, NEW S \in CopySpans, NEW r \in Requests, MmapFixed(t, S, r.kind, r.prot) PROVE Preserves
    <2>1. r.kind \in MappingKinds /\ r.prot \in Protections
      BY RequestFacts
    <2> QED BY <1>2, <2>1, MmapFixedStep
  <1>3. ASSUME NEW t \in Threads, NEW n \in Sizes, NEW hint \in {NoHint} \cup Hints, NEW r \in Requests,
               MmapAnywhere(t, n, hint, r.kind, r.prot)
        PROVE  Preserves
    <2>1. r.kind \in MappingKinds /\ r.prot \in Protections
      BY RequestFacts
    <2> QED BY <1>3, <2>1, MmapAnywhereStep
  <1>4. ASSUME NEW t \in Threads, MmapCommit(t) \/ ShrinkHeapBelow(t) \/ MmapAllocate(t) PROVE Preserves
    BY <1>4, MmapCommitStep, ShrinkHeapBelowStep, MmapAllocateStep
  <1>5. ASSUME NEW t \in Threads, MmapZero(t) \/ MmapRead(t) \/ MmapShare(t) \/ MmapProtect(t) PROVE Preserves
    BY <1>5, MmapZeroStep, MmapReadStep, MmapShareStep, MmapProtectStep
  <1>6. ASSUME NEW t \in Threads, NEW S \in CopySpans, Munmap(t, S) PROVE Preserves
    BY <1>6, MunmapStep
  <1>7. ASSUME NEW t \in Threads, NEW S \in CopySpans, NEW pr \in Prots, Mprotect(t, S, pr) PROVE Preserves
    BY <1>7, MprotectStep
  <1>8. ASSUME NEW t \in Threads, NEW S \in CopySpans, NEW n \in Sizes, Mremap(t, S, n) PROVE Preserves
    BY <1>8, MremapStep
  <1>9. ASSUME NEW t \in Threads, ReleasePages(t) \/ MremapAllocate(t) \/ MremapCopy(t) \/ BrkStore(t) PROVE Preserves
    BY <1>9, ReleasePagesStep, MremapAllocateStep, MremapCopyStep, BrkStoreStep
  <1>10. ASSUME NEW t \in Threads, NEW n \in 0..HeapPages, Brk(t, n) PROVE Preserves
    BY <1>10, BrkStep
  <1>11. ASSUME NEW t \in Threads, NEW n \in Sizes, Shmget(t, n) PROVE Preserves
    BY <1>11, ShmgetStep
  <1>12. ASSUME NEW t \in Threads, NEW id \in DOMAIN segments, Shmat(t, id) \/ Shmdt(t, id) \/ ShmctlRemove(t, id)
         PROVE  Preserves
    BY <1>12, ShmatStep, ShmdtStep, ShmctlRemoveStep
  <1> QED BY <1>1, <1>2, <1>3, <1>4, <1>5, <1>6, <1>7, <1>8, <1>9, <1>10, <1>11, <1>12 DEF CallsNext

\* The images' end is a hint: a set of pages has a highest.
LEMMA ImagesEndIsAHint ==
    ASSUME loading \in ProgramType
    PROVE  ImagesEnd \in {NoHint} \cup Nat
  <1> DEFINE I == loading.images
             U == {n \in Nat : \A q \in I : q <= n}
  <1>1. I \subseteq Page
    BY DEF ProgramType
  <1>2. CASE I = {}
    BY <1>2 DEF ImagesEnd
  <1>3. CASE I # {}
    <2>1. I \subseteq Nat /\ \A q \in I : q <= NPages
      <3> HIDE DEF I
      <3> QED BY <1>1, PageFacts, SMT
    <2>2. NPages \in U /\ U \subseteq Nat
      BY <2>1, PageFacts
    <2>3. PICK m \in U : \A n \in U : m <= n
      BY <2>2, HasLowest
    <2>4. m \in I
      <3>1. SUFFICES ASSUME m \notin I PROVE FALSE
        OBVIOUS
      <3>2. PICK q \in I : TRUE
        BY <1>3
      <3>3. m \in Nat /\ \A r \in I : r \in Nat /\ r <= m /\ r # m
        BY <2>1, <2>3, <3>1
      <3> HIDE DEF I
      <3>4. m - 1 \in Nat /\ \A r \in I : r <= m - 1
        BY <3>2, <3>3, SMT
      <3>5. m - 1 \in U
        BY <3>4
      <3>6. m <= m - 1
        BY <2>3, <3>5
      <3> QED BY <3>3, <3>6, SMT
    <2>5. m \in I /\ \A q \in I : q <= m
      BY <2>3, <2>4
    <2> DEFINE top == CHOOSE p \in I : \A q \in I : q <= p
    <2>6. top \in I
      BY <2>5
    <2>7. ImagesEnd = 1 + top
      BY <1>3 DEF ImagesEnd
    <2>8. top \in Nat
      BY <2>1, <2>6
    <2> HIDE DEF top
    <2>9. 1 + top \in Nat
      BY <2>8, SMT
    <2> QED BY <2>7, <2>9
  <1> QED BY <1>2, <1>3

-----------------------------------------------------------------------------
(***************************************************************************)
(* The arena's books, whatever is called and loaded.                       *)
(***************************************************************************)
\* The lowest pages of the arena, if they are a number of host pages.
LEMMA PrefixIsWhole ==
    ASSUME NEW n \in Nat, n <= NPages, NEW q \in Nat, n = K * q
    PROVE  0..(n - 1) \subseteq Page /\ WholePages(0..(n - 1))
  <1>1. 0..(n - 1) \subseteq Page
    BY PageFacts, SMT
  <1>2. 0..(n - 1) = (K * 0)..(K * 0 + K * q - 1)
    BY PageFacts, SMT
  <1>3. 0 \in Nat
    BY SMT
  <1>4. WholePages((K * 0)..(K * 0 + K * q - 1))
    BY <1>1, <1>2, <1>3, AlignedSpanIsWhole
  <1> QED BY <1>1, <1>2, <1>4

LEMMA HeapAndLowAreWhole ==
    /\ Low \subseteq Page /\ WholePages(Low)
    /\ Heap \subseteq Page /\ WholePages(Heap)
    /\ Image \subseteq Page /\ WholePages(Image)
  <1>1. LowPages \in Nat /\ LowPages <= NPages /\ LowPages \div K \in Nat /\ LowPages = K * (LowPages \div K)
    <2>1. LowPages \in Nat /\ LowPages <= NPages /\ LowPages = K * (LowPages \div K)
      BY ArenaAssumption, SMT DEF ArenaAssumption
    <2> QED BY <2>1, DivBounds
  <1>2. Low \subseteq Page /\ WholePages(Low)
    BY <1>1, PrefixIsWhole DEF Low
  <1>3. HeapPages \in 0..NPages /\ HeapPages % K = 0
    BY CallsAssumption DEF CallsAssumption
  <1>4. HeapPages \in Nat /\ HeapPages <= NPages
    BY <1>3, PageFacts, SMT
  <1>5. PICK q \in Nat : HeapPages = K * q
    BY <1>3, <1>4, AlignUpFacts
  <1>6. Heap \subseteq Page /\ WholePages(Heap)
    BY <1>4, <1>5, PrefixIsWhole DEF Heap
  <1>7. Image \subseteq Page /\ Outward(Image) = Image
    BY RequestFacts, CallsAssumption DEF CallsAssumption
  <1>8. WholePages(Image)
    BY <1>7, OutwardFacts
  <1> QED BY <1>2, <1>6, <1>7, <1>8

LEMMA BooksInit == ProgramsInit => BooksInv
  <1> SUFFICES ASSUME ProgramsInit PROVE BooksInv
    OBVIOUS
  <1> DEFINE U == Low \cup Heap \cup Image
  <1>1. /\ free = Page \ U
        /\ epoch = [p \in Page |-> IF p \in Heap THEN 1 ELSE IF p \in Image THEN 2 ELSE 0]
        /\ nextEpoch = 3
        /\ bytes = [p \in Page |-> IF p \in Image THEN "data" ELSE "zero"]
        /\ held = [p \in Page |-> IF p \in Image THEN "file" ELSE "none"]
        /\ slots = <<>> /\ heap = [base |-> 0, break |-> 0, limit |-> HeapPages]
        /\ segments = <<>> /\ call = [t \in Threads |-> Idle]
        /\ program = [NoProgram EXCEPT !.images = Image, !.heap = Heap] /\ loading = NoProgram
    BY DEF ProgramsInit, CallsInit
  <1>2. U \subseteq Page /\ WholePages(U)
    BY HeapAndLowAreWhole DEF WholePages
  <1>3. Committed = Heap \cup Image
    <2>1. \A p \in Page : epoch[p] = IF p \in Heap THEN 1 ELSE IF p \in Image THEN 2 ELSE 0
      BY <1>1
    <2>2. \A p \in Page : epoch[p] # 0 <=> p \in Heap \cup Image
      BY <2>1, SMT
    <2> QED BY <2>2, HeapAndLowAreWhole DEF Committed
  <1>4. FreeIsUncommitted
    BY <1>1, <1>3 DEF FreeIsUncommitted
  <1>5. ASSUME NEW p \in free PROVE HostPage[p] \subseteq free
    <2>1. p \in Page /\ p \notin U
      BY <1>1
    <2>2. ASSUME NEW q \in HostPage[p] PROVE q \in free
      <3>1. q \in Page /\ p \in HostPage[q]
        BY <2>1, HostPageFacts
      <3>2. q \notin U
        BY <1>2, <2>1, <3>1 DEF WholePages
      <3> QED BY <1>1, <3>1, <3>2
    <2> QED BY <2>2
  <1>6. ASSUME NEW p \in Page \ Low, HostPage[p] \cap Committed = {} PROVE p \in free
    BY <1>1, <1>3, <1>6, HostPageFacts
  <1>7. Booked
    BY <1>4, <1>5, <1>6, LeaksByHostPage DEF Booked, WholePages
  <1>8. nextEpoch \in Nat \ {0} /\ 0 \in Nat /\ HeapPages \in Ends /\ segments \in Seq(SegmentType) /\ slots \in Seq(SlotType)
    BY <1>1, CallsAssumption, PageFacts, SMT DEF Ends, CallsAssumption
  <1>9. bytes \in [Page -> {"zero", "data"}] /\ held \in [Page -> Kinds] /\ call \in [Threads -> CallType]
    BY <1>1, IdleFacts DEF Kinds
  <1>10. heap \in HeapType
    BY <1>1, <1>8 DEF HeapType
  <1>11. program \in ProgramType /\ loading \in ProgramType
    BY <1>1, NoProgramFacts, HeapAndLowAreWhole DEF ProgramType
  <1>12. Typed
    BY <1>1, <1>8, <1>9, <1>10, <1>11 DEF Typed
  <1>13. \A t \in Threads : SizedCall(call[t])
    BY <1>1, IdleFacts DEF SizedCall
  <1> QED BY <1>7, <1>12, <1>13 DEF BooksInv

\* The first program: its heap below its image, and nobody calls.
LEMMA OwnInit == ProgramsInit => OwnInv
  <1> SUFFICES ASSUME ProgramsInit PROVE OwnInv
    OBVIOUS
  <1>1. /\ epoch = [p \in Page |-> IF p \in Heap THEN 1 ELSE IF p \in Image THEN 2 ELSE 0]
        /\ open = Heap \cup Image
        /\ held = [p \in Page |-> IF p \in Image THEN "file" ELSE "none"]
        /\ heap = [base |-> 0, break |-> 0, limit |-> HeapPages]
        /\ segments = <<>> /\ call = [t \in Threads |-> Idle]
        /\ program = [NoProgram EXCEPT !.images = Image, !.heap = Heap] /\ loading = NoProgram
    BY DEF ProgramsInit, CallsInit
  <1>2. BooksInv
    BY BooksInit
  <1>3. Committed = Heap \cup Image
    <2>1. \A p \in Page : epoch[p] = IF p \in Heap THEN 1 ELSE IF p \in Image THEN 2 ELSE 0
      BY <1>1
    <2>2. \A p \in Page : epoch[p] # 0 <=> p \in Heap \cup Image
      BY <2>1, SMT
    <2> QED BY <2>2, HeapAndLowAreWhole DEF Committed
  <1>4. Usable = Heap \cup Image
    BY <1>1, <1>3 DEF Usable
  <1>5. heap.base = 0 /\ heap.break = 0 /\ heap.limit = HeapPages
    BY <1>1
  <1>6. Reserve = Heap
    BY <1>5 DEF Reserve, Heap
  <1>7. DOMAIN segments = {} /\ KeptPages = {}
    <2>1. DOMAIN segments = {}
      BY <1>1, SMT
    <2> QED BY <2>1 DEF KeptPages, IsKept
  <1>8. program.stack = {} /\ program.heap = Heap
    BY <1>1, NoProgramFacts DEF NoProgram
  <1>9. Lands = Heap /\ Heap \cap Image = {}
    BY <1>6, <1>7, <1>8, CallsAssumption DEF Lands, Heap, CallsAssumption
  <1>10. \A p \in Page : (p \in Image => held[p] = "file") /\ (p \notin Image => held[p] = "none")
    BY <1>1
  <1>11. heap.base <= heap.break /\ heap.break <= heap.limit /\ heap.limit <= heap.base + HeapPages
    BY <1>5, PageFacts, CallsAssumption, SMT DEF CallsAssumption
  <1>12. HeldIsUsable
    BY <1>4, <1>10 DEF HeldIsUsable, Usable
  <1>13. \A p \in Heap : held[p] = "none"
    BY <1>9, <1>10, HeapAndLowAreWhole
  <1>14. \A p \in Page : held[p] = "file" \/ held[p] = "none"
    BY <1>10
  <1>15. LandsInv
    BY <1>4, <1>6, <1>7, <1>8, <1>9, <1>11, <1>12, <1>13, <1>14 DEF LandsInv
  <1>16. \A t \in Threads : call[t] = Idle
    BY <1>1
  <1>17. CallsInv
    BY <1>16, IdleIsOK DEF CallsInv
  <1>18. program.heap = Span(heap.base, HeapPages)
    BY <1>5, <1>8, PageFacts, CallsAssumption, SMT DEF Span, Heap, CallsAssumption
  <1>19. ExecsInv
    BY <1>1, <1>16, <1>18, IdleFacts DEF ExecsInv, Execing, Before
  <1> QED BY <1>2, <1>15, <1>17, <1>19 DEF OwnInv

LEMMA FilesInit == ProgramsInit => FilesInv
  <1> SUFFICES ASSUME ProgramsInit PROVE FilesInv
    OBVIOUS
  <1>1. live = {} /\ ~faulted /\ \A t \in Threads : call[t] = Idle
    BY DEF ProgramsInit, CallsInit
  <1> QED BY <1>1, IdleFacts, NoFiles DEF FilesInv, Viewed, CallsNeverFault, Before

\* Whatever step is taken.
LEMMA ProgramsStep == BooksInv /\ [ProgramsNext]_programVars => Preserves
  <1> SUFFICES ASSUME BooksInv, [ProgramsNext]_programVars PROVE Preserves
    OBVIOUS
  <1>1. CASE UNCHANGED programVars
    <2>1. /\ free' = free /\ epoch' = epoch /\ nextEpoch' = nextEpoch /\ bytes' = bytes /\ open' = open
          /\ held' = held /\ slots' = slots /\ heap' = heap /\ segments' = segments /\ call' = call
          /\ program' = program /\ loading' = loading /\ live' = live /\ faulted' = faulted
      BY <1>1 DEF programVars, allVars, vars, callVars
    <2>2. Committed' = Committed
      BY <2>1 DEF Committed
    <2>3. Booked'
      BY <2>1, <2>2, BookedQuiet DEF BooksInv
    <2>4. Typed'
      BY <2>1 DEF BooksInv, Typed
    <2>5. BooksInv'
      BY <2>1, <2>3, <2>4 DEF BooksInv
    <2>6. Usable' = Usable /\ KeptPages' = KeptPages /\ Reserve' = Reserve /\ Lands' = Lands /\ Loaded' = Loaded
      BY <2>1, <2>2 DEF Usable, KeptPages, IsKept, Reserve, Lands, Loaded
    <2>7. ASSUME OwnInv PROVE OwnInv'
      <3>1. CallsInv'
        BY <2>1, <2>2, <2>6, <2>7 DEF OwnInv, CallsInv
      <3>2. LandsInv'
        BY <2>1, <2>2, <2>6, <2>7 DEF OwnInv, LandsInv, HeldIsUsable
      <3>3. ExecsInv'
        BY <2>1, <2>6, <2>7 DEF OwnInv, ExecsInv, LoadInv, NobodyExecs, Execing, ProgramData
      <3> QED BY <2>5, <3>1, <3>2, <3>3 DEF OwnInv
    <2>8. ASSUME FilesInv PROVE FilesInv'
      BY <2>1, <2>6, <2>8 DEF FilesInv, Viewed, CallsNeverFault
    <2> QED BY <2>5, <2>7, <2>8 DEF Preserves
  <1>2. ASSUME \A t \in Threads : ~Execing(t), CallsNext, UNCHANGED <<program, loading>> PROVE Preserves
    <2>1. NobodyExecs /\ SameProgram
      BY <1>2 DEF NobodyExecs, SameProgram
    <2> QED BY <1>2, <2>1, CallsStep
  <1>3. ASSUME NEW t \in Threads, NEW images \in 1..2, ExecProcess(t, images) PROVE Preserves
    BY <1>3, ExecProcessStep
  <1>0. ImagesEnd \in {NoHint} \cup Nat
    BY ImagesEndIsAHint DEF BooksInv, Typed
  <1>4. ASSUME NEW t \in Threads, LoadElf(t) \/ LoadSegments(t) \/ ProtectSegments(t) \/ BuildInitialStack(t) PROVE Preserves
    BY <1>0, <1>4, LoadElfStep, LoadSegmentsStep, ProtectSegmentsStep, BuildInitialStackStep
  <1>5. ASSUME NEW t \in Threads, LoadHeap(t) \/ AdoptImage(t) \/ ReleasePrevious(t) PROVE Preserves
    BY <1>0, <1>5, LoadHeapStep, AdoptImageStep, ReleasePreviousStep
  <1> QED BY <1>1, <1>2, <1>3, <1>4, <1>5 DEF ProgramsNext

\* Types and books, for the memory calls and execve together.
THEOREM ProgramsBooks == ProgramsSpec => []BooksInv
  <1>1. BooksInv /\ [ProgramsNext]_programVars => BooksInv'
    BY ProgramsStep DEF Preserves
  <1> QED BY <1>1, BooksInit, PTL DEF ProgramsSpec

\* No host page is lost by any sequence of mmap, munmap, mremap, brk, shmdt and
\* execve steps of any threads: one that nothing is committed in is free.
THEOREM CallsLeakNothing == ProgramsSpec => []NothingLeaked
  <1>1. BooksInv => NothingLeaked
    BY DEF BooksInv, Booked
  <1> QED BY <1>1, ProgramsBooks, PTL

\* Nor is a page that some call committed ever on the free list.
THEOREM CallsKeepFreeUncommitted == ProgramsSpec => []FreeIsUncommitted
  <1>1. BooksInv => FreeIsUncommitted
    BY DEF BooksInv, Booked
  <1> QED BY <1>1, ProgramsBooks, PTL

\* Who owns which page: the mappings, the heap's reserve, the segments, the stack
\* and what a call is about to take or give back are apart, and what is owned is
\* committed and accessible.
THEOREM ProgramsOwnership == Careful => (ProgramsSpec => []OwnInv)
  <1>1. Careful /\ OwnInv /\ [ProgramsNext]_programVars => OwnInv'
    <2>1. OwnInv => BooksInv
      BY DEF OwnInv
    <2> QED BY <2>1, ProgramsStep DEF Preserves
  <1>2. CASE Careful
    <2>1. OwnInv /\ [ProgramsNext]_programVars => OwnInv'
      BY <1>1, <1>2
    <2> QED BY <2>1, OwnInit, PTL DEF ProgramsSpec
  <1> QED BY <1>2

\* What the guest was given it can use until it gives it up (mmap, munmap,
\* mprotect, mremap, brk, shmat and execve steps of any threads, as long as one
\* thread of the program moves the break and no program execs after its heap gave
\* up reserve: without either, the code does lose pages of a live mapping).
THEOREM CallsKeepHeldUsable == Careful => (ProgramsSpec => []HeldIsUsable)
  <1>1. OwnInv => HeldIsUsable
    BY DEF OwnInv, LandsInv
  <1>2. CASE Careful
    <2>1. ProgramsSpec => []OwnInv
      BY <1>2, ProgramsOwnership
    <2> QED BY <1>1, <2>1, PTL
  <1> QED BY <1>2

\* No call of any thread writes to pages the host maps to a file, as long as every
\* view that is made has a slot to be remembered in (SlotsSuffice) and under the two
\* conditions above.  The views are noted, so ReplaceSharedMappingsIn finds what it
\* has to take out, and no call gets pages that were not taken out.
THEOREM CallsNeverFaultOnViews == Careful => (ProgramsSpec /\ []SlotsSuffice => []CallsNeverFault)
  <1>1. OwnInv => BooksInv
    BY DEF OwnInv
  <1>2. OwnInv /\ FilesInv /\ SlotsSuffice /\ [ProgramsNext]_programVars => FilesInv'
    BY <1>1, ProgramsStep DEF Preserves
  <1>3. FilesInv => CallsNeverFault
    BY DEF FilesInv
  <1>4. CASE Careful
    <2>1. ProgramsSpec => []OwnInv
      BY <1>4, ProgramsOwnership
    <2> QED BY <1>2, <1>3, <2>1, FilesInit, PTL DEF ProgramsSpec
  <1> QED BY <1>4
=============================================================================
