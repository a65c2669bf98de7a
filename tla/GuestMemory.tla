---------------------------- MODULE GuestMemory ----------------------------
(***************************************************************************)
(* The guest's address space: class GuestAddressSpace of guest_memory.cpp. *)
(*                                                                         *)
(* The arena is a row of guest pages (4KB), and K of them make one host    *)
(* page (16KB).  The host maps, protects and hands out memory by the host  *)
(* page; the guest names it by the guest page.  Every operation below      *)
(* holds mutex_ from beginning to end, so each one is a single step.       *)
(*                                                                         *)
(* The two sorted vectors of the code are kept by the page: free_ is the   *)
(* set of pages it covers, committed_ gives every page the epoch,          *)
(* protection and written flag of the range that covers it, epoch 0        *)
(* meaning that none does, as EpochAt answers.  Coalesce runs after every  *)
(* change of committed_, so a range of the code is a longest run of        *)
(* neighbouring pages that agree on all three.                             *)
(***************************************************************************)
EXTENDS Integers, FiniteSets

CONSTANTS
    NPages,      \* guest pages in the arena
    K,           \* guest pages in a host page
    LowPages,    \* guest pages in the lowest 64KB (kLowestUsable)
    Floor,       \* SetAllocationFloor, as a page number; 0 means anywhere
    Prots,       \* the protections callers ask for
    Refusals,    \* which host calls may fail: a subset of {"mmap", "mprotect"}
    MaxEpoch,    \* bound: mappings ever made
    Sizes,       \* bound: the sizes asked for without an address
    Hints,       \* bound: the hints given with them
    StorePages,  \* bound: the pages guest code stores to
    CopySpans    \* bound: the spans a fork copies

ASSUME ArenaAssumption ==
    /\ NPages \in Nat /\ K \in Nat \ {0} /\ LowPages \in 0..NPages
    /\ NPages % K = 0 /\ LowPages = K * (LowPages \div K) /\ Floor \in 0..NPages
    /\ Prots \subseteq SUBSET {"R", "W", "X"}
    /\ Refusals \subseteq {"mmap", "mprotect"}
    /\ MaxEpoch \in Nat /\ StorePages \subseteq 0..(NPages - 1)
    /\ Sizes \subseteq 1..NPages /\ Hints \subseteq 0..(NPages - 1)
    /\ CopySpans \subseteq SUBSET (0..(NPages - 1))

VARIABLES
    free,        \* free_
    epoch,       \* committed_[..].epoch, by page
    prot,        \* committed_[..].protection, by page
    written,     \* the pages of the ranges marked written
    nextEpoch,   \* next_epoch_
    bytes,       \* what the page holds: "zero", or "data" some owner left
    open,        \* the pages the host lets anyone touch (not PROT_NONE)
    copy,        \* what a fork holds on its parent's behalf, and still owes
    filling      \* a fork is still copying its parent's memory into the arena

books == <<free, epoch, prot, written, nextEpoch>>
vars == <<free, epoch, prot, written, nextEpoch, bytes, open, copy, filling>>

Page == 0..(NPages - 1)
Low == 0..(LowPages - 1)
NoCopy == [pages |-> {}, epoch |-> 0, intact |-> TRUE]

(***************************************************************************)
(* Rounding to host pages.                                                 *)
(***************************************************************************)
HostPage == [p \in Page |-> {q \in Page : q \div K = p \div K}]
Outward(S) == UNION {HostPage[p] : p \in S}
Inward(S) == {p \in S : HostPage[p] \subseteq S}
AlignUp(n) == ((n + K - 1) \div K) * K
AlignDown(n) == (n \div K) * K

Committed == {p \in Page : epoch[p] # 0}

(***************************************************************************)
(* MapFreshAnonymous over a set of pages, as a change of bytes and open:   *)
(* an mmap that fails leaves both as they are.                             *)
(***************************************************************************)
Zeroed(S, ok) == [p \in Page |-> IF p \in S /\ ok # "mmap" THEN "zero" ELSE bytes[p]]
Closed(S, ok) == IF ok = "mmap" THEN open ELSE open \ S
Outcomes == {"ok"} \cup Refusals

(***************************************************************************)
(* RecordCommitted(S, pr): the newcomer takes the pages, with a new epoch. *)
(* e gives the epoch of each of them.                                      *)
(***************************************************************************)
RecordCommitted(S, pr, e, count) ==
    /\ epoch' = [p \in Page |-> IF p \in S THEN e[p] ELSE epoch[p]]
    /\ prot' = [p \in Page |-> IF p \in S THEN pr ELSE prot[p]]
    /\ written' = IF "W" \in pr THEN written \cup S ELSE written \ S
    /\ nextEpoch' = nextEpoch + count
    /\ copy' = [copy EXCEPT !.intact = @ /\ copy.pages \cap S = {}]

\* Mutant of CommitFree: a refused commit is recorded before it is given back.
CommitRecordedFirst(S, pr, ok) ==
    /\ nextEpoch < MaxEpoch
    /\ bytes' = Zeroed(S, ok)
    /\ free' = IF ok = "mprotect" THEN free ELSE free \ S
    /\ open' = open \cup S
    /\ RecordCommitted(S, pr, [p \in Page |-> nextEpoch], 1)

(***************************************************************************)
(* CommitRange over whole free host pages, then RecordCommitted: the part  *)
(* Allocate and the first half of CommitFixed share.  A refused mprotect   *)
(* comes after the fresh mapping, and the extent goes back.                *)
(***************************************************************************)
CommitFree(S, pr, ok) ==
    /\ nextEpoch < MaxEpoch
    /\ bytes' = Zeroed(S, ok)
    /\ IF ok = "mprotect"
       THEN /\ open' = open \ S
            /\ UNCHANGED <<books, copy>>
       ELSE /\ free' = free \ S
            /\ open' = open \cup S
            /\ RecordCommitted(S, pr, [p \in Page |-> nextEpoch], 1)

(***************************************************************************)
(* Where Allocate looks: at the hint if those pages are free, else first   *)
(* fit above the floor, else first fit.                                    *)
(***************************************************************************)
NoHint == -1
Fits(s, len) == s..(s + len - 1) \subseteq free
FirstFit(len, from) == {s \in from..(NPages - 1) : Fits(s, len) /\ \A t \in from..(s - 1) : ~Fits(t, len)}
Placement(len, hint) ==
    IF hint # NoHint /\ AlignDown(hint) + len <= NPages /\ Fits(AlignDown(hint), len) THEN {AlignDown(hint)}
    ELSE LET above == FirstFit(len, AlignUp(Floor)) IN
         IF above # {} THEN above ELSE FirstFit(len, 0)

(***************************************************************************)
(* Allocate(size, hint, protection).  Without a placement it returns 0 and *)
(* changes nothing, so such calls are left out.                            *)
(***************************************************************************)
Allocate(n, hint, pr, ok) ==
    \E s \in Placement(AlignUp(n), hint) : CommitFree(s..(s + AlignUp(n) - 1), pr, ok)

(***************************************************************************)
(* CommitFixed over pages S.  What is not committed of the host pages S    *)
(* touches is committed, one RecordCommitted for each gap, and everything  *)
(* in them is then protected: ProtectLocked is called with bounds that are *)
(* already host pages, so every page counts as wholly inside.              *)
(***************************************************************************)
GapStarts(S) == {p \in S \ Committed : p - 1 \notin S \/ p - 1 \in Committed}
InGap(s, p) == s <= p /\ s..p \cap Committed = {}
GapEpoch(S, refused, p) ==
    nextEpoch + Cardinality({s \in GapStarts(S) \ refused : s <= p}) - 1

\* Mutant of CommitPartly: the whole span is mapped afresh, neighbours and all.
CommitOverNeighbours(S, pr, refused, ok) ==
    LET gaps == S \ Committed IN
    /\ nextEpoch < MaxEpoch /\ refused = {} /\ gaps # {}
    /\ free' = free \ gaps
    /\ epoch' = [p \in Page |-> IF p \in gaps THEN nextEpoch ELSE epoch[p]]
    /\ prot' = [p \in Page |-> IF p \in S THEN pr ELSE prot[p]]
    /\ written' = written \cup S
    /\ nextEpoch' = nextEpoch + 1
    /\ bytes' = Zeroed(S, ok)
    /\ open' = open \cup S
    /\ UNCHANGED copy

CommitPartly(S, pr, refused, ok) ==
    LET gaps == S \ Committed
        taken == {p \in gaps : \E s \in GapStarts(S) \ refused : InGap(s, p)}
        whole == {p \in gaps : HostPage[p] \subseteq gaps}
        count == Cardinality(GapStarts(S) \ refused)
        touched == (S \cap Committed) \cup taken
    IN  /\ nextEpoch + count <= MaxEpoch
        /\ free' = free \ gaps
        /\ epoch' = [p \in Page |-> IF p \in taken THEN GapEpoch(S, refused, p) ELSE epoch[p]]
        /\ prot' = [p \in Page |-> IF p \in touched THEN pr ELSE prot[p]]
        /\ written' = IF "W" \in pr THEN written \cup touched ELSE written
        /\ nextEpoch' = nextEpoch + count
        /\ bytes' = Zeroed(whole, ok)
        /\ open' = (open \ (whole \ taken)) \cup Outward(taken) \cup (IF "W" \in pr /\ touched # {} THEN S ELSE {})
        /\ copy' = [copy EXCEPT !.intact = @ /\ copy.pages \cap taken = {}]

CommitFixed(S, pr, ok) ==
    LET span == Outward(S) IN
    IF span \subseteq free THEN CommitFree(span, pr, ok)
    ELSE \E refused \in (IF ok = "mprotect" THEN SUBSET GapStarts(span) ELSE {{}}) :
            CommitPartly(span, pr, refused, ok)

(***************************************************************************)
(* Release(S): clipped out of the committed ranges by the guest page; the  *)
(* host pages it touches that nothing is committed in any more are mapped  *)
(* afresh and go back on the free list.                                    *)
(***************************************************************************)
\* Mutants of Vacated: released by the guest page; rounded inward, so a host
\* page given up in pieces never comes back.
VacatedByGuestPage(S) == S
VacatedInward(S) == {p \in Inward(S) : HostPage[p] \cap Committed \subseteq S}
Vacated(S) == {p \in Outward(S) : HostPage[p] \cap Committed \subseteq S}

Release(S, ok) ==
    /\ epoch' = [p \in Page |-> IF p \in S THEN 0 ELSE epoch[p]]
    /\ prot' = [p \in Page |-> IF p \in S THEN {} ELSE prot[p]]
    /\ written' = written \ S
    /\ free' = free \cup Vacated(S)
    /\ bytes' = Zeroed(Vacated(S), ok)
    /\ open' = Closed(Vacated(S), ok)
    /\ copy' = [copy EXCEPT !.intact = @ /\ copy.pages \cap (S \cap Committed) = {}]
    /\ UNCHANGED nextEpoch

(***************************************************************************)
(* Protect(S, pr).  The part of a range inside the rounded request gets    *)
(* what was asked if all of it lies in the host pages wholly inside the    *)
(* request; otherwise it keeps what it had, widened.                       *)
(***************************************************************************)
SameRange(p, q) == epoch[p] = epoch[q] /\ prot[p] = prot[q] /\ (p \in written <=> q \in written)
RangeOf(p) == {q \in Committed : \A r \in (p..q) \cup (q..p) : SameRange(p, r)}

\* Mutant of ProtectedAs: the whole rounded request gets what was asked.
ProtectedExactly(S, pr, p) == pr

ProtectedAs(S, pr, p) ==
    IF RangeOf(p) \cap Outward(S) \subseteq Inward(S) THEN pr ELSE prot[p] \cup pr

Protect(S, pr) ==
    LET touched == Outward(S) \cap Committed IN
    /\ touched # {}
    /\ prot' = [p \in Page |-> IF p \in touched THEN ProtectedAs(S, pr, p) ELSE prot[p]]
    /\ written' = IF "W" \in pr THEN written \cup touched ELSE written
    /\ open' = IF "W" \in pr THEN open \cup Outward(S) ELSE open
    /\ UNCHANGED <<free, epoch, nextEpoch, bytes, copy>>

(***************************************************************************)
(* AdoptCopiedMapping: CopyAddressSpace has remapped another process's     *)
(* pages here; they are taken from the free list or refused altogether.    *)
(* That is over before the arena's first program runs.                     *)
(***************************************************************************)
AdoptCopiedMapping(S, pr, wasWritten) ==
    /\ filling
    /\ nextEpoch < MaxEpoch
    /\ S \subseteq free
    /\ free' = free \ S
    /\ epoch' = [p \in Page |-> IF p \in S THEN nextEpoch ELSE epoch[p]]
    /\ prot' = [p \in Page |-> IF p \in S THEN pr ELSE prot[p]]
    /\ written' = IF wasWritten /\ "W" \in pr THEN written \cup S ELSE written
    /\ nextEpoch' = nextEpoch + 1
    /\ bytes' = [p \in Page |-> IF p \in S THEN "data" ELSE bytes[p]]
    /\ open' = open \cup S
    /\ UNCHANGED <<copy, filling>>

(***************************************************************************)
(* DropPages(S): the host pages wholly inside, mapped afresh and opened.   *)
(***************************************************************************)
DropPages(S, ok) ==
    /\ Inward(S) # {}
    /\ bytes' = Zeroed(Inward(S), ok)
    /\ open' = CASE ok = "mmap" -> open
                 [] ok = "mprotect" -> open \ Inward(S)
                 [] OTHER -> open \cup Inward(S)
    /\ UNCHANGED <<books, copy>>

(***************************************************************************)
(* A store by guest code: it faults unless the host lets the page be       *)
(* written, whatever protection is recorded for it.                        *)
(***************************************************************************)
GuestStore(p) ==
    /\ p \in Committed \cap open
    /\ bytes' = [bytes EXCEPT ![p] = "data"]
    /\ UNCHANGED <<books, open, copy>>

(***************************************************************************)
(* A fork's copy of a writable piece of one range (WritableRangesIn), and  *)
(* putting it back (RestoreIfUnchanged): every page of it must still be    *)
(* committed, in the epoch the copy was taken from, and writable.  intact  *)
(* is a history of what really happened: that no page of the copy has been *)
(* released or mapped anew since.                                          *)
(***************************************************************************)
TakeCopy(S) ==
    /\ copy = NoCopy
    /\ S \subseteq Committed /\ S # {}
    /\ \A p, q \in S : SameRange(p, q) /\ "W" \in prot[p]
    /\ copy' = [pages |-> S, epoch |-> epoch[CHOOSE p \in S : TRUE], intact |-> TRUE]
    /\ UNCHANGED <<books, bytes, open>>

\* Mutant of RestorePermitted: committed and writable is enough.
RestoreIfWritable == \A p \in copy.pages : epoch[p] # 0 /\ "W" \in prot[p]

RestorePermitted == \A p \in copy.pages : epoch[p] = copy.epoch /\ "W" \in prot[p]

RestoreIfUnchanged(ok) ==
    /\ copy # NoCopy
    /\ IF RestorePermitted /\ ok # "mprotect"
       THEN /\ bytes' = [p \in Page |-> IF p \in copy.pages THEN "data" ELSE bytes[p]]
            /\ open' = open \cup Outward(copy.pages)
       ELSE UNCHANGED <<bytes, open>>
    /\ copy' = NoCopy
    /\ UNCHANGED books

(***************************************************************************)
(* What callers pass.  Every caller that commits memory adds write         *)
(* permission to what the guest asked for (DoMmap, LoadElf, DoShmget,      *)
(* BuildInitialStack).  CopyAddressSpace copies whole host pages, and      *)
(* CommitFixed rounds to them before it does anything else.                *)
(***************************************************************************)
Spans == {a..b : a, b \in Page} \ {{}}
HostSpans == {S \in Spans : Outward(S) = S}
CommitProts == {pr \cup {"W"} : pr \in Prots}

Init ==
    /\ free = Page \ Low
    /\ epoch = [p \in Page |-> 0]
    /\ prot = [p \in Page |-> {}]
    /\ written = {}
    /\ nextEpoch = 1
    /\ bytes = [p \in Page |-> "zero"]
    /\ open = {}
    /\ copy = NoCopy
    /\ filling \in BOOLEAN

Allocates == \E n \in Sizes, hint \in {NoHint} \cup Hints, pr \in CommitProts, ok \in Outcomes : Allocate(n, hint, pr, ok)
CommitsFixed == \E S \in HostSpans, pr \in CommitProts, ok \in Outcomes : CommitFixed(S, pr, ok)
Releases == \E S \in Spans, ok \in {"ok"} \cup (Refusals \cap {"mmap"}) : Release(S, ok)
Protects == \E S \in Spans, pr \in Prots : Protect(S, pr)
Adopts == \E S \in HostSpans, pr \in Prots, w \in BOOLEAN : AdoptCopiedMapping(S, pr, w)
Drops == \E S \in Spans, ok \in Outcomes : S \subseteq Committed /\ DropPages(S, ok)
Stores == \E p \in StorePages : GuestStore(p)
TakesCopy == \E S \in CopySpans : TakeCopy(S)
Restores == \E ok \in Outcomes \ {"mmap"} : RestoreIfUnchanged(ok)

Filled == filling /\ filling' = FALSE /\ UNCHANGED <<books, bytes, open, copy>>

Running == ~filling /\ UNCHANGED filling

Next ==
    \/ Adopts
    \/ Filled
    \/ Running /\ Allocates
    \/ Running /\ CommitsFixed
    \/ Running /\ Releases
    \/ Running /\ Protects
    \/ Running /\ Drops
    \/ Running /\ Stores
    \/ Running /\ TakesCopy
    \/ Running /\ Restores

Spec == Init /\ [][Next]_vars

-----------------------------------------------------------------------------
TypeOK ==
    /\ free \subseteq Page
    /\ epoch \in [Page -> Nat]
    /\ prot \in [Page -> SUBSET {"R", "W", "X"}]
    /\ written \subseteq Page
    /\ nextEpoch \in Nat \ {0}
    /\ bytes \in [Page -> {"zero", "data"}]
    /\ open \subseteq Page
    /\ copy \in [pages : SUBSET Page, epoch : Nat, intact : BOOLEAN]
    /\ filling \in BOOLEAN

\* The free list never holds memory the committed list also holds, whatever
\* mix of fixed commits, partial releases and adopted copies came before:
\* otherwise the arena hands a page to a second program while its first owner
\* is still running there (RecordCommitted's warning never fires).
FreeIsUncommitted == free \cap Committed = {}

\* The free list only ever holds whole host pages, although releases come by
\* the guest page: a piece of one handed out on its own would share its host
\* page, and the host's mmap and mprotect calls on it, with a live neighbour.
FreeIsWholeHostPages == Outward(free) = free

\* Release and the partly committed case of CommitFixed never lose a host
\* page: when nothing is committed in one any more it is on the free list
\* (above the lowest 64KB), even if its guest pages were released one by one.
NothingLeaked == \A p \in Page \ Low : (\A q \in HostPage[p] : epoch[q] = 0) => p \in free

\* A fork's copy is put back only if no page of it was released or mapped anew
\* since it was taken: an epoch is never reused, so RestoreIfUnchanged's check
\* cannot be fooled by an address that was freed and handed out again.
RestoreOnlyIntact == RestorePermitted /\ copy # NoCopy => copy.intact

\* Mapping over host pages zeroes them, and the arena does it while committing
\* and while releasing: no byte of a page that stays in the same mapping is
\* ever wiped by an operation on its neighbours.
WipesNothingLive ==
    [][books' # books => \A p \in Committed : epoch'[p] = epoch[p] => bytes'[p] = bytes[p]]_vars

\* A protection request never takes access away from guest pages it does not
\* name, although it is applied by the host page: a loader marking its
\* relocated data read-only must not strip the segment that follows.
NeighboursKeepAccess ==
    \A S \in Spans, pr \in Prots :
        \A p \in (Outward(S) \cap Committed) \ S : prot[p] \subseteq ProtectedAs(S, pr, p)

\* The lowest 64KB is never handed out (guest_memory.cpp:41): a null pointer
\* must fault.
\* Not kept: releasing pages there puts them on the free list.
LowNeverHandedOut ==
    [][Allocates => \A p \in Low : epoch'[p] = epoch[p]]_vars
=============================================================================
