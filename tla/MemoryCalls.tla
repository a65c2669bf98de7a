---------------------------- MODULE MemoryCalls ----------------------------
(***************************************************************************)
(* The guest's memory calls over its arena: mmap, munmap, mprotect,        *)
(* mremap, brk and the System V segments (DoMmap, ShrinkHeapBelow, DoBrk,  *)
(* DoShmget..DoShmctl and the Dispatch cases of linux_syscalls.cpp).       *)
(*                                                                         *)
(* Each call is a sequence of operations of GuestMemory with work of its   *)
(* own between them, and only the operations are under the arena's lock:   *)
(* a step below is one of them, and other threads' steps come in between.  *)
(* The segment calls are one step each, under g_shared_memory_mutex.       *)
(*                                                                         *)
(* A file is mapped shared by a host mmap over the arena's pages.  Such    *)
(* pages cannot be written here (a read-only file), which is the case      *)
(* ReplaceSharedMappingsIn is there for, and are mapped from offsets that  *)
(* fall on a host page.  bytes says "data" for a file's contents as well   *)
(* as for what the guest stored.                                           *)
(***************************************************************************)
EXTENDS GuestMemory, Sequences

CONSTANTS
    Threads,      \* the threads of the process
    HeapThreads,  \* the ones that call brk or mmap with a hint
    HeapPages,    \* kHeapReservation; the first program's heap is 0..HeapPages - 1
    Image,        \* the host pages LoadElf put the first program's data in
    MaxSlots,     \* kSharedMappingSlots
    FileLength,   \* the pages the mapped file has
    Placed,       \* the pages guests give addresses in, which no allocation spills into
    Requests,     \* bound: the kinds of mapping asked for, each with its protection
    MaxCalls      \* bound: calls made

ASSUME CallsAssumption ==
    /\ HeapThreads \subseteq Threads
    /\ HeapPages \in 0..NPages /\ HeapPages % K = 0
    /\ MaxSlots \in Nat /\ FileLength \in Nat \ {0} /\ MaxCalls \in Nat
    /\ Requests \subseteq [kind : {"anon", "file", "shared"}, prot : SUBSET {"R", "W", "X"}]
    /\ Placed \subseteq 0..(NPages - 1) /\ Image \subseteq Placed /\ Outward(Image) = Image
    /\ Image \cap 0..(HeapPages - 1) = {} /\ CopySpans \subseteq Spans

VARIABLES
    held,      \* what the guest has each page as: the answers it was given
    live,      \* the pages the host maps to a file
    slots,     \* g_shared_mappings
    heap,      \* heap_base, heap_break and heap_limit, as pages
    segments,  \* g_shared_segments
    call,      \* the call each thread is in
    faulted,   \* a call wrote to a page the host would not let it write
    made       \* calls made so far

callVars == <<held, live, slots, heap, segments, call, faulted, made>>
allVars == <<vars, callVars>>
arena == <<books, bytes, open, copy>>
Idle == [at |-> "idle", pages |-> {}, n |-> 0, hint |-> NoHint, kind |-> "none", prot |-> {},
         stale |-> {}, from |-> 0, limit |-> 0]
Busy == UNION {call[t].pages : t \in Threads}
Heap == 0..(HeapPages - 1)
Reserve == heap.base..(heap.limit - 1)

CallsInit ==
    /\ free = Page \ (Low \cup Heap \cup Image)
    /\ epoch = [p \in Page |-> IF p \in Heap THEN 1 ELSE IF p \in Image THEN 2 ELSE 0]
    /\ prot = [p \in Page |-> IF p \in Heap \cup Image THEN {"R", "W"} ELSE {}]
    /\ written = Heap \cup Image /\ nextEpoch = 3
    /\ bytes = [p \in Page |-> IF p \in Image THEN "data" ELSE "zero"]
    /\ open = Heap \cup Image
    /\ copy = NoCopy /\ filling = FALSE
    /\ held = [p \in Page |-> IF p \in Image THEN "file" ELSE "none"]
    /\ live = {} /\ slots = <<>>
    /\ heap = [base |-> 0, break |-> 0, limit |-> HeapPages]
    /\ segments = <<>>
    /\ call = [t \in Threads |-> Idle]
    /\ faulted = FALSE /\ made = 0

(***************************************************************************)
(* A thread begins a call, goes on with it, and comes back.                *)
(***************************************************************************)
Begin(t, c) ==
    /\ made < MaxCalls /\ call[t] = Idle
    /\ made' = made + 1
    /\ call' = [call EXCEPT ![t] = c]
At(t, where) == call[t].at = where /\ UNCHANGED made
GoOn(t, c) == call' = [call EXCEPT ![t] = c]
Back(t) == GoOn(t, Idle)
Holding(S, kind) == held' = [p \in Page |-> IF p \in S THEN kind ELSE held[p]]
Fresh(S) == live' = live \ S
Writes(S) == faulted' = (faulted \/ S \cap live # {})

(***************************************************************************)
(* ReplaceSharedMappingsIn(S): of every slot that meets S, the host pages  *)
(* of the meeting become anonymous memory with the same bytes, open to     *)
(* reading and writing.  The slot is given up if that was all of it.       *)
(***************************************************************************)
\* Mutant of Replaced: only host pages wholly inside are taken out.
ReplacedInward(S, slot) == IF slot.inUse THEN Inward(S \cap slot.pages) ELSE {}
Replaced(S, slot) == IF slot.inUse THEN Outward(S \cap slot.pages) \cap slot.pages ELSE {}

ReplaceSharedMappingsIn(S) ==
    LET all == UNION {Replaced(S, slots[i]) : i \in DOMAIN slots} IN
    /\ live' = live \ all
    /\ open' = open \cup all
    /\ slots' = [i \in DOMAIN slots |->
                    [slots[i] EXCEPT !.inUse = @ /\ ~(slots[i].pages \subseteq Replaced(S, slots[i]))]]

(***************************************************************************)
(* DoMmap with MAP_FIXED: what is committed there already is noted, shared *)
(* pages are replaced, the range is committed.  Guests place mappings over *)
(* their own, or where they know nobody else does: not in what the heap    *)
(* has in reserve.                                                         *)
(***************************************************************************)
Mapped == {"anon", "file", "shared", "moved"}
OwnRange(S) == S \cap Busy = {} /\ \A p \in S : held[p] \in Mapped
MayPlace(S) == S \cap Busy = {} /\ \A p \in S : held[p] \in Mapped \/ (held[p] = "none" /\ p \in Placed \ Reserve)

MmapFixed(t, S, kind, pr) ==
    /\ Begin(t, [Idle EXCEPT !.at = "commit", !.pages = S, !.kind = kind, !.prot = pr,
                             !.stale = IF kind = "anon" THEN S \cap Committed ELSE {}])
    /\ MayPlace(S)
    /\ kind = "shared" => Outward(S) = S
    /\ ReplaceSharedMappingsIn(S)
    /\ Holding(S, "none")
    /\ UNCHANGED <<books, bytes, copy, heap, segments, faulted>>

MmapCommit(t) ==
    LET S == call[t].pages IN
    /\ At(t, "commit")
    /\ CommitFixed(S, call[t].prot \cup {"W"}, "ok")
    /\ Fresh({p \in Outward(S) : HostPage[p] \cap Committed = {}})
    /\ GoOn(t, [call[t] EXCEPT !.at = "fill"])
    /\ UNCHANGED <<held, slots, heap, segments, faulted>>

(***************************************************************************)
(* DoMmap without MAP_FIXED.  A hint first makes the heap give up its      *)
(* reserve from there on (ShrinkHeapBelow), reading the break and the      *)
(* limit with no lock.                                                     *)
(***************************************************************************)
MmapAnywhere(t, n, hint, kind, pr) ==
    LET usedEnd == AlignUp(heap.break)
        gives == hint # NoHint /\ hint >= usedEnd /\ hint < heap.limit
        from == IF AlignDown(hint) > usedEnd THEN AlignDown(hint) ELSE usedEnd
        c == [Idle EXCEPT !.n = n, !.hint = hint, !.kind = kind, !.prot = pr]
    IN  /\ hint # NoHint => t \in HeapThreads
        /\ Begin(t, IF gives THEN [c EXCEPT !.at = "shrink", !.from = from, !.limit = heap.limit]
                             ELSE [c EXCEPT !.at = "alloc"])
        /\ UNCHANGED <<arena, held, live, slots, heap, segments, faulted>>

ShrinkHeapBelow(t) ==
    LET c == call[t] S == c.from..(c.limit - 1) IN
    /\ At(t, "shrink")
    /\ Release(S, "ok")
    /\ Fresh(Vacated(S))
    /\ heap' = [heap EXCEPT !.limit = @ - (c.limit - c.from)]
    /\ GoOn(t, [c EXCEPT !.at = "alloc", !.from = 0, !.limit = 0])
    /\ UNCHANGED <<held, slots, segments, faulted>>

Room(n, hint) == {s \in Placement(AlignUp(n), hint) : s..(s + AlignUp(n) - 1) \cap Placed = {}}

MmapAllocate(t) ==
    LET c == call[t] len == AlignUp(c.n) IN
    /\ At(t, "alloc")
    /\ IF Placement(len, c.hint) = {}
       THEN Back(t) /\ UNCHANGED <<arena, live>>
       ELSE \E s \in Room(c.n, c.hint) :
                /\ CommitFree(s..(s + len - 1), c.prot \cup {"W"}, "ok")
                /\ Fresh(s..(s + len - 1))
                /\ GoOn(t, [c EXCEPT !.at = "fill", !.pages = s..(s + c.n - 1), !.n = 0, !.hint = NoHint])
    /\ UNCHANGED <<held, slots, heap, segments, faulted>>

(***************************************************************************)
(* The end of DoMmap: contents, protection, answer.                        *)
(***************************************************************************)
Answer(t) ==
    LET c == call[t] IN
    IF "W" \in c.prot THEN Back(t) /\ Holding(c.pages, c.kind)
    ELSE GoOn(t, [c EXCEPT !.at = "protect", !.stale = {}]) /\ UNCHANGED held

(***************************************************************************)
(* An anonymous mapping: whole host pages inside a stale piece are mapped  *)
(* afresh (DropPages); the rest of the host pages a stale piece touches,   *)
(* and the host pages the mapping starts or ends inside, are zeroed by     *)
(* hand as far as the mapping goes.                                        *)
(***************************************************************************)
\* Mutants of ByHand: what was committed before, and not the ends; the host
\* pages' parts outside the mapping too.
ByHandOutward(S, stale) == Outward(S) \ Inward(stale)
ByHandStale(S, stale) == stale \ Inward(stale)
ByHand(S, stale) == {p \in S : HostPage[p] \cap stale # {} \/ ~(HostPage[p] \subseteq S)} \ Inward(stale)

MmapZero(t) ==
    LET S == call[t].pages
        dropped == Inward(call[t].stale)
        byHand == ByHand(S, call[t].stale)
    IN  /\ At(t, "fill") /\ call[t].kind = "anon"
        /\ bytes' = [p \in Page |-> IF p \in dropped \cup byHand THEN "zero" ELSE bytes[p]]
        /\ open' = open \cup dropped
        /\ Fresh(dropped)
        /\ Writes(byHand)
        /\ Answer(t)
        /\ UNCHANGED <<books, copy, slots, heap, segments>>

(***************************************************************************)
(* A file's contents are read in as far as the file goes.                  *)
(***************************************************************************)
First(S, n) == {p \in S : Cardinality({q \in S : q < p}) < n}

MmapRead(t) ==
    LET S == First(call[t].pages, FileLength) IN
    /\ At(t, "fill") /\ call[t].kind = "file"
    /\ bytes' = [p \in Page |-> IF p \in S THEN "data" ELSE bytes[p]]
    /\ Writes(S)
    /\ Answer(t)
    /\ UNCHANGED <<books, open, copy, live, slots, heap, segments>>

(***************************************************************************)
(* MAP_SHARED, or a private mapping of a file that is written through a    *)
(* shared one: the host maps whole host pages of the file, never past its  *)
(* last, and a slot remembers them while there are slots.  This path       *)
(* returns without the call to Protect.                                    *)
(***************************************************************************)
Noted(mapped) == IF Len(slots) < MaxSlots THEN Append(slots, [pages |-> mapped, inUse |-> TRUE]) ELSE slots

MmapShare(t) ==
    LET S == call[t].pages
        mapped == Outward(First(Outward(S), FileLength))
    IN  /\ At(t, "fill") /\ call[t].kind = "shared"
        /\ live' = live \cup mapped
        /\ bytes' = [p \in Page |-> IF p \in mapped THEN "data" ELSE bytes[p]]
        /\ slots' = Noted(mapped)
        /\ Holding(S, "shared") /\ Back(t)
        /\ UNCHANGED <<books, open, copy, heap, segments, faulted>>

MmapProtect(t) ==
    /\ At(t, "protect")
    /\ Protect(call[t].pages, call[t].prot)
    /\ Holding(call[t].pages, call[t].kind)
    /\ Back(t)
    /\ UNCHANGED <<live, slots, heap, segments, faulted>>

(***************************************************************************)
(* munmap and mprotect.                                                    *)
(***************************************************************************)
Munmap(t, S) ==
    /\ Begin(t, [Idle EXCEPT !.at = "release", !.pages = S])
    /\ OwnRange(S)
    /\ ReplaceSharedMappingsIn(S)
    /\ Holding(S, "none")
    /\ UNCHANGED <<books, bytes, copy, heap, segments, faulted>>

ReleasePages(t) ==
    LET S == call[t].pages IN
    /\ At(t, "release")
    /\ Release(S, "ok")
    /\ Fresh(Vacated(S))
    /\ Back(t)
    /\ UNCHANGED <<held, slots, heap, segments, faulted>>

Mprotect(t, S, pr) ==
    /\ Begin(t, Idle)
    /\ OwnRange(S) /\ Outward(S) \cap live = {}
    /\ Protect(S, pr)
    /\ UNCHANGED <<held, live, slots, heap, segments, faulted>>

(***************************************************************************)
(* mremap that grows and may move: new pages, a copy, zeros after it, and  *)
(* the old pages are released, with no look at the slots.                  *)
(***************************************************************************)
Mremap(t, S, n) ==
    /\ Begin(t, [Idle EXCEPT !.at = "move", !.pages = S, !.n = n])
    /\ OwnRange(S) /\ n > Cardinality(S)
    /\ \E kind \in Mapped : \A p \in S : held[p] = kind
    /\ UNCHANGED <<arena, held, live, slots, heap, segments, faulted>>

MremapAllocate(t) ==
    LET c == call[t] len == AlignUp(c.n) IN
    /\ At(t, "move")
    /\ IF Placement(len, NoHint) = {}
       THEN Back(t) /\ UNCHANGED <<arena, live>>
       ELSE \E s \in Room(c.n, NoHint) :
                /\ CommitFree(s..(s + len - 1), {"R", "W"}, "ok")
                /\ Fresh(s..(s + len - 1))
                /\ GoOn(t, [c EXCEPT !.at = "copy", !.from = s, !.limit = s + c.n])
    /\ UNCHANGED <<held, slots, heap, segments, faulted>>

MovedTo(c, p) == c.from + Cardinality({q \in c.pages : q < p})

MremapCopy(t) ==
    LET c == call[t] to == c.from..(c.limit - 1) IN
    /\ At(t, "copy")
    /\ bytes' = [p \in Page |-> IF p \notin to THEN bytes[p]
                                ELSE IF \E q \in c.pages : MovedTo(c, q) = p /\ bytes[q] = "data" THEN "data" ELSE "zero"]
    /\ Writes(to)
    /\ held' = [p \in Page |-> IF p \in to THEN "moved" ELSE IF p \in c.pages THEN "none" ELSE held[p]]
    /\ GoOn(t, [c EXCEPT !.at = "release", !.n = 0, !.from = 0, !.limit = 0])
    /\ UNCHANGED <<books, open, copy, live, slots, heap, segments>>

(***************************************************************************)
(* brk: the break is read, checked, and the pages it grows over are zeroed *)
(* before it is stored, with no lock.                                      *)
(***************************************************************************)
Brk(t, n) ==
    /\ t \in HeapThreads
    /\ heap.base + n <= heap.limit /\ heap.base + n # heap.break
    /\ Begin(t, [Idle EXCEPT !.at = "brk", !.n = heap.base + n, !.from = heap.break])
    /\ UNCHANGED <<arena, held, live, slots, heap, segments, faulted>>

BrkStore(t) ==
    LET c == call[t] S == c.from..(c.n - 1) IN
    /\ At(t, "brk")
    /\ bytes' = [p \in Page |-> IF p \in S THEN "zero" ELSE bytes[p]]
    /\ Writes(S)
    /\ heap' = [heap EXCEPT !.break = c.n]
    /\ held' = [p \in Page |-> IF p \in S THEN "heap"
                                ELSE IF p \in c.n..(c.from - 1) THEN "none" ELSE held[p]]
    /\ Back(t)
    /\ UNCHANGED <<books, open, copy, live, slots, segments>>

(***************************************************************************)
(* System V segments, each call under g_shared_memory_mutex.  A segment    *)
(* that is gone keeps its place in the sequence, for identifiers are never *)
(* reused.                                                                 *)
(***************************************************************************)
NoSegment == [pages |-> {}, attached |-> 0, removed |-> TRUE]
Exists(id) == id \in DOMAIN segments /\ segments[id] # NoSegment

Shmget(t, n) ==
    /\ Begin(t, Idle)
    /\ \E s \in Room(n, NoHint) :
        LET S == s..(s + n - 1) IN
        /\ CommitFree(s..(s + AlignUp(n) - 1), {"R", "W"}, "ok")
        /\ Fresh(s..(s + AlignUp(n) - 1))
        /\ segments' = Append(segments, [pages |-> S, attached |-> 0, removed |-> FALSE])
    /\ UNCHANGED <<held, slots, heap, faulted>>

Shmat(t, id) ==
    /\ Begin(t, Idle) /\ Exists(id)
    /\ segments' = [segments EXCEPT ![id].attached = @ + 1]
    /\ Holding(segments[id].pages, "segment")
    /\ UNCHANGED <<arena, live, slots, heap, faulted>>

\* A removed segment that nothing has attached.
Unused(segment) == segment.removed /\ segment.attached = 0

FreeIfUnused(id, segment) ==
    IF Unused(segment)
    THEN /\ Release(segment.pages, "ok") /\ Fresh(Vacated(segment.pages))
         /\ segments' = [segments EXCEPT ![id] = NoSegment]
    ELSE UNCHANGED <<arena, live>> /\ segments' = [segments EXCEPT ![id] = segment]

Shmdt(t, id) ==
    LET left == [segments[id] EXCEPT !.attached = @ - 1] IN
    /\ Begin(t, Idle) /\ Exists(id) /\ segments[id].attached > 0
    /\ FreeIfUnused(id, left)
    /\ Holding(left.pages, IF left.attached = 0 THEN "none" ELSE "segment")
    /\ UNCHANGED <<slots, heap, faulted>>

ShmctlRemove(t, id) ==
    /\ Begin(t, Idle) /\ Exists(id)
    /\ FreeIfUnused(id, [segments[id] EXCEPT !.removed = TRUE])
    /\ UNCHANGED <<held, slots, heap, faulted>>

(***************************************************************************)
(* Guest code stores to memory it holds and may write.                     *)
(***************************************************************************)
StoreHeld(p) ==
    /\ held[p] # "none" /\ p \notin Busy \cup live /\ "W" \in prot[p]
    /\ GuestStore(p)
    /\ UNCHANGED callVars

CallsNext ==
    /\ UNCHANGED filling
    /\ \/ \E p \in StorePages : StoreHeld(p)
       \/ \E t \in Threads :
            \/ \E S \in CopySpans, r \in Requests : MmapFixed(t, S, r.kind, r.prot)
            \/ \E n \in Sizes, hint \in {NoHint} \cup Hints, r \in Requests : MmapAnywhere(t, n, hint, r.kind, r.prot)
            \/ MmapCommit(t) \/ ShrinkHeapBelow(t) \/ MmapAllocate(t)
            \/ MmapZero(t) \/ MmapRead(t) \/ MmapShare(t) \/ MmapProtect(t)
            \/ \E S \in CopySpans : Munmap(t, S)
            \/ \E S \in CopySpans, pr \in Prots : Mprotect(t, S, pr)
            \/ ReleasePages(t)
            \/ \E S \in CopySpans, n \in Sizes : Mremap(t, S, n)
            \/ MremapAllocate(t) \/ MremapCopy(t)
            \/ \E n \in 0..HeapPages : Brk(t, n)
            \/ BrkStore(t)
            \/ \E n \in Sizes : Shmget(t, n)
            \/ \E id \in DOMAIN segments : Shmat(t, id) \/ Shmdt(t, id) \/ ShmctlRemove(t, id)

-----------------------------------------------------------------------------
\* What the guest was given it can use: every page of a mapping, of the heap
\* below the break and of an attached segment stays committed and accessible
\* until the guest gives it up, although memory is released and protected by
\* the host page, the heap gives up its reserve, and a removed segment goes
\* with its last attachment.
HeldIsUsable == \A p \in Page : held[p] # "none" => p \in Committed \cap open

\* What the guest sees of its pages: a segment that is attached nowhere is kept
\* for the next shmat.
IsKept(p) == \E id \in DOMAIN segments : p \in segments[id].pages
Kind == [p \in Page |-> IF held[p] # "none" THEN held[p] ELSE IF IsKept(p) THEN "kept" ELSE "none"]
Mem == [p \in Page |-> IF held[p] = "none" /\ ~IsKept(p) THEN "none" ELSE bytes[p]]
Memory == INSTANCE AddressSpace WITH kind <- Kind, mem <- Mem

\* The memory calls give the guest an address space: anonymous memory and fresh
\* heap read as zero over whatever was there before and next to whoever shares
\* the host page, mremap brings the contents along, a segment keeps its own, and
\* no call, at none of its steps, changes what another mapping holds.
IsAnAddressSpace == Memory!Spec

\* No memory call writes to pages the host still maps to a file: it would fault
\* inside the call, the fault ReplaceSharedMappingsIn is there to prevent.
CallsNeverFault == ~faulted

\* A slot names only pages that are the file's (linux_syscalls.cpp:4905): once a
\* view is unmapped, nothing placed there goes on naming futexes by the file
\* and being left out of fork snapshots.
\* Not kept: a view unmapped in part, or moved by mremap, keeps its whole slot.
SlotsNameTheFile ==
    \A i \in DOMAIN slots : slots[i].inUse => \A p \in slots[i].pages : held[p] \in {"none", "shared"}
=============================================================================
