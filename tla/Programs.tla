------------------------------ MODULE Programs ------------------------------
(***************************************************************************)
(* Loading a program over the memory of another: execve as LoadProgram,    *)
(* LoadElf and BuildInitialStack carry it out, AdoptImage, and the release *)
(* of the old program's stack and heap (fathom_runtime.cpp,                *)
(* elf_loader.cpp).                                                        *)
(*                                                                         *)
(* This is the arena 64-bit programs share, where the new program is       *)
(* loaded next to the old one and takes over when all of it is there.  The *)
(* images are position independent: a program that names its addresses has *)
(* an arena of its own, or memory outside this one.  A load that fails     *)
(* part way gives nothing back.                                            *)
(***************************************************************************)
EXTENDS MemoryCalls

CONSTANTS
    StackPages,   \* stack_size
    ImageSize,    \* the span of an image, in host pages' worth of guest pages
    ExecsShrunk   \* whether a program that made its heap give up its reserve may exec

ASSUME ProgramsAssumption ==
    /\ StackPages \in Nat \ {0} /\ StackPages % K = 0
    /\ ImageSize \in Nat \ {0} /\ ImageSize % K = 0
    /\ ExecsShrunk \in BOOLEAN

VARIABLES
    program,      \* process->program: what ReleaseProgramData will give back
    loading       \* the LoadedProgram that execve is filling in

programVars == <<allVars, program, loading>>

NoProgram == [images |-> {}, stack |-> {}, heap |-> {}]

ProgramsInit ==
    /\ CallsInit
    /\ program = [NoProgram EXCEPT !.images = Image, !.heap = Heap]
    /\ loading = NoProgram

Span(s, n) == s..(s + n - 1)
ImagesEnd == IF loading.images = {} THEN NoHint
             ELSE 1 + CHOOSE p \in loading.images : \A q \in loading.images : q <= p
ExecFails(t) == Back(t) /\ loading' = NoProgram

(***************************************************************************)
(* ExecProcess ends the other threads first: until it returns nobody else  *)
(* calls, and threads started later take their places here.  A dynamic     *)
(* program brings two images, its own and its loader's.                    *)
(***************************************************************************)
ExecProcess(t, images) ==
    /\ \A u \in Threads : call[u] = Idle
    /\ ExecsShrunk \/ heap.limit = heap.base + HeapPages
    /\ Begin(t, [Idle EXCEPT !.at = "image", !.n = images])
    /\ UNCHANGED <<arena, held, live, slots, heap, segments, faulted, program, loading>>

(***************************************************************************)
(* LoadElf: the span of all segments at once, their bytes, and then their  *)
(* protections.  The first page is code, the rest data and bss.  The file  *)
(* may be shorter than its headers say.                                    *)
(***************************************************************************)
LoadElf(t) ==
    /\ At(t, "image")
    /\ IF Placement(ImageSize, ImagesEnd) = {}
       THEN ExecFails(t) /\ UNCHANGED <<arena, live>>
       ELSE \E s \in Placement(ImageSize, ImagesEnd) :
                /\ CommitFree(Span(s, ImageSize), {"R", "W"}, "ok")
                /\ Fresh(Span(s, ImageSize))
                /\ loading' = [loading EXCEPT !.images = @ \cup Span(s, ImageSize)]
                /\ GoOn(t, [call[t] EXCEPT !.at = "segments", !.n = @ - 1, !.from = s])
    /\ UNCHANGED <<held, slots, heap, segments, faulted, program>>

LoadSegments(t) ==
    LET S == Span(call[t].from, ImageSize) IN
    /\ At(t, "segments")
    /\ bytes' = [p \in Page |-> IF p = call[t].from THEN "data" ELSE IF p \in S THEN "zero" ELSE bytes[p]]
    /\ Writes(S)
    /\ \/ GoOn(t, [call[t] EXCEPT !.at = "segprot"]) /\ UNCHANGED loading
       \/ ExecFails(t)
    /\ UNCHANGED <<books, open, copy, held, live, slots, heap, segments, program>>

ProtectSegments(t) ==
    /\ At(t, "segprot")
    /\ Protect({call[t].from}, {"R", "X"})
    /\ GoOn(t, [call[t] EXCEPT !.at = IF call[t].n > 0 THEN "image" ELSE "stack", !.from = 0])
    /\ UNCHANGED <<held, live, slots, heap, segments, faulted, program, loading>>

(***************************************************************************)
(* BuildInitialStack: the stack and a guard page below it, which is closed *)
(* again, with the arguments at its top.  It may be too small for them.    *)
(***************************************************************************)
BuildInitialStack(t) ==
    LET len == K + StackPages IN
    /\ At(t, "stack")
    /\ IF Placement(len, NoHint) = {}
       THEN ExecFails(t) /\ UNCHANGED <<arena, live>>
       ELSE \E s \in Placement(len, NoHint) :
                /\ nextEpoch < MaxEpoch
                /\ free' = free \ Span(s, len)
                /\ epoch' = [p \in Page |-> IF p \in Span(s, len) THEN nextEpoch ELSE epoch[p]]
                /\ prot' = [p \in Page |-> IF p \in Span(s, K) THEN {} ELSE IF p \in Span(s, len) THEN {"R", "W"} ELSE prot[p]]
                /\ written' = written \cup Span(s, len)
                /\ nextEpoch' = nextEpoch + 1
                /\ bytes' = [Zeroed(Span(s, len), "ok") EXCEPT ![s + len - 1] = "data"]
                /\ open' = (open \cup Span(s, len)) \ Span(s, K)
                /\ Fresh(Span(s, len))
                /\ UNCHANGED copy
                /\ \/ /\ loading' = [loading EXCEPT !.stack = Span(s + K, StackPages)]
                      /\ GoOn(t, [call[t] EXCEPT !.at = "heap"])
                   \/ ExecFails(t)
    /\ UNCHANGED <<held, slots, heap, segments, faulted, program>>

LoadHeap(t) ==
    /\ At(t, "heap")
    /\ IF Placement(HeapPages, ImagesEnd) = {}
       THEN ExecFails(t) /\ UNCHANGED <<arena, live>>
       ELSE \E s \in Placement(HeapPages, ImagesEnd) :
                /\ CommitFree(Span(s, HeapPages), {"R", "W"}, "ok")
                /\ Fresh(Span(s, HeapPages))
                /\ loading' = [loading EXCEPT !.heap = Span(s, HeapPages)]
                /\ GoOn(t, [call[t] EXCEPT !.at = "adopt", !.from = s])
    /\ UNCHANGED <<held, slots, heap, segments, faulted, program>>

(***************************************************************************)
(* The process becomes the new program (AdoptImage, InitialiseHeap).  What *)
(* the old one mapped is no longer anybody's, and stays where it is.       *)
(***************************************************************************)
AdoptImage(t) ==
    /\ At(t, "adopt")
    /\ program' = loading
    /\ heap' = [base |-> call[t].from, break |-> call[t].from, limit |-> call[t].from + HeapPages]
    /\ held' = [p \in Page |-> IF p \in loading.images THEN "file"
                               ELSE IF p \in loading.stack THEN "stack" ELSE "none"]
    /\ loading' = program
    /\ GoOn(t, [Idle EXCEPT !.at = "previous"])
    /\ UNCHANGED <<arena, live, slots, segments, faulted>>

(***************************************************************************)
(* ReleaseProgramData for the program that was replaced: its stack and all *)
(* of the heap's reservation.  loading holds it until then.                *)
(***************************************************************************)
\* Mutant of ProgramData: the program that was just loaded.
NewProgramData == program.stack \cup program.heap
ProgramData == loading.stack \cup loading.heap

ReleasePrevious(t) ==
    /\ At(t, "previous")
    /\ Release(ProgramData, "ok")
    /\ Fresh(Vacated(ProgramData))
    /\ loading' = NoProgram
    /\ Back(t)
    /\ UNCHANGED <<held, slots, heap, segments, faulted, program>>

Execing(t) == call[t].at \in {"image", "segments", "segprot", "stack", "heap", "adopt", "previous"}

ProgramsNext ==
    \/ /\ \A t \in Threads : ~Execing(t)
       /\ CallsNext
       /\ UNCHANGED <<program, loading>>
    \/ /\ UNCHANGED filling
       /\ \E t \in Threads :
            \/ \E images \in 1..2 : ExecProcess(t, images)
            \/ LoadElf(t) \/ LoadSegments(t) \/ ProtectSegments(t) \/ BuildInitialStack(t) \/ LoadHeap(t)
            \/ AdoptImage(t) \/ ReleasePrevious(t)

ProgramsSpec == ProgramsInit /\ [][ProgramsNext]_programVars
=============================================================================
