--------------------------- MODULE MCPrograms -----------------------------
(* Programs for TLC: a heap of one host page, one for allocations, two the  *)
(* guest places mappings in, and room for a second program.                *)
EXTENDS Programs

CONSTANTS t1, t2
Both == {t1, t2}
JustOne == {t1}
CallProts == {{"R"}}
SomeRequests == {[kind |-> "anon", prot |-> {"R"}],
                 [kind |-> "file", prot |-> {"R", "W"}], [kind |-> "shared", prot |-> {"R"}]}
CallSizes == {1, 2}
CallHints == {1}
Nowhere == {}
PlacedPages == {4, 5, 6, 7}
PlacedSpans == {{2}, {4}, {4, 5}, {5, 6}}
Written == {1, 5}
ImagePages == {4, 5}
=============================================================================
