---------------------------- MODULE MCDescriptors ----------------------------
(* Instances of Descriptors for TLC.                                        *)
EXTENDS Descriptors, TLC

CONSTANTS p1, p2, t1, t2, u1

TwoProcesses == {p1, p2}
OneProcess == {p1}
ThreeThreads == {t1, t2, u1}
TwoThreads == {t1, u1}
WhichProcess == (t1 :> p1) @@ (t2 :> p1) @@ (u1 :> p2)
SameProcess == Permutations({t1, t2})
=============================================================================
