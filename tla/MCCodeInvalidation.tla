------------------------- MODULE MCCodeInvalidation -------------------------
(* CodeInvalidation for TLC: two threads of one process and one of another. *)
EXTENDS CodeInvalidation, TLC

CONSTANTS t1, t2, t3, c1, c2

ThreeThreads == {t1, t2, t3}
TwoThreads == {t1, t2}
OneProcess == {c1}
OneContext == (t1 :> c1) @@ (t2 :> c1)
TwoProcesses == {c1, c2}
WhichContext == (t1 :> c1) @@ (t2 :> c1) @@ (t3 :> c2)
=============================================================================
