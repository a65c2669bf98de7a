------------------------------ MODULE MCFutex ------------------------------
(* Futex for TLC: threads whose ids are interchangeable. *)
EXTENDS Futex, TLC

CONSTANTS t1, t2, t3

TwoThreads == {t1, t2}
ThreeThreads == {t1, t2, t3}
OneThread == {t1}
None == {}
=============================================================================
