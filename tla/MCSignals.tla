------------------------------ MODULE MCSignals ------------------------------
(* Instances of Signals for TLC: SIGKILL, a signal that is ignored by    *)
(* default, and one that is not.                                         *)
EXTENDS Signals, TLC

CONSTANTS t1, t2

OneThread == {t1}
MCSigs == {9, 17, 31}
MCQuiet == {17}
Handler == [Default EXCEPT !.handler = "handle"]
MCActions ==
    {Default,
     [Handler EXCEPT !.restart = TRUE, !.onstack = TRUE],
     [Handler EXCEPT !.mask = {31}, !.nodefer = TRUE, !.resethand = TRUE]}
MCMasks == {{}, {9, 17}}
==============================================================================
