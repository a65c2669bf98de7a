----------------------------- MODULE MCProcesses -----------------------------
(* Instances of Processes for TLC.                                          *)
EXTENDS Processes

FirstOnly == {1}
None == {}
=============================================================================
