---------------------------- MODULE MCAppSession ----------------------------
(* AppSession for TLC. *)
EXTENDS AppSession
=============================================================================
