----------------------------- MODULE MCReadiness -----------------------------
(* A console with a few editing keys, standard input and one more descriptor. *)
EXTENDS Readiness

MCChunks == {<<"a">>, <<"b", "bs">>, <<"bs", "a">>, <<"a", "ret">>, <<"eot">>}
MCFds == {0, 3}
MCKinds == {"tty", "pipe", "timer", "none"}
=============================================================================
