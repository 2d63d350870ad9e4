---------------------------- MODULE MCSimpleTimer ----------------------------
(***************************************************************************)
(* The timer on instances small enough for TLC.                            *)
(***************************************************************************)
EXTENDS SimpleTimer

MCSeconds == {0, 1, 3}
=============================================================================
