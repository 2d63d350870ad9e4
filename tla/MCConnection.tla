---------------------------- MODULE MCConnection ----------------------------
(***************************************************************************)
(* A connection with three requests: two with a body and one without.      *)
(***************************************************************************)
EXTENDS Connection

\* The first request cut in its line, after its header section and at its end;
\* the second after a token, after its line and at its end.
MCCuts == {2, 8, 9, 10, 12, 17, 26}

MCRequests == <<1, NoLength, 1>>

\* The second's line has a colon.
MCColons == {2}
=============================================================================
