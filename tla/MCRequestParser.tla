--------------------------- MODULE MCRequestParser ---------------------------
(***************************************************************************)
(* A connection with three requests: two with a body and one without.      *)
(***************************************************************************)
EXTENDS RequestParser

\* The first request cut between CR and LF, in its header, before its body, in it and
\* at its end; the second in its header and at its end; the third in its header,
\* before its body and at its end.
MCCuts == {2, 4, 8, 9, 10, 14, 18, 22, 26, 27}

MCRequests == <<2, NoLength, 1>>

\* The first's line has a colon.
MCColons == {1}
=============================================================================
