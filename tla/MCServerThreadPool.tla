------------------------- MODULE MCServerThreadPool -------------------------
(***************************************************************************)
(* The thread pool on an instance small enough for TLC.                    *)
(***************************************************************************)
EXTENDS ServerThreadPool

MCPoolSizes == {1, 2}
=============================================================================
