----------------------------- MODULE MCTcpServer -----------------------------
(***************************************************************************)
(* The TCP server on instances small enough for TLC: a limit of 0, and     *)
(* room for none, one or both of two clients; one descriptor for the two,  *)
(* or enough.                                                              *)
(***************************************************************************)
EXTENDS TcpServer

MCLimits == {<<0, 1>>, <<1, 2>>, <<2, 1>>, <<3, 2>>}
=============================================================================
