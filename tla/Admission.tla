------------------------------ MODULE Admission ------------------------------
(***************************************************************************)
(* What a client may expect of the TCP server, whatever its tables do:     *)
(* clients are taken in the order in which they come, never so many that   *)
(* the configured limit, if it is positive, is reached, and one that has   *)
(* been turned away or left is not served again.                           *)
(***************************************************************************)
EXTENDS Integers, FiniteSets

CONSTANT Clients \* the clients, numbered in the order in which they connect

VARIABLES phase, \* how far each client has got
          limit  \* connections and the listening socket

Served == {c \in Clients : phase[c] = "served"}

Turn(c, from, to) == phase[c] = from /\ phase' = [phase EXCEPT ![c] = to]

Init ==
  /\ phase = [c \in Clients |-> "away"]
  /\ limit \in Int

Come(c) ==
  /\ Turn(c, "away", "waiting")
  /\ \A b \in Clients : b < c => phase[b] # "away"

First(c) == \A b \in Clients : b < c => phase[b] \notin {"away", "waiting"}

\* A limit that is not positive is none.
Serve(c) ==
  /\ First(c)
  /\ Turn(c, "waiting", "served")
  /\ limit > 0 => Cardinality(Served) + 1 < limit

TurnAway(c) == First(c) /\ Turn(c, "waiting", "over")

End(c) == Turn(c, "served", "over")

Next ==
  /\ \E c \in Clients : Come(c) \/ Serve(c) \/ TurnAway(c) \/ End(c)
  /\ UNCHANGED limit

Spec == Init /\ [][Next]_<<phase, limit>>
=============================================================================
