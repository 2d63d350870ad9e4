--------------------------- MODULE SerialExecutor ---------------------------
(***************************************************************************)
(* What the HTTP server relies on when it hands a request to its thread    *)
(* pool: requests are numbered in the order they are handed over, each one *)
(* is handled at most once, never two at a time, and in order.  A request  *)
(* may also be dropped before its handler begins; a handler that has begun *)
(* is always run to its end.                                               *)
(***************************************************************************)
EXTENDS Naturals

CONSTANT Requests        \* the requests, numbered in order of arrival

VARIABLE status          \* how far each request has got

Init == status = [r \in Requests |-> "new"]

\* Requests are handed over in order.
Submit(r) == /\ status[r] = "new"
             /\ \A s \in Requests : s < r => status[s] # "new"
             /\ status' = [status EXCEPT ![r] = "pending"]

\* A handler begins only when every earlier request is over and done with.
Begin(r) == /\ status[r] = "pending"
            /\ \A s \in Requests : s < r => status[s] \in {"done", "dropped"}
            /\ status' = [status EXCEPT ![r] = "running"]

Finish(r) == /\ status[r] = "running"
             /\ status' = [status EXCEPT ![r] = "done"]

\* Requests whose handler has not begun may be given up, several at once.
Drop(S) == /\ \A r \in S : status[r] = "pending"
           /\ status' = [r \in Requests |-> IF r \in S THEN "dropped"
                                                       ELSE status[r]]

Next == \/ \E r \in Requests : Submit(r) \/ Begin(r) \/ Finish(r)
        \/ \E S \in SUBSET Requests : Drop(S)

Spec == Init /\ [][Next]_status
=============================================================================
