----------------------------- MODULE Connection -----------------------------
(***************************************************************************)
(* A connection from its client's bytes to the responses: RequestParser,   *)
(* the HttpServer thread that hands its requests to the pool, the pool as  *)
(* SerialExecutor promises it, and a handler that reads the request object *)
(* while the parser may fill it again.                                     *)
(*                                                                         *)
(* A connection has one request object: what the parser emits is a pointer *)
(* to it.                                                                  *)
(***************************************************************************)
EXTENDS RequestParser

CONSTANT MaxTasks \* bound: how many emitted requests are handed to the pool

ASSUME MaxTasksAssumption == MaxTasks \in Nat

Tasks == 1..MaxTasks

VARIABLES
  patient, \* the client waits for each response before its next request
  \* the HttpServer thread
  handed,  \* what each task of the pool serves, with the version of its response
  \* the pool
  tasks,   \* what has become of them
  hpc,     \* the place of the running handler
  seen,    \* what it has read of the request
  \* TcpSocket
  open,    \* _connectionState
  wire,    \* the responses sent
  \* history
  torn     \* TRUE once a string was written while it was read

serverVars == <<handed, tasks, hpc, seen>>
connectionVars == <<vars, patient, serverVars, open, wire, torn>>

Pool == INSTANCE SerialExecutor WITH Requests <- Tasks, status <- tasks

ConnectionTypeOK ==
  /\ TypeOK
  /\ patient \in BOOLEAN
  /\ handed \in Seq([of : Tasks, version : Numbers])
  /\ Len(handed) <= MaxTasks
  /\ tasks \in [Tasks -> {"new", "pending", "running", "done", "dropped"}]
  /\ hpc \in {"idle", "line", "body", "respond"}
  /\ seen \in [line : Numbers \cup {None}, body : Seq(Tokens)]
  /\ open \in BOOLEAN
  /\ wire \in Seq([of : Tasks, version : Numbers, line : Numbers, body : Seq(Tokens)])
  /\ torn \in BOOLEAN

ConnectionInit ==
  /\ Init
  /\ patient \in BOOLEAN
  /\ handed = <<>>
  /\ Pool!Init
  /\ hpc = "idle"
  /\ seen = [line |-> None, body |-> <<>>]
  /\ open = TRUE
  /\ wire = <<>>
  /\ torn = FALSE
-----------------------------------------------------------------------------
(* The client and the TcpServer thread.                                    *)

\* A patient client has as many responses as it has sent requests before it sends
\* the next one.
Patience ==
  \A j \in 1..(Len(stream) - Len(stream')) : stream[j].of <= Len(wire) + 1

\* readFromSocket returns at once when the connection is closed.
Receive ==
  /\ open
  /\ ReadFromSocket
  /\ patient => Patience
  /\ UNCHANGED <<patient, serverVars, open, wire, torn>>

\* TcpSocket::close, by any of the threads.
Close ==
  /\ open
  /\ open' = FALSE
  /\ UNCHANGED <<vars, patient, serverVars, wire, torn>>
-----------------------------------------------------------------------------
(* The ParserThread.                                                       *)

\* The parser writes what the handler may be reading.
Overlaps ==
  \/ hpc = "line" /\ request'.line # request.line
  \/ hpc = "body" /\ request'.body # request.body

Parse ==
  /\ Parser
  /\ torn' = FALSE \/ (Overlaps /\ torn' = TRUE)
  /\ UNCHANGED <<patient, serverVars, open, wire>>
-----------------------------------------------------------------------------
(* The HttpServer thread.                                                  *)

\* Fault: signals are handled from the newest to the oldest.
NewestQueued ==
  CHOOSE k \in DOMAIN emitted :
    /\ \A j \in DOMAIN handed : handed[j].of # k
    /\ \A l \in DOMAIN emitted : l > k => \E j \in DOMAIN handed : handed[j].of = l

\* newRequestSignal is queued: the requests arrive as they were emitted.
OldestQueued == Len(handed) + 1

\* newRequestReceived.  The response takes its version from the request.
NewRequestReceived ==
  /\ Len(handed) < Len(emitted) /\ Len(handed) < MaxTasks
  /\ handed' = Append(handed, [of |-> OldestQueued, version |-> request.line])
  /\ Pool!Submit(Len(handed) + 1)
  /\ UNCHANGED <<vars, patient, hpc, seen, open, wire, torn>>
-----------------------------------------------------------------------------
(* The pool's thread: processRequest.                                      *)

\* Fault: the body is not waited for.
WithoutReading == "respond"

FirstPlace == "line"

Begin ==
  /\ hpc = "idle"
  /\ \E k \in Tasks : Pool!Begin(k)
  /\ hpc' = FirstPlace
  /\ UNCHANGED <<vars, patient, handed, seen, open, wire, torn>>

\* The controller and the route are looked up by URI and method ...
ReadLine ==
  /\ hpc = "line"
  /\ seen' = [line |-> request.line, body |-> <<>>]
  /\ hpc' = "body"
  /\ UNCHANGED <<vars, patient, handed, tasks, open, wire, torn>>

\* ... the callback reads the body ...
ReadBody ==
  /\ hpc = "body"
  /\ seen' = [seen EXCEPT !.body = request.body]
  /\ hpc' = "respond"
  /\ UNCHANGED <<vars, patient, handed, tasks, open, wire, torn>>

Response(k) == [of |-> handed[k].of, version |-> handed[k].version,
                line |-> seen.line, body |-> seen.body]

\* Fault: a middleware has answered, and the callback answers again.
Twice(r) == <<r, r>>

Once(r) == <<r>>

\* ... and answers.
Respond ==
  /\ hpc = "respond"
  /\ \E k \in Tasks : /\ Pool!Finish(k)
                       /\ wire' = IF open THEN wire \o Once(Response(k)) ELSE wire
  /\ hpc' = "idle"
  /\ UNCHANGED <<vars, patient, handed, seen, open, torn>>

\* Requests queued in a thread that is deleted are lost.
DropQueued ==
  /\ \E S \in SUBSET Tasks : S # {} /\ Pool!Drop(S)
  /\ UNCHANGED <<vars, patient, handed, hpc, seen, open, wire, torn>>
-----------------------------------------------------------------------------
Running == alive /\ ~torn

Handler == Begin \/ ReadLine \/ ReadBody \/ Respond

ConnectionNext ==
  /\ Running
  /\ Receive \/ Close \/ Parse \/ NewRequestReceived \/ Handler \/ DropQueued

ConnectionSpec == ConnectionInit /\ [][ConnectionNext]_connectionVars

\* The ParserThread, the HttpServer thread and the pool's thread run when they
\* can.  The client owes the server nothing.
ConnectionFairness ==
  /\ WF_connectionVars(Running /\ Parse)
  /\ WF_connectionVars(Running /\ NewRequestReceived)
  /\ WF_connectionVars(Running /\ Handler)

ConnectionFairSpec == ConnectionSpec /\ ConnectionFairness
-----------------------------------------------------------------------------
(* Properties.                                                             *)

\* Through the four threads a request passes, the responses of a connection leave
\* in the order in which the parser has emitted their requests, none of them twice.
AnsweredInOrder ==
  \A j, l \in DOMAIN wire : j < l => wire[j].of < wire[l].of

\* A client that waits for its responses protects the object: as long as each of
\* its requests was in the buffer as a whole, nothing is written that is being
\* read, and a response is for what was emitted, its version, line and body.
PatientIsServedRight ==
  patient /\ (\A k \in DOMAIN emitted : emitted[k].whole) =>
    /\ ~torn
    /\ \A j \in DOMAIN wire :
         LET w == wire[j]
             e == emitted[w.of]
         IN w.version = e.line /\ w.line = e.line /\ w.body = e.body

\* It gets the answer to its first request, if that has a body and was received as a
\* whole before anything of it was parsed: the first response is for what was sent.
FirstRequestAnswered ==
  (patient /\ FirstRequestWaiting)
    ~> \/ wire # <<>> /\ wire[1] = [of |-> 1, version |-> 1, line |-> 1, body |-> Body(1)]
       \/ ~open \/ ~Running
       \/ tasks[1] = "dropped"
=============================================================================
