-------------------------- MODULE ConnectionProofs --------------------------
(***************************************************************************)
(* Proofs about Connection for any requests of the client, cut anywhere,   *)
(* and any number of tasks.                                                *)
(*                                                                         *)
(* The argument: the HttpServer thread hands requests over as they were    *)
(* emitted, so that the pool's numbers are those of the emissions; and     *)
(* when the pool runs a task, all earlier ones are done or dropped.        *)
(***************************************************************************)
EXTENDS Connection, RequestParserProofs

Over == {"done", "dropped"}

HandedInv ==
  /\ IsSequence(handed)
  /\ Len(handed) <= MaxTasks
  /\ \A k \in 1..Len(handed) : handed[k].of = k

TasksInv ==
  /\ tasks \in [Tasks -> {"new", "pending", "running", "done", "dropped"}]
  /\ \A k \in Tasks : tasks[k] # "new" <=> k <= Len(handed)
  /\ \A k, l \in Tasks :
       l < k /\ tasks[k] \in {"running", "done"} => tasks[l] \in Over

WireInv ==
  /\ IsSequence(wire)
  /\ \A j \in DOMAIN wire : wire[j].of \in Tasks /\ tasks[wire[j].of] = "done"
  /\ \A j \in DOMAIN wire : j <= wire[j].of
  /\ AnsweredInOrder

ServingInv == HandedInv /\ TasksInv /\ WireInv
-----------------------------------------------------------------------------
LEMMA InitServing == ConnectionInit => ServingInv
<1> SUFFICES ASSUME ConnectionInit PROVE ServingInv
  OBVIOUS
<1> USE MaxTasksAssumption DEF ConnectionInit
<1>1. IsSequence(<<>>) /\ Len(<<>>) = 0
  BY <<>> \in Seq({}) DEF IsSequence
<1>2. HandedInv
  BY <1>1 DEF HandedInv
<1>3. TasksInv
  BY <1>1 DEF TasksInv, Tasks, Pool!Init
<1>4. WireInv
  BY <1>1 DEF WireInv, AnsweredInOrder
<1> QED
  BY <1>2, <1>3, <1>4 DEF ServingInv

\* What no action but those of the HttpServer thread and the pool changes.
LEMMA ServingUnchanged ==
  ASSUME ServingInv, UNCHANGED <<handed, tasks, wire>>
  PROVE  ServingInv'
BY DEF ServingInv, HandedInv, TasksInv, WireInv, AnsweredInOrder

\* A request is handed over with the number of its emission.
LEMMA HandingOver == ServingInv /\ NewRequestReceived => ServingInv'
<1> SUFFICES ASSUME ServingInv, NewRequestReceived PROVE ServingInv'
  OBVIOUS
<1> DEFINE n == Len(handed) + 1
           h == [of |-> n, version |-> request.line]
<1>1. /\ handed' = Append(handed, h) /\ h.of = n
      /\ Len(handed) < MaxTasks
      /\ tasks[n] = "new" /\ tasks' = [tasks EXCEPT ![n] = "pending"]
      /\ wire' = wire
  BY DEF NewRequestReceived, OldestQueued, Pool!Submit
<1>2. IsSequence(handed)
  BY DEF ServingInv, HandedInv
<1> HIDE DEF h
<1>3. Longer(handed, h, handed')
  BY <1>1, <1>2, OneMore
<1>4. n \in Tasks
  BY <1>1, <1>3, MaxTasksAssumption DEF Longer, Tasks
<1>5. HandedInv'
  BY <1>1, <1>3, <1>4 DEF ServingInv, HandedInv, Longer, Tasks
<1>6. TasksInv'
  <2>1. tasks' \in [Tasks -> {"new", "pending", "running", "done", "dropped"}]
    BY <1>1, <1>4 DEF ServingInv, TasksInv
  <2>2. \A k \in Tasks : tasks'[k] # "new" <=> k <= Len(handed')
    BY <1>1, <1>3, <1>4 DEF ServingInv, TasksInv, Longer, Tasks
  <2>3. \A k, l \in Tasks :
          l < k /\ tasks'[k] \in {"running", "done"} => tasks'[l] \in Over
    BY <1>1, <1>4 DEF ServingInv, TasksInv, Over
  <2> QED
    BY <2>1, <2>2, <2>3 DEF TasksInv
<1>7. WireInv'
  BY <1>1, <1>4 DEF ServingInv, TasksInv, WireInv, AnsweredInOrder
<1> QED
  BY <1>5, <1>6, <1>7 DEF ServingInv

\* A task begins when all earlier ones are over.
LEMMA Beginning == ServingInv /\ Begin => ServingInv'
<1> SUFFICES ASSUME ServingInv, Begin PROVE ServingInv'
  OBVIOUS
<1>1. PICK k \in Tasks : Pool!Begin(k)
  BY DEF Begin
<1>2. /\ tasks[k] = "pending"
      /\ \A l \in Tasks : l < k => tasks[l] \in Over
      /\ tasks' = [tasks EXCEPT ![k] = "running"]
      /\ handed' = handed /\ wire' = wire
  BY <1>1 DEF Begin, Pool!Begin, Over
<1>3. HandedInv'
  BY <1>2 DEF ServingInv, HandedInv
<1>4. TasksInv'
  BY <1>2 DEF ServingInv, TasksInv, Over, Tasks
<1>5. WireInv'
  BY <1>2 DEF ServingInv, TasksInv, WireInv, AnsweredInOrder
<1> QED
  BY <1>3, <1>4, <1>5 DEF ServingInv

\* The responses sent are all for earlier emissions than that of a running task.
LEMMA Responding == ServingInv /\ Respond => ServingInv'
<1> SUFFICES ASSUME ServingInv, Respond PROVE ServingInv'
  OBVIOUS
<1>1. PICK k \in Tasks :
        /\ Pool!Finish(k)
        /\ wire' = IF open THEN wire \o Once(Response(k)) ELSE wire
  BY DEF Respond
<1>2. /\ tasks[k] = "running"
      /\ tasks' = [tasks EXCEPT ![k] = "done"]
      /\ handed' = handed
  BY <1>1 DEF Respond, Pool!Finish
<1>3. HandedInv'
  BY <1>2 DEF ServingInv, HandedInv
<1>4. TasksInv'
  BY <1>2 DEF ServingInv, TasksInv, Over
<1>5. Response(k).of = k
  <2>1. k \in 1..Len(handed)
    BY <1>2 DEF ServingInv, TasksInv, HandedInv, Tasks
  <2> QED
    BY <2>1 DEF ServingInv, HandedInv, Response
<1>6. \A j \in DOMAIN wire : wire[j].of \in Tasks /\ wire[j].of < k
  BY <1>2 DEF ServingInv, TasksInv, WireInv, Over, Tasks
<1>7. WireInv'
  <2>1. CASE ~open
    BY <1>1, <1>2, <2>1 DEF ServingInv, TasksInv, WireInv, AnsweredInOrder
  <2>2. CASE open
    <3> DEFINE r == Response(k)
    <3>1. wire' = wire \o <<r>> /\ r.of = k
      BY <1>1, <1>5, <2>2 DEF Once
    <3> HIDE DEF r
    <3>2. IsSequence(wire)
      BY DEF ServingInv, WireInv
    <3>3. Longer(wire, r, wire')
      BY <3>1, <3>2, OneMore
    <3>4. \A j \in DOMAIN wire' : wire'[j].of \in Tasks /\ tasks'[wire'[j].of] = "done"
      BY <1>2, <3>1, <3>3 DEF ServingInv, TasksInv, WireInv, Longer
    <3>5. ASSUME NEW j \in DOMAIN wire', NEW l \in DOMAIN wire', j < l
          PROVE  wire'[j].of < wire'[l].of
      <4>1. j \in DOMAIN wire
        BY <3>3, <3>5 DEF Longer
      <4>2. CASE l \in DOMAIN wire
        BY <3>3, <3>5, <4>1, <4>2 DEF ServingInv, WireInv, AnsweredInOrder, Longer
      <4>3. CASE l = Len(wire) + 1
        BY <1>6, <3>1, <3>3, <4>1, <4>3 DEF Longer
      <4> QED
        BY <3>3, <3>5, <4>2, <4>3 DEF Longer
    <3>6. ASSUME NEW j \in DOMAIN wire' PROVE j <= wire'[j].of
      <4>1. CASE j \in DOMAIN wire
        BY <3>3, <4>1 DEF ServingInv, WireInv, Longer
      <4>2. CASE j \notin DOMAIN wire
        <5>1. j = Len(wire) + 1 /\ Len(wire) \in Nat /\ wire'[j] = r
          BY <3>3, <4>2 DEF Longer
        <5>2. Len(wire) < k
          <6>1. CASE Len(wire) = 0
            BY <6>1 DEF Tasks
          <6>2. CASE Len(wire) # 0
            <7>1. Len(wire) \in DOMAIN wire
              BY <3>3, <5>1, <6>2 DEF Longer
            <7>2. Len(wire) <= wire[Len(wire)].of
              BY <7>1 DEF ServingInv, WireInv
            <7>3. wire[Len(wire)].of < k /\ wire[Len(wire)].of \in Nat /\ k \in Nat
              BY <1>6, <7>1 DEF Tasks
            <7> QED
              BY <5>1, <7>2, <7>3
          <6> QED
            BY <6>1, <6>2
        <5> QED
          BY <3>1, <5>1, <5>2 DEF Tasks
      <4> QED
        BY <4>1, <4>2
    <3> QED
      BY <3>3, <3>4, <3>5, <3>6 DEF WireInv, AnsweredInOrder, Longer
  <2> QED
    BY <2>1, <2>2
<1> QED
  BY <1>3, <1>4, <1>7 DEF ServingInv

\* What is dropped has not begun.
LEMMA Dropping == ServingInv /\ DropQueued => ServingInv'
<1> SUFFICES ASSUME ServingInv, DropQueued PROVE ServingInv'
  OBVIOUS
<1>1. PICK S \in SUBSET Tasks : Pool!Drop(S)
  BY DEF DropQueued
<1>2. /\ \A k \in S : tasks[k] = "pending"
      /\ tasks' = [k \in Tasks |-> IF k \in S THEN "dropped" ELSE tasks[k]]
      /\ handed' = handed /\ wire' = wire
  BY <1>1 DEF DropQueued, Pool!Drop
<1>3. HandedInv'
  BY <1>2 DEF ServingInv, HandedInv
<1>4. TasksInv'
  BY <1>2 DEF ServingInv, TasksInv, Over
<1>5. WireInv'
  BY <1>2 DEF ServingInv, TasksInv, WireInv, AnsweredInOrder
<1> QED
  BY <1>3, <1>4, <1>5 DEF ServingInv

LEMMA ServingInvariant == ConnectionSpec => []ServingInv
<1>1. ServingInv /\ [ConnectionNext]_connectionVars => ServingInv'
  <2> SUFFICES ASSUME ServingInv, [ConnectionNext]_connectionVars PROVE ServingInv'
    OBVIOUS
  <2>1. CASE NewRequestReceived
    BY <2>1, HandingOver
  <2>2. CASE Begin
    BY <2>2, Beginning
  <2>3. CASE Respond
    BY <2>3, Responding
  <2>4. CASE DropQueued
    BY <2>4, Dropping
  <2>5. CASE Receive \/ Close \/ Parse \/ ReadLine \/ ReadBody
    BY <2>5, ServingUnchanged
    DEF Receive, Close, Parse, ReadLine, ReadBody, serverVars
  <2>6. CASE UNCHANGED connectionVars
    BY <2>6, ServingUnchanged DEF connectionVars, serverVars
  <2> QED
    BY <2>1, <2>2, <2>3, <2>4, <2>5, <2>6 DEF ConnectionNext, Handler
<1> QED
  BY <1>1, InitServing, PTL DEF ConnectionSpec

\* Whatever a client sends, however it is cut, and whatever the pool drops: the
\* responses of a connection leave in the order of the emissions, none twice.
THEOREM ResponsesInOrder == ConnectionSpec => []AnsweredInOrder
<1>1. ServingInv => AnsweredInOrder
  BY DEF ServingInv, WireInv
<1> QED
  BY <1>1, ServingInvariant, PTL
-----------------------------------------------------------------------------
(* Types.                                                                  *)

\* To the parser the composition is the parser alone.
LEMMA ParserStep == [ConnectionNext]_connectionVars => [Next]_vars
BY DEF ConnectionNext, Running, connectionVars, Receive, Close, Parse,
       NewRequestReceived, Handler, Begin, ReadLine, ReadBody, Respond, DropQueued, Next

LEMMA ConnectionParses == ConnectionSpec => Spec
BY ParserStep, PTL DEF ConnectionSpec, ConnectionInit, Spec

Handing == [of : Tasks, version : Numbers]

ResponseTypes == [of : Tasks, version : Numbers, line : Numbers, body : Seq(Tokens)]

\* What a handler reads is of a request that has been emitted.
TypesInv ==
  /\ patient \in BOOLEAN /\ open \in BOOLEAN /\ torn \in BOOLEAN
  /\ handed \in Seq(Handing) /\ Len(handed) <= Len(emitted)
  /\ hpc \in {"idle", "line", "body", "respond"}
  /\ hpc # "idle" => \E k \in Tasks : tasks[k] = "running"
  /\ seen \in [line : Numbers \cup {None}, body : Seq(Tokens)]
  /\ hpc \in {"body", "respond"} => seen.line # None
  /\ wire \in Seq(ResponseTypes)

\* The request object has a line once a request has been emitted.
LEMMA LineKnown ==
  ASSUME TInv, UsedInv, emitted # <<>>
  PROVE  request.line \in Numbers
<1>1. CASE Reading
  BY <1>1 DEF TInv, RequestInv, Line, Reading
<1>2. CASE ~Reading
  <2>1. emitted \in Seq(Emission) /\ Len(emitted) \in Nat /\ Len(emitted) # 0
    BY EmptySeq DEF TInv
  <2>2. Len(emitted) \in 1..Len(emitted)
    BY <2>1
  <2>3. emitted[Len(emitted)] \in Emission
    BY <2>1, <2>2
  <2>4. emitted[Len(emitted)].line \in Numbers
    BY <2>3 DEF Emission
  <2> QED
    BY <1>2, <2>4 DEF UsedInv, AsEmitted
<1> QED
  BY <1>1, <1>2

\* A task that runs has been handed over, and so has been emitted.
LEMMA RunningWasEmitted ==
  ASSUME ServingInv, TypesInv, TInv, NEW k \in Tasks, tasks[k] = "running"
  PROVE  /\ k \in 1..Len(handed) /\ k \in 1..Len(emitted) /\ emitted # <<>>
         /\ Len(handed) \in Nat /\ Len(emitted) \in Nat
<1>1. Len(handed) \in Nat /\ Len(emitted) \in Nat /\ k \in Nat /\ k > 0
  BY MaxTasksAssumption DEF TypesInv, TInv, Tasks
<1>2. k <= Len(handed) /\ Len(handed) <= Len(emitted)
  BY DEF ServingInv, TasksInv, TypesInv
<1>3. k \in 1..Len(handed) /\ k \in 1..Len(emitted)
  BY <1>1, <1>2
<1>4. emitted # <<>>
  BY <1>3
<1> QED
  BY <1>1, <1>3, <1>4

LEMMA EmittedGrows ==
  ASSUME TInv, [Next]_vars
  PROVE  /\ Len(emitted) \in Nat /\ Len(emitted') \in Nat /\ Len(emitted) <= Len(emitted')
         /\ \A j \in 1..Len(emitted) : emitted'[j] = emitted[j]
<1>1. Len(emitted) \in Nat
  BY DEF TInv
<1>2. CASE emitted' = emitted
  BY <1>1, <1>2
<1>3. CASE Parser
  BY <1>1, <1>3, ParserEmits
<1>4. CASE ReadFromSocket
  BY <1>1, <1>4 DEF ReadFromSocket
<1> QED
  BY <1>2, <1>3, <1>4 DEF Next, vars

LEMMA TypesKept ==
  ASSUME TypesInv, TInv, [Next]_vars, UNCHANGED <<patient, handed, hpc, tasks, seen, wire>>,
         open' \in BOOLEAN, torn' \in BOOLEAN
  PROVE  TypesInv'
<1>1. Len(handed) <= Len(emitted')
  <2>1. Len(handed) \in Nat
    BY DEF TypesInv
  <2> QED
    BY <2>1, EmittedGrows DEF TypesInv
<1> QED
  BY <1>1 DEF TypesInv

LEMMA TypesHandingOver ==
  ASSUME TypesInv, TInv, UsedInv, ServingInv, NewRequestReceived
  PROVE  TypesInv'
<1> DEFINE n == Len(handed) + 1
           h == [of |-> n, version |-> request.line]
<1>1. /\ handed' = Append(handed, h) /\ Len(handed) < MaxTasks
      /\ Len(handed) < Len(emitted)
      /\ tasks[n] = "new" /\ tasks' = [tasks EXCEPT ![n] = "pending"]
      /\ UNCHANGED <<emitted, patient, hpc, seen, open, wire, torn>>
  BY DEF NewRequestReceived, OldestQueued, Pool!Submit, vars
<1>2. /\ handed \in Seq(Handing) /\ Len(handed) \in Nat /\ Len(emitted) \in Nat
      /\ MaxTasks \in Nat
  BY MaxTasksAssumption DEF TypesInv, TInv
<1>3. n \in Tasks /\ emitted # <<>>
  BY <1>1, <1>2 DEF Tasks
<1>4. h \in Handing
  BY <1>3, LineKnown DEF Handing
<1> HIDE DEF h
<1>5. handed' \in Seq(Handing) /\ Len(handed') = n
  BY <1>1, <1>2, <1>4
<1>6. Len(handed') <= Len(emitted')
  BY <1>1, <1>2, <1>5
<1>7. hpc' # "idle" => \E k \in Tasks : tasks'[k] = "running"
  <2> SUFFICES ASSUME hpc # "idle" PROVE \E k \in Tasks : tasks'[k] = "running"
    BY <1>1
  <2>1. PICK k \in Tasks : tasks[k] = "running"
    BY DEF TypesInv
  <2>2. tasks'[k] = tasks[k]
    BY <1>1, <2>1 DEF ServingInv, TasksInv
  <2> QED
    BY <2>1, <2>2
<1> QED
  BY <1>1, <1>5, <1>6, <1>7 DEF TypesInv

LEMMA TypesHandler ==
  ASSUME TypesInv, TInv, UsedInv, ServingInv, Handler
  PROVE  TypesInv'
<1>1. CASE Begin
  <2>1. PICK k \in Tasks : Pool!Begin(k)
    BY <1>1 DEF Begin
  <2>2. tasks' = [tasks EXCEPT ![k] = "running"] /\ hpc' = "line"
        /\ UNCHANGED <<emitted, patient, handed, seen, open, wire, torn>>
    BY <1>1, <2>1 DEF Begin, Pool!Begin, FirstPlace, vars
  <2>3. tasks'[k] = "running"
    BY <2>2 DEF ServingInv, TasksInv
  <2> QED
    BY <2>2, <2>3 DEF TypesInv
<1>2. CASE ReadLine
  <2>1. /\ hpc = "line" /\ seen' = [line |-> request.line, body |-> <<>>]
        /\ hpc' = "body"
        /\ UNCHANGED <<emitted, patient, handed, tasks, open, wire, torn>>
    BY <1>2 DEF ReadLine, vars
  <2>2. PICK k \in Tasks : tasks[k] = "running"
    BY <2>1 DEF TypesInv
  <2>3. request.line \in Numbers /\ request.line # None
    BY <2>2, RunningWasEmitted, LineKnown, NumbersAre DEF None
  <2>4. /\ seen' \in [line : Numbers \cup {None}, body : Seq(Tokens)]
        /\ seen'.line # None
    BY <2>1, <2>3
  <2> QED
    BY <2>1, <2>4 DEF TypesInv
<1>3. CASE ReadBody
  <2>1. /\ hpc = "body" /\ seen' = [seen EXCEPT !.body = request.body]
        /\ hpc' = "respond"
        /\ UNCHANGED <<emitted, patient, handed, tasks, open, wire, torn>>
    BY <1>3 DEF ReadBody, vars
  <2>2. /\ seen' \in [line : Numbers \cup {None}, body : Seq(Tokens)]
        /\ seen'.line # None
    BY <2>1 DEF TypesInv, TInv, RequestInv, Line
  <2> QED
    BY <2>1, <2>2 DEF TypesInv
<1>4. CASE Respond
  <2>1. PICK k \in Tasks :
          /\ Pool!Finish(k)
          /\ wire' = IF open THEN wire \o Once(Response(k)) ELSE wire
    BY <1>4 DEF Respond
  <2>2. /\ tasks[k] = "running" /\ hpc = "respond" /\ hpc' = "idle"
        /\ UNCHANGED <<emitted, patient, handed, seen, open, torn>>
    BY <1>4, <2>1 DEF Respond, Pool!Finish, vars
  <2>3. k \in 1..Len(handed)
    BY <2>2, RunningWasEmitted
  <2>4. handed[k] \in Handing /\ seen.line \in Numbers /\ seen.body \in Seq(Tokens)
    BY <2>2, <2>3 DEF TypesInv
  <2>5. Response(k) \in ResponseTypes
    BY <2>4 DEF Response, Handing, ResponseTypes
  <2>6. wire' \in Seq(ResponseTypes)
    <3>1. CASE ~open
      BY <2>1, <3>1 DEF TypesInv
    <3>2. CASE open
      <4> DEFINE r == Response(k)
      <4>1. wire' = wire \o <<r>> /\ r \in ResponseTypes /\ wire \in Seq(ResponseTypes)
        BY <2>1, <2>5, <3>2 DEF Once, TypesInv
      <4> HIDE DEF r
      <4> QED
        BY <4>1
    <3> QED
      BY <3>1, <3>2
  <2> QED
    BY <2>2, <2>6 DEF TypesInv
<1> QED
  BY <1>1, <1>2, <1>3, <1>4 DEF Handler

LEMMA TypesDropping ==
  ASSUME TypesInv, TInv, ServingInv, DropQueued
  PROVE  TypesInv'
<1>1. PICK S \in SUBSET Tasks : Pool!Drop(S)
  BY DEF DropQueued
<1>2. /\ \A k \in S : tasks[k] = "pending"
      /\ tasks' = [k \in Tasks |-> IF k \in S THEN "dropped" ELSE tasks[k]]
      /\ UNCHANGED <<emitted, patient, handed, hpc, seen, open, wire, torn>>
  BY <1>1 DEF DropQueued, Pool!Drop, vars
<1>3. \A k \in Tasks : tasks[k] = "running" => tasks'[k] = "running"
  BY <1>2
<1> QED
  BY <1>2, <1>3 DEF TypesInv

LEMMA ConnectionTypesNext ==
  TypesInv /\ TInv /\ UsedInv /\ ServingInv /\ [ConnectionNext]_connectionVars
    => TypesInv'
<1> SUFFICES ASSUME TypesInv, TInv, UsedInv, ServingInv,
                    [ConnectionNext]_connectionVars
             PROVE  TypesInv'
  OBVIOUS
<1>1. [Next]_vars
  BY ParserStep
<1>2. CASE Receive
  BY <1>1, <1>2, TypesKept, Zenon DEF Receive, serverVars, TypesInv
<1>3. CASE Close
  BY <1>1, <1>3, TypesKept DEF Close, serverVars, TypesInv
<1>4. CASE Parse
  BY <1>1, <1>4, TypesKept DEF Parse, serverVars, TypesInv
<1>5. CASE UNCHANGED connectionVars
  BY <1>1, <1>5, TypesKept DEF connectionVars, serverVars, TypesInv
<1>6. CASE NewRequestReceived
  BY <1>6, TypesHandingOver
<1>7. CASE Handler
  BY <1>7, TypesHandler
<1>8. CASE DropQueued
  BY <1>8, TypesDropping
<1> QED
  BY <1>2, <1>3, <1>4, <1>5, <1>6, <1>7, <1>8 DEF ConnectionNext

LEMMA ConnectionTypesInit == ConnectionInit => TypesInv
<1> SUFFICES ASSUME ConnectionInit PROVE TypesInv
  OBVIOUS
<1> USE DEF ConnectionInit
<1>1. <<>> \in Seq(Handing) /\ <<>> \in Seq(ResponseTypes) /\ <<>> \in Seq(Tokens)
  OBVIOUS
<1>2. Len(handed) <= Len(emitted)
  BY DEF Init
<1>3. patient \in BOOLEAN /\ open \in BOOLEAN /\ torn \in BOOLEAN
  BY Zenon
<1>4. seen \in [line : Numbers \cup {None}, body : Seq(Tokens)]
  BY <1>1
<1>5. handed \in Seq(Handing) /\ wire \in Seq(ResponseTypes)
  BY <1>1
<1> QED
  BY <1>2, <1>3, <1>4, <1>5 DEF TypesInv

\* The invariants the argument rests on.
LEMMA ConnectionInvariants == ConnectionSpec => [](TInv /\ UsedInv /\ ServingInv /\ TypesInv)
<1>1. ConnectionSpec => [](TInv /\ UsedInv /\ ServingInv)
  BY ConnectionParses, SpecTInv, SpecUsedInv, ServingInvariant, PTL
<1> QED
  BY <1>1, ConnectionTypesInit, ConnectionTypesNext, PTL DEF ConnectionSpec

\* A connection's variables keep their types in all of its threads: what a handler
\* answers with has been read from a request that had been parsed and emitted.
THEOREM ConnectionTypes == ConnectionSpec => []ConnectionTypeOK
<1>1. ConnectionSpec => []TypeOK
  BY ConnectionParses, ParserTypes, PTL
<1>2. TypeOK /\ ServingInv /\ TypesInv => ConnectionTypeOK
  BY DEF ServingInv, HandedInv, TasksInv, TypesInv, Handing, ResponseTypes,
         ConnectionTypeOK
<1> QED
  BY <1>1, <1>2, ConnectionInvariants, PTL
-----------------------------------------------------------------------------
(* A patient client.                                                       *)

\* Nothing has been received of a request that is not the next one to be answered,
\* or an earlier one.
PatienceInv ==
  patient =>
    /\ \A j \in 1..Len(buffer) : buffer[j].of <= Len(wire) + 1
    /\ \A j \in 1..Len(received) : received[j].of <= Len(wire) + 1
    /\ Reading => request.line <= Len(wire) + 1

\* Response w is for emission e.
IsFor(w, e) == w.version = e.line /\ w.line = e.line /\ w.body = e.body

\* One emission at most has no response yet, and the object is still as emitted.
Served ==
  LET last == emitted[Len(emitted)] IN
  /\ ~torn
  /\ Len(emitted) <= Len(wire) + 1
  /\ \A j \in 1..Len(handed) : handed[j].version = emitted[j].line
  /\ hpc \in {"body", "respond"} => seen.line = last.line
  /\ hpc = "respond" => seen.body = last.body
  /\ \A j \in DOMAIN wire : IsFor(wire[j], emitted[wire[j].of])

ServedInv == patient /\ AllWhole => Served

\* What is known of a connection in any state.
Known == TInv /\ UsedInv /\ ServingInv /\ TypesInv

LEMMA Counts ==
  ASSUME Known
  PROVE  /\ Len(wire) \in Nat /\ Len(handed) \in Nat /\ Len(emitted) \in Nat
         /\ DOMAIN wire = 1..Len(wire) /\ DOMAIN emitted = 1..Len(emitted)
         /\ Len(wire) <= Len(handed) /\ Len(handed) <= Len(emitted)
         /\ \A j \in DOMAIN wire : wire[j].of \in 1..Len(handed)
                                    /\ wire[j].of \in 1..Len(emitted)
<1>1. /\ Len(wire) \in Nat /\ DOMAIN wire = 1..Len(wire)
      /\ Len(handed) \in Nat /\ Len(emitted) \in Nat /\ DOMAIN emitted = 1..Len(emitted)
      /\ Len(handed) <= Len(emitted)
  BY DEF Known, TypesInv, TInv
<1>2. ASSUME NEW j \in DOMAIN wire
      PROVE  wire[j].of \in 1..Len(handed) /\ j <= wire[j].of
  <2>1. wire[j].of \in Tasks /\ tasks[wire[j].of] # "new" /\ j <= wire[j].of
    BY DEF Known, ServingInv, WireInv
  <2>2. wire[j].of <= Len(handed)
    BY <2>1 DEF Known, ServingInv, TasksInv
  <2> QED
    BY <1>1, <2>1, <2>2 DEF Tasks
<1>3. Len(wire) <= Len(handed)
  <2>1. CASE Len(wire) = 0
    BY <1>1, <2>1
  <2>2. CASE Len(wire) # 0
    <3>1. Len(wire) \in DOMAIN wire
      BY <1>1, <2>2
    <3>2. PICK w : w = wire[Len(wire)].of
      OBVIOUS
    <3>3. w \in 1..Len(handed) /\ Len(wire) <= w
      BY <1>2, <3>1, <3>2
    <3> QED
      BY <1>1, <3>3
  <2> QED
    BY <2>1, <2>2
<1>4. \A j \in DOMAIN wire : wire[j].of \in 1..Len(emitted)
  BY <1>1, <1>2
<1> QED
  BY <1>1, <1>2, <1>3, <1>4

\* A running task has no response yet.
LEMMA RunningIsUnanswered ==
  ASSUME Known, NEW k \in Tasks, tasks[k] = "running"
  PROVE  /\ k \in Nat /\ k > Len(wire) /\ k <= Len(handed)
         /\ Len(wire) < Len(emitted)
<1>1. k \in 1..Len(handed)
  BY RunningWasEmitted DEF Known
<1>2. /\ Len(wire) \in Nat /\ Len(handed) \in Nat /\ Len(emitted) \in Nat
      /\ DOMAIN wire = 1..Len(wire) /\ Len(handed) <= Len(emitted)
  BY Counts
<1>3. k > Len(wire)
  <2>1. CASE Len(wire) = 0
    BY <1>1, <2>1
  <2>2. CASE Len(wire) # 0
    <3>1. Len(wire) \in DOMAIN wire
      BY <1>2, <2>2
    <3>2. PICK w : w = wire[Len(wire)].of
      OBVIOUS
    <3>3. w \in Tasks /\ tasks[w] = "done" /\ Len(wire) <= w
      BY <3>1, <3>2 DEF Known, ServingInv, WireInv
    <3>4. ~(k < w) /\ k # w
      BY <3>3 DEF Known, ServingInv, TasksInv, Over
    <3> QED
      BY <1>1, <1>2, <3>3, <3>4 DEF Tasks
  <2> QED
    BY <2>1, <2>2
<1> QED
  BY <1>1, <1>2, <1>3

\* With an emission that has no response the object is as it was emitted.
LEMMA ObjectAtRest ==
  ASSUME Known, PatienceInv, patient, AllWhole, Len(wire) < Len(emitted)
  PROVE  AsEmitted
<1>1. Len(wire) \in Nat /\ Len(emitted) \in Nat
  BY Counts
<1>2. ~Reading
  <2> SUFFICES ASSUME Reading PROVE FALSE
    OBVIOUS
  <2>1. PICK q : q = request.line
    OBVIOUS
  <2>2. q > Len(emitted) /\ q <= Len(wire) + 1
    BY <2>1 DEF PatienceInv, Known, UsedInv, Used
  <2>3. q \in Nat
    BY <2>1, NumbersAre DEF Known, TInv, RequestInv, Line, None
  <2> QED
    BY <1>1, <2>2, <2>3
<1>3. emitted # <<>>
  BY <1>1
<1> QED
  BY <1>2, <1>3 DEF Known, UsedInv
-----------------------------------------------------------------------------
LEMMA PatienceKept ==
  ASSUME Known, PatienceInv, UNCHANGED <<patient, buffer, received, status, request>>,
         Len(wire') \in Nat, Len(wire) <= Len(wire')
  PROVE  PatienceInv'
<1> SUFFICES ASSUME patient PROVE PatienceInv'
  BY DEF PatienceInv
<1>1. PICK m, n : m = Len(wire) /\ n = Len(wire')
  OBVIOUS
<1>2. m \in Nat /\ n \in Nat /\ m <= n
  BY <1>1, Counts
<1>3. \A i \in Nat : i <= m + 1 => i <= n + 1
  BY <1>2
<1>4. \A j \in 1..Len(buffer) : buffer[j].of \in Nat /\ buffer[j].of <= m + 1
  <2>1. \A j \in 1..Len(buffer) : buffer[j] \in Tokens
    BY DEF Known, TInv, Position
  <2> QED
    BY <1>1, <2>1, NumbersAre DEF PatienceInv, Tokens, None
<1>5. \A j \in 1..Len(received) : received[j].of \in Nat /\ received[j].of <= m + 1
  <2>1. \A j \in 1..Len(received) : received[j] \in Tokens
    BY DEF Known, TInv, Socket
  <2> QED
    BY <1>1, <2>1, NumbersAre DEF PatienceInv, Tokens, None
<1>6. Reading => request.line \in Nat /\ request.line <= m + 1
  BY <1>1, NumbersAre DEF PatienceInv, Known, TInv, RequestInv, Line, None
<1> QED
  BY <1>1, <1>3, <1>4, <1>5, <1>6 DEF PatienceInv, Reading

LEMMA PatienceReceiving ==
  ASSUME Known, PatienceInv, Receive
  PROVE  PatienceInv'
<1> SUFFICES ASSUME patient PROVE PatienceInv'
  BY DEF PatienceInv, Receive
<1>1. /\ ReadFromSocket /\ Patience
      /\ UNCHANGED <<patient, wire, buffer, status, request>>
  BY DEF Receive, ReadFromSocket
<1>2. PICK n, c, h :
        /\ n \in 1..Len(stream) /\ Chunk(c, h, n)
        /\ received' = received \o c
        /\ stream' = SubSeq(stream, n + 1, Len(stream))
  BY <1>1, ReadAppends DEF Known, TInv
<1>3. HeldParts(received, c) /\ Len(stream') = Len(stream) - n
  BY <1>1, <1>2, PlacedReceived DEF Known, UsedInv
<1>4. Len(stream) \in Nat /\ n \in Nat
  BY <1>2 DEF Known, TInv, Socket
<1>5. \A j \in 1..n : stream[j].of <= Len(wire) + 1
  <2>1. Len(stream) - Len(stream') = n
    BY <1>3, <1>4
  <2> QED
    BY <1>1, <2>1 DEF Patience
<1>6. ASSUME NEW j \in 1..Len(received') PROVE received'[j].of <= Len(wire) + 1
  <2>1. j \in 1..Len(received) \/ \E i \in 1..Len(c) : received'[j] = c[i]
    BY <1>2, <1>3 DEF HeldParts
  <2>2. CASE j \in 1..Len(received)
    BY <1>2, <1>3, <2>2 DEF HeldParts, PatienceInv
  <2>3. ASSUME NEW i \in 1..Len(c), received'[j] = c[i]
        PROVE  received'[j].of <= Len(wire) + 1
    <3>1. h[i] \in 0..n
      BY <1>2 DEF Chunk
    <3>2. CASE h[i] = 0
      <4>1. c[i].of = 0
        BY <1>2, <3>2, LeftoverElements DEF Chunk
      <4> QED
        BY <2>3, <4>1, Counts
    <3>3. CASE h[i] # 0
      <4>1. h[i] \in 1..n /\ c[i] = stream[h[i]]
        BY <1>2, <1>4, <3>1, <3>3 DEF Chunk
      <4> QED
        BY <1>5, <2>3, <4>1
    <3> QED
      BY <3>2, <3>3
  <2> QED
    BY <2>1, <2>2, <2>3
<1> QED
  BY <1>1, <1>6 DEF PatienceInv, Reading

LEMMA PatienceParsing ==
  ASSUME Known, PatienceInv, Parse
  PROVE  PatienceInv'
<1> SUFFICES ASSUME patient PROVE PatienceInv'
  BY DEF PatienceInv, Parse
<1>1. Parser /\ patient' = patient /\ wire' = wire
  BY DEF Parse
<1>2. /\ \A j \in 1..Len(buffer') :
           \/ \E i \in 1..Len(buffer) : buffer'[j] = buffer[i]
           \/ \E i \in 1..Len(received) : buffer'[j] = received[i]
      /\ received' = received \/ received' = <<>>
      /\ Reading' => \/ Reading /\ request'.line = request.line
                     \/ \E i \in 1..Len(buffer) : request'.line = buffer[i].of
  BY <1>1, ParserTakes DEF Known
<1>3. \A j \in 1..Len(buffer') : buffer'[j].of <= Len(wire) + 1
  BY <1>2 DEF PatienceInv
<1>4. \A j \in 1..Len(received') : received'[j].of <= Len(wire) + 1
  BY <1>2 DEF PatienceInv
<1>5. Reading' => request'.line <= Len(wire) + 1
  BY <1>2 DEF PatienceInv
<1> QED
  BY <1>1, <1>3, <1>4, <1>5 DEF PatienceInv
-----------------------------------------------------------------------------
LEMMA ServedKept ==
  ASSUME ServedInv, UNCHANGED <<patient, emitted, handed, seen, wire, torn>>,
         hpc' = hpc \/ hpc' \in {"idle", "line"}
  PROVE  ServedInv'
BY DEF ServedInv, Served, AllWhole, IsFor

\* What the parser writes and emits is of a request whose predecessors are all
\* answered, so that no handler is reading.
LEMMA ServedParsing ==
  ASSUME Known, PatienceInv, ServedInv, Parse
  PROVE  ServedInv'
<1>1. /\ Parser
      /\ torn' = FALSE \/ Overlaps
      /\ UNCHANGED <<patient, handed, tasks, hpc, seen, open, wire>>
  BY DEF Parse, serverVars
<1>2. /\ Len(emitted) \in Nat /\ Len(emitted') \in Nat
      /\ \A j \in 1..Len(emitted) : emitted'[j] = emitted[j]
      /\ Len(emitted) <= Len(emitted')
  <2>1. [Next]_vars
    BY <1>1 DEF Next
  <2> QED
    BY <2>1, EmittedGrows DEF Known
<1> SUFFICES ASSUME patient, AllWhole' PROVE Served'
  BY <1>1 DEF ServedInv
<1>3. DOMAIN emitted = 1..Len(emitted) /\ DOMAIN emitted' = 1..Len(emitted')
  <2>1. emitted' \in Seq(Emission)
    BY <1>1, TypesNext DEF Known, Next, TInv
  <2> QED
    BY <2>1, Counts
<1>4. AllWhole
  BY <1>2, <1>3 DEF AllWhole
<1>5. Served
  BY <1>4 DEF ServedInv
<1>6. \A j \in 1..Len(handed) : handed'[j].version = emitted'[j].line
  <2>1. \A j \in 1..Len(handed) : j \in 1..Len(emitted)
    BY Counts
  <2> QED
    BY <1>1, <1>2, <1>5, <2>1 DEF Served
<1>7. \A j \in DOMAIN wire : IsFor(wire'[j], emitted'[wire'[j].of])
  <2>1. \A j \in DOMAIN wire : wire[j].of \in 1..Len(emitted)
    BY Counts
  <2> QED
    BY <1>1, <1>2, <1>5, <2>1 DEF Served
<1>8. CASE UNCHANGED <<request.line, request.body, emitted>>
  <2>1. ~torn'
    BY <1>1, <1>8 DEF Overlaps
  <2> QED
    BY <1>1, <1>5, <1>6, <1>7, <1>8, <2>1 DEF Served
<1>9. CASE ~UNCHANGED <<request.line, request.body, emitted>>
  <2>1. PICK i \in Nat : i > Len(emitted) /\ i <= Len(wire) + 1
    <3>1. CASE \E j \in 1..Len(buffer) : buffer[j].of > Len(emitted)
      <4>1. PICK j \in 1..Len(buffer) : buffer[j].of > Len(emitted)
        BY <3>1
      <4>2. buffer[j] \in Tokens
        BY DEF Known, TInv, Position
      <4>3. buffer[j].of \in Nat
        BY <4>2, NumbersAre DEF Tokens, None
      <4>4. buffer[j].of <= Len(wire) + 1
        BY DEF PatienceInv
      <4> QED
        BY <4>1, <4>3, <4>4
    <3>2. CASE Reading /\ request.line > Len(emitted)
      <4>1. request.line \in Nat
        BY NumbersAre DEF Known, TInv, RequestInv, Line, None
      <4> QED
        BY <3>2, <4>1 DEF PatienceInv
    <3> QED
      BY <1>1, <1>4, <1>9, <3>1, <3>2, OnlyForLater DEF Known, UsedInv
  <2>2. Len(emitted) <= Len(wire) /\ Len(wire) \in Nat
    BY <1>2, <2>1, Counts
  <2>3. hpc = "idle"
    <3> SUFFICES ASSUME hpc # "idle" PROVE FALSE
      OBVIOUS
    <3>1. PICK k \in Tasks : tasks[k] = "running"
      BY DEF Known, TypesInv
    <3>2. Len(wire) < Len(emitted)
      BY <3>1, RunningIsUnanswered
    <3> QED
      BY <1>2, <2>2, <3>2
  <2>4. ~torn'
    BY <1>1, <2>3 DEF Overlaps
  <2>5. Len(emitted') <= Len(wire) + 1
    <3>1. emitted' = emitted \/ Len(emitted') = Len(emitted) + 1
      BY <1>1, ParserEmits DEF Known
    <3> QED
      BY <1>2, <2>2, <3>1
  <2> QED
    BY <1>1, <1>6, <1>7, <2>3, <2>4, <2>5 DEF Served
<1> QED
  BY <1>8, <1>9

LEMMA ServedHandingOver ==
  ASSUME Known, PatienceInv, ServedInv, NewRequestReceived
  PROVE  ServedInv'
<1> SUFFICES ASSUME patient, AllWhole PROVE Served'
  BY DEF ServedInv, NewRequestReceived, AllWhole, vars
<1> DEFINE n == Len(handed) + 1
           h == [of |-> n, version |-> request.line]
<1>1. /\ handed' = Append(handed, h) /\ Len(handed) < Len(emitted)
      /\ UNCHANGED <<emitted, hpc, seen, wire, torn>>
  BY DEF NewRequestReceived, OldestQueued, vars
<1>2. h.version = request.line
  OBVIOUS
<1>3. Served
  BY DEF ServedInv
<1>4. n = Len(emitted) /\ Len(wire) < Len(emitted)
  <2>1. /\ Len(wire) \in Nat /\ Len(handed) \in Nat /\ Len(emitted) \in Nat
        /\ Len(wire) <= Len(handed)
    BY Counts
  <2>2. Len(handed) < Len(emitted) /\ Len(emitted) <= Len(wire) + 1
    BY <1>1, <1>3 DEF Served
  <2> QED
    BY <2>1, <2>2
<1>5. request.line = emitted[n].line
  BY <1>4, ObjectAtRest DEF AsEmitted
<1> HIDE DEF h
<1>6. Longer(handed, h, handed')
  BY <1>1, OneMore DEF Known, ServingInv, HandedInv
<1>7. \A j \in 1..Len(handed') : handed'[j].version = emitted[j].line
  <2> SUFFICES ASSUME NEW j \in 1..Len(handed') PROVE handed'[j].version = emitted[j].line
    OBVIOUS
  <2>1. CASE j \in 1..Len(handed)
    BY <1>3, <1>6, <2>1 DEF Served, Longer
  <2>2. CASE j = n
    BY <1>2, <1>5, <1>6, <2>2 DEF Longer
  <2> QED
    BY <1>6, <2>1, <2>2 DEF Longer
<1> QED
  BY <1>1, <1>3, <1>7 DEF Served

LEMMA ServedHandler ==
  ASSUME Known, PatienceInv, ServedInv, Handler
  PROVE  ServedInv'
<1>1. CASE Begin
  BY <1>1, ServedKept DEF Begin, FirstPlace, vars
<1> SUFFICES ASSUME ~Begin, patient, AllWhole PROVE Served'
  BY <1>1 DEF ServedInv, Handler, ReadLine, ReadBody, Respond, AllWhole, vars
<1>2. Served
  BY DEF ServedInv
<1>3. /\ UNCHANGED <<emitted, handed, torn, patient>>
      /\ hpc # "idle"
  BY DEF Handler, ReadLine, ReadBody, Respond, vars
<1>4. ASSUME NEW k \in Tasks, tasks[k] = "running"
      PROVE  /\ Len(wire) < Len(emitted) /\ k = Len(emitted) /\ k \in 1..Len(handed)
             /\ AsEmitted
  <2>1. k \in Nat /\ k > Len(wire) /\ k <= Len(handed) /\ Len(wire) < Len(emitted)
    BY <1>4, RunningIsUnanswered
  <2>2. AsEmitted
    BY <2>1, ObjectAtRest
  <2>3. /\ Len(wire) \in Nat /\ Len(handed) \in Nat /\ Len(emitted) \in Nat
        /\ Len(handed) <= Len(emitted) /\ Len(emitted) <= Len(wire) + 1
    BY <1>2, Counts DEF Served
  <2> QED
    BY <2>1, <2>2, <2>3
<1>5. PICK k \in Tasks : tasks[k] = "running"
  BY <1>3 DEF Known, TypesInv
<1>6. CASE ReadLine
  <2>1. /\ seen' = [line |-> request.line, body |-> <<>>] /\ hpc' = "body"
        /\ wire' = wire
    BY <1>6 DEF ReadLine
  <2>2. seen'.line = emitted[Len(emitted)].line
    BY <1>4, <1>5, <2>1 DEF AsEmitted
  <2> QED
    BY <1>2, <1>3, <2>1, <2>2 DEF Served
<1>7. CASE ReadBody
  <2>1. /\ seen' = [seen EXCEPT !.body = request.body] /\ hpc = "body"
        /\ hpc' = "respond" /\ wire' = wire
    BY <1>7 DEF ReadBody
  <2>2. seen'.line = seen.line /\ seen'.body = request.body
    BY <2>1 DEF Known, TypesInv
  <2>3. /\ seen'.line = emitted[Len(emitted)].line
        /\ seen'.body = emitted[Len(emitted)].body
    BY <1>2, <1>4, <1>5, <2>1, <2>2 DEF AsEmitted, Served
  <2> QED
    BY <1>2, <1>3, <2>1, <2>3 DEF Served
<1>8. CASE Respond
  <2>1. PICK l \in Tasks :
          /\ Pool!Finish(l)
          /\ wire' = IF open THEN wire \o Once(Response(l)) ELSE wire
    BY <1>8 DEF Respond
  <2>2. tasks[l] = "running" /\ hpc = "respond" /\ hpc' = "idle" /\ seen' = seen
    BY <1>8, <2>1 DEF Respond, Pool!Finish
  <2>3. l = Len(emitted) /\ l \in 1..Len(handed)
    BY <1>4, <2>2
  <2>4. CASE ~open
    BY <1>2, <1>3, <2>1, <2>2, <2>4 DEF Served
  <2>5. CASE open
    <3> DEFINE r == Response(l)
    <3>1. wire' = wire \o <<r>>
      BY <2>1, <2>5 DEF Once
    <3>2. handed[l].of = l
      BY <2>3 DEF Known, ServingInv, HandedInv
    <3>3. r.of = l /\ IsFor(r, emitted[l])
      BY <1>2, <2>2, <2>3, <3>2 DEF Response, IsFor, Served
    <3> HIDE DEF r
    <3>4. Longer(wire, r, wire')
      BY <3>1, OneMore DEF Known, ServingInv, WireInv
    <3>5. \A j \in DOMAIN wire' : IsFor(wire'[j], emitted[wire'[j].of])
      <4> SUFFICES ASSUME NEW j \in DOMAIN wire'
                   PROVE  IsFor(wire'[j], emitted[wire'[j].of])
        OBVIOUS
      <4>1. CASE j \in DOMAIN wire
        BY <1>2, <3>4, <4>1 DEF Served, Longer
      <4>2. CASE j = Len(wire) + 1
        BY <3>3, <3>4, <4>2 DEF Longer
      <4> QED
        BY <3>4, <4>1, <4>2 DEF Longer
    <3>6. Len(emitted) <= Len(wire') + 1
      BY <1>2, <3>4, Counts DEF Served, Longer
    <3> QED
      BY <1>2, <1>3, <2>2, <3>5, <3>6 DEF Served
  <2> QED
    BY <2>4, <2>5
<1> QED
  BY <1>6, <1>7, <1>8 DEF Handler
-----------------------------------------------------------------------------
LEMMA PatientNext ==
  Known /\ Known' /\ PatienceInv /\ ServedInv /\ [ConnectionNext]_connectionVars
    => PatienceInv' /\ ServedInv'
<1> SUFFICES ASSUME Known, Known', PatienceInv, ServedInv,
                    [ConnectionNext]_connectionVars
             PROVE  PatienceInv' /\ ServedInv'
  OBVIOUS
<1>1. CASE Receive
  <2>1. UNCHANGED <<patient, emitted, handed, hpc, seen, wire, torn>>
    BY <1>1 DEF Receive, ReadFromSocket, serverVars
  <2> QED
    BY <1>1, <2>1, PatienceReceiving, ServedKept
<1>2. CASE Parse
  BY <1>2, PatienceParsing, ServedParsing
<1>3. Len(wire') \in Nat
  BY DEF Known, TypesInv
<1>4. CASE Close \/ DropQueued \/ UNCHANGED connectionVars
  <2>1. UNCHANGED <<patient, buffer, received, status, request, emitted, handed, hpc,
                    seen, wire, torn>>
    BY <1>4 DEF Close, DropQueued, connectionVars, vars, socketVars, serverVars
  <2> QED
    BY <1>3, <2>1, PatienceKept, ServedKept
<1>5. CASE NewRequestReceived
  <2>1. UNCHANGED <<patient, buffer, received, status, request, wire>>
    BY <1>5 DEF NewRequestReceived, vars, socketVars
  <2> QED
    BY <1>3, <1>5, <2>1, PatienceKept, ServedHandingOver
<1>6. CASE Handler
  <2>1. UNCHANGED <<patient, buffer, received, status, request>>
    BY <1>6 DEF Handler, Begin, ReadLine, ReadBody, Respond, vars, socketVars
  <2>2. Len(wire) <= Len(wire')
    <3>1. wire' = wire \/ \E r : wire' = wire \o <<r>>
      BY <1>6 DEF Handler, Begin, ReadLine, ReadBody, Respond, Once
    <3>2. CASE wire' = wire
      BY <1>3, <3>2
    <3>3. ASSUME NEW r, wire' = wire \o <<r>> PROVE Len(wire) <= Len(wire')
      <4>1. Longer(wire, r, wire')
        BY <3>3, OneMore DEF Known, ServingInv, WireInv
      <4>2. Len(wire) \in Nat /\ Len(wire') = Len(wire) + 1
        BY <4>1 DEF Longer
      <4> QED
        BY <4>2
    <3> QED
      BY <3>1, <3>2, <3>3
  <2> QED
    BY <1>3, <1>6, <2>1, <2>2, PatienceKept, ServedHandler
<1> QED
  BY <1>1, <1>2, <1>4, <1>5, <1>6 DEF ConnectionNext

LEMMA PatientInit == ConnectionInit => PatienceInv /\ ServedInv
<1> SUFFICES ASSUME ConnectionInit PROVE PatienceInv /\ ServedInv
  OBVIOUS
<1>1. /\ buffer = <<>> /\ received = <<>> /\ emitted = <<>> /\ handed = <<>>
      /\ wire = <<>> /\ status = "REQUEST_LINE" /\ hpc = "idle" /\ torn = FALSE
  BY DEF ConnectionInit, Init
<1>2. PatienceInv
  BY <1>1 DEF PatienceInv, Reading
<1>3. Served
  BY <1>1 DEF Served
<1> QED
  BY <1>2, <1>3 DEF ServedInv

\* A client that waits for each response before its next request is served right,
\* whatever it sends, however it is cut, and whatever its reads leave out or append,
\* as long as each of its requests was in the buffer as a whole: the request object
\* is not written while a handler reads it, and each response has the version, the
\* line and the body of the request that was emitted for it.
THEOREM PatientServedRight == ConnectionSpec => []PatientIsServedRight
<1>1. ConnectionSpec => []Known
  BY ConnectionInvariants, PTL DEF Known
<1>2. ConnectionSpec => [](PatienceInv /\ ServedInv)
  BY <1>1, PatientInit, PatientNext, PTL DEF ConnectionSpec
<1>3. ServedInv => PatientIsServedRight
  BY DEF ServedInv, Served, AllWhole, IsFor, PatientIsServedRight
<1> QED
  BY <1>2, <1>3, PTL
=============================================================================
