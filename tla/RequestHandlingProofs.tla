------------------------ MODULE RequestHandlingProofs ------------------------
(***************************************************************************)
(* Proofs about RequestHandling for any controllers, routes, registrations *)
(* and requests.                                                           *)
(*                                                                         *)
(* The argument for the choice of the controller: an entry of the map is   *)
(* never changed or taken out, so every entry that was there when a request*)
(* was begun is still to come or has been compared.  For the default page: *)
(* a response writes nothing before its controller is called, and what the *)
(* default page still has to do keeps the status.  For the middlewares: a  *)
(* controller that is called is registered, so that its path changes only  *)
(* if it is registered again.                                              *)
(***************************************************************************)
EXTENDS RequestHandling, FiniteSetTheorems, SequenceLemmas

PathOf(r) == Requests[r].path

\* The map's entries are paths, and those the request was begun with stay.
MapInv ==
  /\ registered \in 0..Len(Registration)
  /\ controllerMap \in [Controllers -> Seq(STRING) \cup {NoPath}]
  /\ present \in [Controllers -> Seq(STRING) \cup {NoPath}]
  /\ \A c \in Controllers : present[c] # NoPath => controllerMap[c] = present[c]
  /\ DOMAIN controllerPath = Controllers
  /\ \A c \in Entries : \E j \in 1..registered : Registration[j].controller = c

\* Every entry the walk has passed matches at most as much as its best.
WalkInv ==
  /\ req \in 0..Len(Requests)
  /\ pc \in {"idle", "walk", "dispatch", "middlewares", "run"}
  /\ pc # "idle" => req # 0
  /\ maxMatchSize \in Nat
  /\ controller \in Controllers \cup {None}
  /\ controller = None <=> maxMatchSize = 0
  /\ pc = "walk" => cursor \in Entries
  /\ controller # None => controller \in Entries
  /\ \A c \in Controllers :
       /\ present[c] # NoPath
       /\ pc = "dispatch" \/ (pc = "walk" /\ c < cursor)
       => PathMatchSize(present[c], PathOf(req)) <= maxMatchSize

IInv == MapInv /\ WalkInv
-----------------------------------------------------------------------------
\* How many segments are equal is a number, and for a path that is a prefix and
\* not empty it is not 0.
LEMMA MatchIsNat ==
  ASSUME NEW cpath \in Seq(STRING), NEW rpath \in Seq(STRING)
  PROVE  PathMatchSize(cpath, rpath) \in Nat
<1> DEFINE E == {j \in DOMAIN cpath : cpath[j] = rpath[j]}
<1>1. IsFiniteSet(1..Len(cpath))
  BY FS_Interval
<1>2. E \in SUBSET (1..Len(cpath))
  OBVIOUS
<1>3. IsFiniteSet(E)
  BY <1>1, <1>2, FS_Subset
<1>4. Cardinality(E) \in Nat
  BY <1>3, FS_CardinalityType
<1> QED
  BY <1>4 DEF PathMatchSize

LEMMA PrefixMatches ==
  ASSUME NEW cpath \in Seq(STRING), NEW rpath \in Seq(STRING),
         cpath # <<>>, IsPrefix(cpath, rpath)
  PROVE  PathMatchSize(cpath, rpath) # 0
<1> DEFINE E == {j \in DOMAIN cpath : cpath[j] = rpath[j]}
<1>1. Len(cpath) \in Nat /\ Len(cpath) # 0 /\ Len(rpath) \in Nat
  BY EmptySeq
<1>2. Len(cpath) <= Len(rpath)
  BY DEF IsPrefix
<1>3. SubSeq(cpath, 1, Len(cpath))[1] = cpath[1]
  BY <1>1
<1>4. SubSeq(rpath, 1, Len(cpath))[1] = rpath[1]
  BY <1>1, <1>2
<1>5. cpath[1] = rpath[1]
  BY <1>3, <1>4 DEF IsPrefix
<1>6. 1 \in E
  BY <1>1, <1>5
<1>7. IsFiniteSet(1..Len(cpath))
  BY FS_Interval, <1>1
<1>8. E \in SUBSET (1..Len(cpath))
  OBVIOUS
<1>9. IsFiniteSet(E)
  BY <1>7, <1>8, FS_Subset
<1>10. Cardinality(E) # 0
  BY <1>6, <1>9, FS_EmptySet
<1> QED
  BY <1>1, <1>2, <1>10 DEF PathMatchSize

LEMMA RequestPath ==
  ASSUME NEW r \in 1..Len(Requests)
  PROVE  PathOf(r) \in Seq(STRING)
<1> DEFINE R == [method : STRING, path : Seq(STRING), slash : BOOLEAN]
<1>1. Requests \in Seq(R)
  BY RequestsAssumption
<1> HIDE DEF R
<1>2. Requests[r] \in R
  BY <1>1
<1> QED
  BY <1>2 DEF PathOf, R

LEMMA RegistrationEntry ==
  ASSUME NEW j \in 1..Len(Registration)
  PROVE  /\ Registration[j].controller \in Controllers
         /\ Registration[j].path \in Seq(STRING)
         /\ Registration[j].path # NoPath
<1> DEFINE R == [controller : Controllers, path : Seq(STRING) \ {NoPath}]
<1>1. Registration \in Seq(R)
  BY RegistrationAssumption
<1> HIDE DEF R
<1>2. Registration[j] \in R
  BY <1>1
<1> QED
  BY <1>2 DEF R

LEMMA InitIInv == Init => IInv
<1> SUFFICES ASSUME Init PROVE IInv
  OBVIOUS
<1>1. Len(Registration) \in Nat /\ Len(Requests) \in Nat
  BY RegistrationAssumption, RequestsAssumption
<1> QED
  BY <1>1 DEF Init, IInv, MapInv, WalkInv, Entries, None

LEMMA GoToInv ==
  ASSUME NEW es \in SUBSET Controllers, GoTo(es)
  PROVE  \/ es = {} /\ pc' = "dispatch"
         \/ /\ pc' = "walk" /\ cursor' \in es
            /\ \A d \in es : cursor' <= d
  BY DEF GoTo

LEMMA BeginRequestInv == IInv /\ BeginRequest => IInv'
<1> SUFFICES ASSUME IInv, BeginRequest PROVE IInv'
  OBVIOUS
<1> USE DEF IInv, MapInv, WalkInv
<1>1. Entries \in SUBSET Controllers /\ GoTo(Entries)
  BY DEF BeginRequest, Entries
<1>2. \/ Entries = {} /\ pc' = "dispatch"
      \/ pc' = "walk" /\ cursor' \in Entries /\ \A d \in Entries : cursor' <= d
  BY <1>1, GoToInv
<1>3. UNCHANGED mapVars /\ Entries' = Entries
  BY DEF BeginRequest, mapVars, Entries
<1>4. MapInv'
  BY <1>3 DEF BeginRequest, mapVars
<1>5. /\ req' \in 0..Len(Requests) /\ req' # 0
      /\ maxMatchSize' = 0 /\ controller' = None
  BY RequestsAssumption DEF BeginRequest
<1>6. ASSUME NEW c \in Controllers, present'[c] # NoPath
      PROVE  pc' = "walk" /\ ~(c < cursor')
  <2>1. c \in Entries
    BY <1>6 DEF BeginRequest, Entries
  <2>2. cursor' \in Controllers /\ cursor' <= c /\ pc' = "walk"
    BY <1>1, <1>2, <2>1
  <2> QED
    BY <2>2, ControllersAssumption
<1>7. pc' \in {"walk", "dispatch"}
  BY <1>2
<1>8. ASSUME NEW c \in Controllers, present'[c] # NoPath,
             pc' = "dispatch" \/ (pc' = "walk" /\ c < cursor')
      PROVE  PathMatchSize(present'[c], PathOf(req')) <= maxMatchSize'
  BY <1>6, <1>8
<1>9. pc' = "walk" => cursor' \in Entries'
  BY <1>2, <1>3
<1> QED
  BY <1>4, <1>5, <1>7, <1>8, <1>9 DEF None

LEMMA WalkStepInv == IInv /\ Walk => IInv'
<1> SUFFICES ASSUME IInv, Walk PROVE IInv'
  OBVIOUS
<1> USE DEF IInv, MapInv, WalkInv
<1> DEFINE Later == {c \in Entries : cursor < c}
           size == PathMatchSize(controllerMap[cursor], PathOf(req))
<1>1. Later \in SUBSET Controllers /\ GoTo(Later)
  BY DEF Walk, Entries
<1>2. \/ Later = {} /\ pc' = "dispatch"
      \/ pc' = "walk" /\ cursor' \in Later /\ \A d \in Later : cursor' <= d
  BY <1>1, GoToInv
<1>3. UNCHANGED mapVars /\ Entries' = Entries /\ UNCHANGED <<req, present>>
  BY DEF Walk, mapVars, Entries
<1>4. MapInv'
  BY <1>3 DEF mapVars
<1>5. pc = "walk" /\ cursor \in Controllers /\ controllerMap[cursor] # NoPath
  BY DEF Walk, Entries
<1>6. req \in 1..Len(Requests) /\ PathOf(req) \in Seq(STRING)
  <2>1. req \in 1..Len(Requests)
    BY <1>5
  <2> QED
    BY <2>1, RequestPath
<1>7. size \in Nat
  BY <1>5, <1>6, MatchIsNat
<1>8. \/ maxMatchSize < size /\ maxMatchSize' = size /\ controller' = cursor
      \/ ~(maxMatchSize < size) /\ UNCHANGED <<maxMatchSize, controller>>
  BY DEF Walk, Better, PathOf
<1>9. /\ maxMatchSize' \in Nat
      /\ maxMatchSize <= maxMatchSize' /\ size <= maxMatchSize'
      /\ controller' \in Controllers \cup {None}
      /\ controller' = None <=> maxMatchSize' = 0
  BY <1>5, <1>7, <1>8, ControllersAssumption DEF None
<1>10. ASSUME NEW c \in Controllers, present'[c] # NoPath,
              pc' = "dispatch" \/ (pc' = "walk" /\ c < cursor')
       PROVE  PathMatchSize(present'[c], PathOf(req')) <= maxMatchSize'
  <2>1. present[c] # NoPath /\ present[c] = controllerMap[c] /\ c \in Entries
    BY <1>3, <1>10 DEF Entries
  <2>2. c \notin Later
    BY <1>1, <1>2, <1>10, ControllersAssumption
  <2>3. c < cursor \/ c = cursor
    BY <2>1, <2>2, <1>5, ControllersAssumption
  <2>4. CASE c = cursor
    BY <2>1, <2>4, <1>3, <1>9
  <2>5. CASE c < cursor
    <3>1. PathMatchSize(present[c], PathOf(req)) <= maxMatchSize
      BY <2>1, <2>5, <1>5
    <3>2. PathMatchSize(present[c], PathOf(req)) \in Nat
      BY <2>1, <1>6, MatchIsNat
    <3> QED
      BY <3>1, <3>2, <1>3, <1>9
  <2> QED
    BY <2>3, <2>4, <2>5
<1>11. /\ pc' \in {"walk", "dispatch"}
       /\ pc' = "walk" => cursor' \in Entries'
  BY <1>2, <1>3
<1>12. controller' # None => controller' \in Entries'
  BY <1>3, <1>5, <1>8 DEF Entries
<1> QED
  BY <1>3, <1>4, <1>6, <1>9, <1>10, <1>11, <1>12

\* Registration adds an entry, or none.
LEMMA RegisterInv == IInv /\ Register => IInv'
<1> SUFFICES ASSUME IInv, Register PROVE IInv'
  OBVIOUS
<1> USE DEF IInv, MapInv, WalkInv
<1> DEFINE entry == Registration[registered + 1]
<1>1. /\ registered' \in 0..Len(Registration)
      /\ entry.controller \in Controllers
      /\ entry.path \in Seq(STRING) /\ entry.path # NoPath
  <2>1. registered + 1 \in 1..Len(Registration) /\ registered' = registered + 1
    BY RegistrationAssumption DEF Register
  <2> QED
    BY <2>1, RegistrationEntry
<1>2. UNCHANGED <<walkVars, pc>>
  BY DEF Register
<1>3. \/ UNCHANGED controllerMap
      \/ /\ controllerMap[entry.controller] = NoPath
         /\ controllerMap' = [controllerMap EXCEPT ![entry.controller] = entry.path]
  BY DEF Register
<1>4. /\ controllerMap' \in [Controllers -> Seq(STRING) \cup {NoPath}]
      /\ \A c \in Controllers :
           controllerMap[c] # NoPath => controllerMap'[c] = controllerMap[c]
  BY <1>1, <1>3
<1>5. MapInv'
  <2>1. DOMAIN controllerPath' = Controllers
    BY DEF Register
  <2>2. registered + 1 \in 1..registered' /\ 1..registered \subseteq 1..registered'
    BY RegistrationAssumption DEF Register
  <2>3. \A c \in Entries' : c \in Entries \/ c = entry.controller
    BY <1>3 DEF Entries
  <2>4. \A c \in Entries' : \E j \in 1..registered' : Registration[j].controller = c
    BY <2>2, <2>3
  <2> QED
    BY <1>1, <1>2, <1>4, <2>1, <2>4 DEF walkVars
<1>6. Entries \subseteq Entries'
  BY <1>4 DEF Entries
<1> QED
  BY <1>2, <1>5, <1>6 DEF walkVars

\* Everything else leaves the map and the walk alone, but for the place.
LEMMA OtherInv ==
  ASSUME IInv, UNCHANGED <<mapVars, walkVars>>,
         \/ pc' = pc \/ pc' = "idle"
         \/ pc # "idle" /\ pc' \in {"middlewares", "run"}
  PROVE  IInv'
<1>1. Entries' = Entries
  BY DEF Entries, mapVars
<1> QED
  BY <1>1 DEF IInv, MapInv, WalkInv, mapVars, walkVars

\* The steps that serve a request once its controller has been chosen.
Serving ==
  \/ DispatchRestful \/ Dispatch \/ CallCallback \/ SetStatus \/ SendEmpty
  \/ SendBody \/ Render \/ Write \/ EndRequest

LEMMA NextIInv == IInv /\ [Next]_vars => IInv'
<1> SUFFICES ASSUME IInv, [Next]_vars PROVE IInv'
  OBVIOUS
<1>1. CASE BeginRequest
  BY <1>1, BeginRequestInv
<1>2. CASE Walk
  BY <1>2, WalkStepInv
<1>3. CASE Register
  BY <1>3, RegisterInv
<1>4. CASE Serving \/ Close \/ Reset \/ UNCHANGED vars
  <2>1. UNCHANGED <<mapVars, walkVars>>
    BY <1>4 DEF Serving, DispatchRestful, Dispatch, CallCallback, SetStatus,
       SendEmpty, SendBody, Render, RenderFound, RenderMissing, SendResponse,
       Write, EndRequest, Close, Reset, vars
  <2>2. \/ pc' = pc \/ pc' = "idle"
        \/ pc # "idle" /\ pc' \in {"middlewares", "run"}
    BY <1>4 DEF Serving, DispatchRestful, Dispatch, CallCallback, AtCallback,
       SetStatus, SendEmpty, SendBody, Render, RenderFound, RenderMissing,
       SendResponse, Write, EndRequest, Close, Reset, vars
  <2> QED
    BY <2>1, <2>2, OtherInv
<1> QED
  BY <1>1, <1>2, <1>3, <1>4 DEF Next, ProcessRequest, Serving

LEMMA SpecIInv == Spec => []IInv
<1>1. IInv /\ [Next]_vars => IInv'
  BY NextIInv
<1> QED
  BY InitIInv, <1>1, PTL DEF Spec

\* However registration and requests fall, the controller chosen matches at
\* least as much as any that was registered when the request was begun.
THEOREM BestController == Spec => []BestMatch
<1>1. IInv => BestMatch
  BY DEF IInv, WalkInv, BestMatch, PathOf
<1> QED
  BY SpecIInv, <1>1, PTL

\* The default controller never gets a request that begins with the path of a
\* controller registered when the request was begun.
THEOREM PrefixNotPassedOver == Spec => []PrefixServed
<1>1. IInv => PrefixServed
  <2> SUFFICES ASSUME IInv, pc = "dispatch", controller = None,
                      NEW c \in Controllers, present[c] # NoPath,
                      present[c] # <<>>, IsPrefix(present[c], PathOf(req))
               PROVE  FALSE
    BY DEF PrefixServed, PathOf
  <2>1. present[c] \in Seq(STRING) /\ req \in 1..Len(Requests)
    BY DEF IInv, MapInv, WalkInv
  <2>2. PathOf(req) \in Seq(STRING)
    BY <2>1, RequestPath
  <2>3. PathMatchSize(present[c], PathOf(req)) <= 0
    BY DEF IInv, WalkInv
  <2>4. PathMatchSize(present[c], PathOf(req)) \in Nat
    BY <2>1, <2>2, MatchIsNat
  <2>5. PathMatchSize(present[c], PathOf(req)) # 0
    BY <2>1, <2>2, PrefixMatches
  <2> QED
    BY <2>3, <2>4, <2>5
<1> QED
  BY SpecIInv, <1>1, PTL
-----------------------------------------------------------------------------
(* The default page.                                                       *)

\* What the default page still has to do once it has set the status.
PageLeft == {<<Op("page", 0)>>, <<Op("send", 0)>>, <<>>}

\* Nothing has been called yet for the request, nor found that might answer it.
Quiet ==
  pc \in {"walk", "dispatch"} \/ (pc = "middlewares" /\ middlewaresOf = None)

\* Until then nothing of the request is written, or on its way; and it does not
\* count as unmatched before its callback has been looked for.
FreshInv ==
  /\ \A r \in unmatched : r \in 1..req
  /\ \A j \in DOMAIN out : out[j].of = req
  /\ \A j \in DOMAIN wire : wire[j].of \in 1..req
  /\ ~Working => out = <<>>
  /\ Quiet => \A j \in DOMAIN wire : wire[j].of # req
  /\ pc \in {"walk", "dispatch", "middlewares"} => req \notin unmatched
  /\ pc = "middlewares" /\ middlewaresOf = None => todo = <<>> /\ out = <<>>

\* The default page is about to set the status, or has set it.
PageInv ==
  /\ pc = "run" /\ req \in unmatched =>
       todo = NotFound \/ (status = 404 /\ todo \in PageLeft)
  /\ \A j \in DOMAIN out :
       out[j].part = "status" /\ req \in unmatched => out[j].n = 404

PInv ==
  /\ IInv
  /\ IsSequence(out) /\ IsSequence(wire)
  /\ FreshInv
  /\ PageInv
  /\ NotFoundIs404

\* What sendResponse is to write: parts of this request, one of them a status.
Parts(n, size) ==
  <<Part("status", status, req), Part("length", n, req), Part("blank", 0, req)>>
    \o (IF size = 0 THEN <<>> ELSE <<Part("body", size, req)>>)

LEMMA PartsElements ==
  ASSUME NEW n, NEW size
  PROVE  /\ IsSequence(Parts(n, size))
         /\ \A j \in DOMAIN Parts(n, size) :
              /\ Parts(n, size)[j].of = req
              /\ Parts(n, size)[j].part = "status" => Parts(n, size)[j].n = status
<1> DEFINE a == Part("status", status, req)
           b == Part("length", n, req)
           c == Part("blank", 0, req)
           d == Part("body", size, req)
           S == {a, b, c, d}
<1>1. \A x \in S : x.of = req /\ (x.part = "status" => x.n = status)
  BY DEF Part
<1> HIDE DEF a, b, c, d
<1>2. <<a, b, c>> \in Seq(S) /\ <<d>> \in Seq(S) /\ <<>> \in Seq(S)
  OBVIOUS
<1>3. Parts(n, size) = <<a, b, c>> \o (IF size = 0 THEN <<>> ELSE <<d>>)
  BY DEF Parts, a, b, c, d
<1> HIDE DEF S
<1>4. (IF size = 0 THEN <<>> ELSE <<d>>) \in Seq(S)
  BY <1>2
<1>5. Parts(n, size) \in Seq(S)
  BY <1>2, <1>3, <1>4
<1>6. \A j \in DOMAIN Parts(n, size) : Parts(n, size)[j] \in S
  BY <1>5
<1> QED
  BY <1>1, <1>5, <1>6 DEF IsSequence

LEMMA InitPInv == Init => PInv
<1> SUFFICES ASSUME Init PROVE PInv
  OBVIOUS
<1>1. out = <<>> /\ wire = <<>> /\ unmatched = {} /\ pc = "idle"
  BY DEF Init
<1>2. <<>> \in Seq({}) /\ DOMAIN <<>> = {}
  OBVIOUS
<1> QED
  BY <1>1, <1>2, InitIInv
  DEF PInv, IsSequence, FreshInv, PageInv, NotFoundIs404

\* A response is sent by a handler that has set its status, if it is to be 404.
LEMMA SendResponseInv ==
  ASSUME PInv, NEW n, NEW size, Working, out = <<>>, todo # <<>>,
         SendResponse(n, size),
         IInv', status' = status,
         req \in unmatched => status = 404 /\ todo' \in PageLeft
  PROVE  PInv'
<1>1. UNCHANGED <<req, pc, middlewaresOf, unmatched, wire>>
  BY DEF SendResponse, walkVars, routeVars, connectionVars
<1>2. UNCHANGED out \/ out' = Parts(n, size)
  BY DEF SendResponse, Parts
<1>3. IsSequence(out') /\ \A j \in DOMAIN out' :
        out'[j].of = req /\ (out'[j].part = "status" => out'[j].n = status)
  <2>1. CASE UNCHANGED out
    <3> DOMAIN out = {}
      BY DEF PInv
    <3> QED
      BY <2>1 DEF PInv
  <2>2. CASE out' = Parts(n, size)
    BY <2>2, PartsElements
  <2> QED
    BY <1>2, <2>1, <2>2
<1>4. FreshInv'
  BY <1>1, <1>3 DEF PInv, FreshInv, Quiet, Working
<1>5. PageInv'
  BY <1>1, <1>3 DEF PInv, PageInv
<1> QED
  BY <1>1, <1>3, <1>4, <1>5 DEF PInv, NotFoundIs404

LEMMA PageTails ==
  /\ Head(NotFound) = Op("status", 404) /\ Tail(NotFound) = <<Op("page", 0)>>
  /\ \A x : Head(<<x>>) = x /\ Tail(<<x>>) = <<>> /\ <<x>> # <<>>
  /\ \A x : <<x>> \o <<>> = <<x>>
<1>1. \A x, y : Head(<<x, y>>) = x /\ Tail(<<x, y>>) = <<y>>
  OBVIOUS
<1>2. \A x : Head(<<x>>) = x /\ Tail(<<x>>) = <<>> /\ <<x>> # <<>>
  OBVIOUS
<1>3. \A x : <<x>> \o <<>> = <<x>>
  OBVIOUS
<1> QED
  BY <1>1, <1>2, <1>3 DEF NotFound

\* What a handler of an unmatched request may do next, and what is left then.
LEMMA NextOfPage ==
  ASSUME PInv, pc = "run", req \in unmatched, todo # <<>>
  PROVE  \/ Head(todo) = Op("status", 404) /\ Tail(todo) = <<Op("page", 0)>>
         \/ /\ status = 404 /\ Head(todo) \in {Op("page", 0), Op("send", 0)}
            /\ Tail(todo) = <<>>
<1>1. todo = NotFound \/ (status = 404 /\ todo \in PageLeft)
  BY DEF PInv, PageInv
<1>2. CASE todo = NotFound
  BY <1>2, PageTails
<1>3. CASE status = 404 /\ todo \in PageLeft
  <2>1. todo = <<Op("page", 0)>> \/ todo = <<Op("send", 0)>>
    BY <1>3 DEF PageLeft
  <2>2. \A x : todo = <<x>> => Head(todo) = x /\ Tail(todo) = <<>>
    BY PageTails
  <2> QED
    BY <1>3, <2>1, <2>2
<1> QED
  BY <1>1, <1>2, <1>3

\* Every step of the handler keeps the invariant.
LEMMA HandlerInv ==
  ASSUME PInv, IInv', SetStatus \/ SendEmpty \/ SendBody \/ Render
  PROVE  PInv'
<1>1. Working /\ out = <<>> /\ todo # <<>>
  BY DEF SetStatus, SendEmpty, SendBody, Render, RenderFound, RenderMissing, Handle
<1>2. req \in unmatched =>
        \/ Head(todo) = Op("status", 404) /\ Tail(todo) = <<Op("page", 0)>>
        \/ /\ status = 404 /\ Head(todo) \in {Op("page", 0), Op("send", 0)}
           /\ Tail(todo) = <<>>
  BY <1>1, NextOfPage DEF PInv, FreshInv, Working
<1>3. ASSUME req \in unmatched, Head(todo).op # "status"
      PROVE  /\ status = 404 /\ Head(todo).op \in {"page", "send"}
             /\ Tail(todo) = <<>> /\ Tail(todo) \in PageLeft
  BY <1>2, <1>3 DEF Op, PageLeft
<1>4. CASE SetStatus
  <2>1. UNCHANGED <<req, pc, middlewaresOf, unmatched, wire, out>>
    BY <1>4 DEF SetStatus, walkVars, routeVars, connectionVars
  <2>2. req \in unmatched => status' = 404 /\ todo' = <<Op("page", 0)>>
    BY <1>2, <1>4 DEF SetStatus, Handle, Op
  <2>3. FreshInv' /\ PageInv'
    BY <1>1, <2>1, <2>2
    DEF PInv, FreshInv, Quiet, Working, PageInv, PageLeft
  <2> QED
    BY <2>1, <2>3 DEF PInv, NotFoundIs404
<1>5. ASSUME NEW op, NEW then, RenderMissing(op, then),
             <<op, then>> \in {<<"page", "send">>, <<"file", "page">>}
      PROVE  PInv'
  <2>1. UNCHANGED <<req, pc, middlewaresOf, unmatched, wire, out>>
    BY <1>5 DEF RenderMissing, walkVars, routeVars, connectionVars
  <2>2. Head(todo).op = op /\ op # "status" /\ status' = 404
        /\ todo' = <<Op(then, 0)>> \o Tail(todo)
    BY <1>5 DEF RenderMissing, Handle
  <2>3. req \in unmatched => status' = 404 /\ todo' = <<Op("send", 0)>>
    <3>1. (op = "page" /\ then = "send") \/ (op = "file" /\ then = "page")
      BY <1>5
    <3>2. req \in unmatched => op = "page" /\ Tail(todo) = <<>>
      BY <1>3, <2>2, <3>1
    <3> QED
      BY <2>2, <3>1, <3>2, PageTails
  <2>4. FreshInv' /\ PageInv'
    BY <1>1, <2>1, <2>3
    DEF PInv, FreshInv, Quiet, Working, PageInv, PageLeft
  <2> QED
    BY <2>1, <2>4 DEF PInv, NotFoundIs404
<1>6. ASSUME NEW op, RenderFound(op), op # "status"
      PROVE  PInv'
  <2>1. Head(todo).op = op /\ todo' = Tail(todo) /\ status' = status
    BY <1>6 DEF RenderFound, Handle
  <2>2. PICK size \in Sizes : SendResponse(size, size)
    BY <1>6 DEF RenderFound
  <2> QED
    BY <1>1, <1>3, <1>6, <2>1, <2>2, SendResponseInv
<1>7. CASE SendEmpty
  BY <1>1, <1>3, <1>7, SendResponseInv DEF SendEmpty, Handle
<1>8. CASE SendBody
  BY <1>1, <1>3, <1>8, SendResponseInv DEF SendBody, Handle
<1>9. CASE Render
  BY <1>5, <1>6, <1>9 DEF Render
<1> QED
  BY <1>4, <1>7, <1>8, <1>9

LEMMA NextPInv == PInv /\ [Next]_vars => PInv'
<1> SUFFICES ASSUME PInv, [Next]_vars PROVE PInv'
  OBVIOUS
<1>1. IInv'
  BY NextIInv DEF PInv
<1>2. CASE BeginRequest
  <2>1. /\ pc = "idle" /\ req' = req + 1 /\ req \in Nat
        /\ UNCHANGED <<out, wire, unmatched>> /\ pc' \in {"walk", "dispatch"}
    BY <1>2 DEF BeginRequest, connectionVars, GoTo, PInv, IInv, WalkInv
  <2>2. FreshInv' /\ PageInv'
    BY <2>1 DEF PInv, FreshInv, Quiet, Working, PageInv
  <2> QED
    BY <1>1, <2>1, <2>2 DEF PInv, NotFoundIs404
<1>3. CASE Walk
  <2>1. /\ pc = "walk" /\ pc' \in {"walk", "dispatch"}
        /\ UNCHANGED <<req, out, wire, unmatched>>
    BY <1>3 DEF Walk, GoTo, connectionVars
  <2>2. FreshInv' /\ PageInv'
    BY <2>1 DEF PInv, FreshInv, Quiet, Working, PageInv
  <2> QED
    BY <1>1, <2>1, <2>2 DEF PInv, NotFoundIs404
<1>4. CASE Dispatch
  <2>1. /\ pc = "dispatch" /\ UNCHANGED <<req, out, wire>>
        /\ pc' \in {"dispatch", "run"}
        /\ \/ unmatched' = unmatched
           \/ unmatched' = unmatched \cup {req} /\ todo' = NotFound
    <3>1. CASE NoSuchResource
      BY <1>4, <3>1 DEF Dispatch, walkVars, connectionVars
    <3>2. CASE ~NoSuchResource /\ controller = None
      BY <1>4, <3>2 DEF Dispatch, Operations, walkVars, connectionVars
    <3>3. CASE ~NoSuchResource /\ controller # None
      BY <1>4, <3>3 DEF Dispatch, walkVars, connectionVars
    <3> QED
      BY <3>1, <3>2, <3>3
  <2>2. out = <<>> /\ req \notin unmatched /\ \A j \in DOMAIN wire : wire[j].of # req
    BY <2>1 DEF PInv, FreshInv, Quiet, Working
  <2>3. DOMAIN out = {} /\ req \in 1..req
    BY <2>1, <2>2 DEF PInv, IInv, WalkInv
  <2>4. pc' = "dispatch" => unmatched' = unmatched
    BY <1>4, <2>1 DEF Dispatch
  <2>5. FreshInv' /\ PageInv' /\ NotFoundIs404'
    BY <2>1, <2>2, <2>3, <2>4
    DEF PInv, FreshInv, Quiet, Working, PageInv, NotFoundIs404
  <2> QED
    BY <1>1, <2>1, <2>5 DEF PInv
<1>8. CASE DispatchRestful
  <2>1. /\ pc = "dispatch" /\ pc' = "middlewares"
        /\ UNCHANGED <<req, out, wire, unmatched>>
        /\ middlewaresOf' = None => todo' = <<>>
    BY <1>8 DEF DispatchRestful, Middlewares, walkVars, connectionVars
  <2>2. FreshInv' /\ PageInv'
    BY <2>1 DEF PInv, FreshInv, Quiet, Working, PageInv
  <2> QED
    BY <1>1, <2>1, <2>2 DEF PInv, NotFoundIs404
<1>9. CASE CallCallback
  <2>1. /\ pc = "middlewares" /\ pc' = "run" /\ out = <<>>
        /\ UNCHANGED <<req, out, wire>>
        /\ \/ unmatched' = unmatched
           \/ /\ unmatched' = unmatched \cup {req} /\ todo' = NotFound
              /\ middlewaresOf = None
    BY <1>9 DEF CallCallback, AtCallback, Callback, walkVars, connectionVars
  <2>2. /\ req \notin unmatched
        /\ middlewaresOf = None => \A j \in DOMAIN wire : wire[j].of # req
    BY <2>1 DEF PInv, FreshInv, Quiet
  <2>3. DOMAIN out = {} /\ req \in 1..req
    BY <2>1 DEF PInv, IInv, WalkInv
  <2>4. FreshInv' /\ PageInv' /\ NotFoundIs404'
    BY <2>1, <2>2, <2>3
    DEF PInv, FreshInv, Quiet, Working, PageInv, NotFoundIs404
  <2> QED
    BY <1>1, <2>1, <2>4 DEF PInv
<1>5. CASE SetStatus \/ SendEmpty \/ SendBody \/ Render
  BY <1>1, <1>5, HandlerInv
<1>6. CASE Write
  <2>1. /\ Working /\ out # <<>> /\ out' = Tail(out)
        /\ UNCHANGED <<req, pc, middlewaresOf, unmatched, todo, status>>
        /\ wire' = wire \/ wire' = Append(wire, Head(out))
    BY <1>6 DEF Write, walkVars, routeVars, responseVars
  <2>2. /\ IsSequence(out') /\ Head(out) = out[1] /\ 1 \in DOMAIN out
        /\ \A j \in DOMAIN out' : j + 1 \in DOMAIN out /\ out'[j] = out[j + 1]
    BY <2>1, TailElements DEF PInv
  <2>3. /\ IsSequence(wire')
        /\ \A j \in DOMAIN wire' :
             (j \in DOMAIN wire /\ wire'[j] = wire[j]) \/ wire'[j] = out[1]
    <3>1. CASE wire' = wire
      BY <3>1 DEF PInv
    <3>2. CASE wire' = Append(wire, Head(out))
      <4>1. IsSequence(wire)
        BY DEF PInv
      <4>2. /\ IsSequence(Append(wire, out[1]))
            /\ \A j \in DOMAIN Append(wire, out[1]) :
                 \/ j \in DOMAIN wire /\ Append(wire, out[1])[j] = wire[j]
                 \/ Append(wire, out[1])[j] = out[1]
        BY <4>1, AppendElements
      <4> QED
        BY <3>2, <4>2, <2>2
    <3> QED
      BY <2>1, <3>1, <3>2
  <2>4. out[1].of = req /\ req \in 1..req
        /\ (out[1].part = "status" /\ req \in unmatched => out[1].n = 404)
    BY <2>1, <2>2 DEF PInv, FreshInv, Working, PageInv, IInv, WalkInv
  <2>5. FreshInv'
    BY <2>1, <2>2, <2>3, <2>4 DEF PInv, FreshInv, Quiet, Working
  <2>6. PageInv'
    BY <2>1, <2>2 DEF PInv, PageInv
  <2>7. NotFoundIs404'
    BY <2>1, <2>3, <2>4 DEF PInv, NotFoundIs404
  <2> QED
    BY <1>1, <2>2, <2>3, <2>5, <2>6, <2>7 DEF PInv
<1>7. CASE EndRequest \/ Register \/ Close \/ Reset \/ UNCHANGED vars
  <2>1. /\ UNCHANGED <<req, middlewaresOf, out, wire, unmatched, todo, status>>
        /\ pc' = pc \/ (pc' = "idle" /\ out = <<>>)
    BY <1>7 DEF EndRequest, Register, Close, Reset, vars, walkVars, routeVars,
       responseVars, connectionVars
  <2>2. FreshInv' /\ PageInv'
    BY <2>1 DEF PInv, FreshInv, Quiet, Working, PageInv
  <2> QED
    BY <1>1, <2>1, <2>2 DEF PInv, NotFoundIs404
<1> QED
  BY <1>2, <1>3, <1>4, <1>5, <1>6, <1>7, <1>8, <1>9 DEF Next, ProcessRequest

\* Whatever the routes, the files and the moment the connection closes, a
\* request nobody serves is never answered with a status other than 404.
THEOREM UnmatchedGet404 == Spec => []NotFoundIs404
<1>1. PInv /\ [Next]_vars => PInv'
  BY NextPInv
<1>2. PInv => NotFoundIs404
  BY DEF PInv
<1> QED
  BY InitPInv, <1>1, <1>2, PTL DEF Spec
-----------------------------------------------------------------------------
(* The middlewares.                                                        *)

\* A controller that is registered once is looked up by one path all along.
RouteInv ==
  /\ IInv
  /\ pc = "middlewares" =>
       /\ controller # None
       /\ RegisteredOnce(controller) => middlewaresOf = MiddlewareRoute(controller)
  /\ CallbackBehindMiddlewares

\* The routes depend on the request, the controller and its path only.
LEMMA SameRoute ==
  ASSUME UNCHANGED <<req, controller, middlewaresOf, callbackOf>>,
         RouteInv, IInv',
         pc' = pc \/ pc' \notin {"middlewares", "run"},
         pc = "middlewares" /\ RegisteredOnce(controller) =>
           controllerPath'[controller] = controllerPath[controller]
  PROVE  RouteInv'
<1>1. CallbackBehindMiddlewares'
  BY DEF RouteInv, CallbackBehindMiddlewares, RegisteredOnce
<1>2. pc = "middlewares" /\ RegisteredOnce(controller) =>
        MiddlewareRoute(controller)' = MiddlewareRoute(controller)
  BY DEF MiddlewareRoute, Matches
<1>3. RegisteredOnce(controller)' <=> RegisteredOnce(controller)
  BY DEF RegisteredOnce
<1> QED
  BY <1>1, <1>2, <1>3 DEF RouteInv

\* main registers another controller than the one being served, unless it
\* registers that one again.
LEMMA RegisterRouteInv == RouteInv /\ IInv' /\ Register => RouteInv'
<1> SUFFICES ASSUME RouteInv, IInv', Register PROVE RouteInv'
  OBVIOUS
<1> DEFINE c == Registration[registered + 1].controller
<1>1. pc' = pc /\ UNCHANGED <<req, controller, middlewaresOf, callbackOf>>
  BY DEF Register, walkVars, routeVars
<1>2. \/ UNCHANGED controllerPath
      \/ controllerPath' = [controllerPath EXCEPT ![c] =
                              Registration[registered + 1].path]
  BY DEF Register
<1>3. ASSUME pc = "middlewares", RegisteredOnce(controller)
      PROVE  controllerPath'[controller] = controllerPath[controller]
  <2>1. controller \in Entries /\ controller \in Controllers
    BY <1>3 DEF RouteInv, IInv, WalkInv, Entries
  <2>2. PICK j \in 1..registered : Registration[j].controller = controller
    BY <2>1 DEF RouteInv, IInv, MapInv
  <2>3. /\ registered \in Nat /\ registered < Len(Registration)
        /\ Len(Registration) \in Nat
        /\ DOMAIN Registration = 1..Len(Registration)
    BY RegistrationAssumption DEF Register, RouteInv, IInv, MapInv
  <2>4. /\ j \in DOMAIN Registration /\ registered + 1 \in DOMAIN Registration
        /\ j # registered + 1
    BY <2>3
  <2>5. c # controller
    BY <1>3, <2>2, <2>4 DEF RegisteredOnce
  <2>6. DOMAIN controllerPath = Controllers
    BY DEF RouteInv, IInv, MapInv
  <2> QED
    BY <1>2, <2>1, <2>5, <2>6
<1> QED
  BY <1>1, <1>3, SameRoute

LEMMA NextRouteInv == RouteInv /\ [Next]_vars => RouteInv'
<1> SUFFICES ASSUME RouteInv, [Next]_vars PROVE RouteInv'
  OBVIOUS
<1>1. IInv'
  BY NextIInv DEF RouteInv
<1>2. CASE BeginRequest \/ Walk
  <2>1. pc' \in {"walk", "dispatch"}
    BY <1>2 DEF BeginRequest, Walk, GoTo
  <2> QED
    BY <1>1, <2>1 DEF RouteInv, CallbackBehindMiddlewares
<1>3. CASE Register
  BY <1>1, <1>3, RegisterRouteInv
<1>4. CASE DispatchRestful
  <2>1. /\ pc' = "middlewares" /\ controller # None
        /\ UNCHANGED <<req, controller, controllerPath>>
        /\ middlewaresOf' = MiddlewareRoute(controller)
    BY <1>4 DEF DispatchRestful, walkVars, mapVars
  <2>2. MiddlewareRoute(controller)' = MiddlewareRoute(controller)
    BY <2>1 DEF MiddlewareRoute, Matches
  <2> QED
    BY <1>1, <2>1, <2>2 DEF RouteInv, CallbackBehindMiddlewares
<1>5. CASE Dispatch
  <2>1. /\ UNCHANGED controller
        /\ controller # None => Kind[controller] # "restful"
        /\ pc' \in {"dispatch", "run"}
    BY <1>5 DEF Dispatch, walkVars
  <2> QED
    BY <1>1, <2>1 DEF RouteInv, CallbackBehindMiddlewares
<1>6. CASE CallCallback
  <2>1. /\ pc = "middlewares" /\ pc' = "run"
        /\ UNCHANGED <<controller, middlewaresOf>>
        /\ callbackOf' = CallbackRoute(controller)
    BY <1>6 DEF CallCallback, AtCallback, walkVars
  <2>2. RegisteredOnce(controller) => callbackOf' = middlewaresOf
    BY <2>1 DEF RouteInv, CallbackRoute, MiddlewareRoute
  <2>3. CallbackBehindMiddlewares'
    BY <2>1, <2>2 DEF CallbackBehindMiddlewares, RegisteredOnce
  <2> QED
    BY <1>1, <2>1, <2>3 DEF RouteInv
<1>7. CASE \/ SetStatus \/ SendEmpty \/ SendBody \/ Render \/ Write \/ EndRequest
           \/ Close \/ Reset \/ UNCHANGED vars
  <2>1. UNCHANGED <<req, controller, middlewaresOf, callbackOf, controllerPath>>
    BY <1>7 DEF SetStatus, SendEmpty, SendBody, Render, RenderFound,
       RenderMissing, SendResponse, Write, EndRequest, Close, Reset, vars, mapVars,
       walkVars, routeVars
  <2>2. pc' = pc \/ pc' = "idle"
    BY <1>7 DEF SetStatus, SendEmpty, SendBody, Render, RenderFound,
       RenderMissing, SendResponse, Write, EndRequest, Close, Reset, vars
  <2> QED
    BY <1>1, <2>1, <2>2, SameRoute
<1> QED
  BY <1>2, <1>3, <1>4, <1>5, <1>6, <1>7 DEF Next, ProcessRequest

\* A callback of a controller that is registered once never runs without the
\* middlewares of its route, or behind those of another.
THEOREM NoCallbackWithoutMiddlewares == Spec => []CallbackBehindMiddlewares
<1>1. Init => RouteInv
  BY InitIInv DEF Init, RouteInv, CallbackBehindMiddlewares
<1>2. RouteInv /\ [Next]_vars => RouteInv'
  BY NextRouteInv
<1>3. RouteInv => CallbackBehindMiddlewares
  BY DEF RouteInv
<1> QED
  BY <1>1, <1>2, <1>3, PTL DEF Spec
-----------------------------------------------------------------------------
(* Types.                                                                  *)

GoodPart(p) ==
  /\ p.part \in {"status", "length", "blank", "body"}
  /\ p.n \in Nat
  /\ p.of \in 1..Len(Requests)

\* What the invariants above leave open of TypeOK.
DataInv ==
  /\ cursor \in Controllers \cup {None}
  /\ middlewaresOf \in Nat /\ callbackOf \in Nat
  /\ todo \in Seq(Calls)
  /\ status \in Int
  /\ length \in Nat \cup {Unknown}
  /\ \A j \in DOMAIN out : GoodPart(out[j])
  /\ \A j \in DOMAIN wire : GoodPart(wire[j])
  /\ open \in BOOLEAN /\ reset \in BOOLEAN /\ alive \in BOOLEAN
  /\ sends \in Nat

LEMMA CodesAreNat == Codes \subseteq Nat
  BY DEF Codes

\* Routes and handlers.
LEMMA RouteTypes ==
  ASSUME NEW c \in Controllers, NEW r \in DOMAIN Routes[c]
  PROVE  /\ DOMAIN Routes[c] \subseteq Nat \ {0}
         /\ FlattenSeq(Routes[c][r].middlewares) \in Seq(Calls)
         /\ Routes[c][r].callback \in Seq(Calls)
<1> DEFINE R == [method : STRING, path : Seq(STRING),
                 middlewares : Seq(Seq(Calls)), callback : Seq(Calls)]
<1>1. Routes[c] \in Seq(R)
  BY RoutesAssumption
<1> HIDE DEF R
<1>2. Routes[c][r] \in R /\ DOMAIN Routes[c] = 1..Len(Routes[c])
  BY <1>1
<1>3. /\ Routes[c][r].middlewares \in Seq(Seq(Calls))
      /\ Routes[c][r].callback \in Seq(Calls)
  BY <1>2 DEF R
<1> QED
  BY <1>2, <1>3, FlattenOfSeq

LEMMA FirstRouteType ==
  ASSUME NEW T \in SUBSET Nat
  PROVE  FirstRoute(T) = None \/ FirstRoute(T) \in T
<1>1. CASE T # {}
  <2>1. \E q \in T : \A l \in T : q <= l
    BY <1>1, LeastExists
  <2> QED
    BY <1>1, <2>1 DEF FirstRoute, Min
<1>2. CASE T = {}
  BY <1>2 DEF FirstRoute
<1> QED
  BY <1>1, <1>2

\* The routes found are routes of the controller, and what they call are calls.
LEMMA RoutesFound ==
  ASSUME NEW c \in Controllers, NEW r, r \in {MiddlewareRoute(c), CallbackRoute(c)}
  PROVE  /\ r \in Nat
         /\ Middlewares(c, r) \in Seq(Calls)
         /\ Callback(c, r) \in Seq(Calls)
<1> DEFINE T == {q \in DOMAIN Routes[c] : Matches(c, q)}
<1>1. DOMAIN Routes[c] \subseteq Nat
  BY RouteTypes
<1>2. r = None \/ r \in T
  <2>1. T \in SUBSET Nat
    BY <1>1
  <2>2. r = FirstRoute(T)
    BY DEF MiddlewareRoute, CallbackRoute
  <2> HIDE DEF T
  <2> QED
    BY <2>1, <2>2, FirstRouteType
<1>3. NotFound \in Seq(Calls) /\ <<>> \in Seq(Calls)
  <2>1. Op("status", 404) \in Calls /\ Op("page", 0) \in Calls
    BY DEF Op, Calls
  <2> QED
    BY <2>1 DEF NotFound
<1>4. CASE r = None
  BY <1>3, <1>4 DEF Middlewares, Callback, None
<1>5. CASE r # None
  <2>1. r \in DOMAIN Routes[c]
    BY <1>2, <1>5
  <2> QED
    BY <1>1, <1>5, <2>1, RouteTypes DEF Middlewares, Callback
<1> QED
  BY <1>4, <1>5

LEMMA OperationsType ==
  ASSUME controller \in Controllers \cup {None},
         controller # None => Kind[controller] # "restful",
         ~NoSuchResource
  PROVE  Operations \in Seq(Calls)
<1>1. \A n \in Nat : Op("page", n) \in Calls /\ Op("file", n) \in Calls
  BY DEF Op, Calls
<1>2. Op("status", 404) \in Calls
  BY DEF Op, Calls
<1>3. CASE controller = None
  BY <1>1, <1>2, <1>3 DEF Operations, NotFound
<1>4. CASE controller # None /\ Kind[controller] = "static"
  BY <1>1, <1>4 DEF Operations
<1>5. CASE controller # None /\ Kind[controller] # "static"
  <2>1. controller \in Controllers /\ Kind[controller] = "resource"
    BY <1>5, KindAssumption
  <2>2. LastPiece \in DOMAIN Resources[controller]
    BY <1>5, <2>1 DEF NoSuchResource
  <2> QED
    BY <1>5, <2>1, <2>2, ResourcesAssumption DEF Operations
<1> QED
  BY <1>3, <1>4, <1>5

\* A handler's next call, and what is left after it.
LEMMA NextCall ==
  ASSUME todo \in Seq(Calls), todo # <<>>
  PROVE  /\ Head(todo) \in Calls /\ Tail(todo) \in Seq(Calls)
         /\ Head(todo).n \in Int
         /\ Head(todo).op # "status" => Head(todo).n \in Nat
<1>1. Head(todo) \in Calls /\ Tail(todo) \in Seq(Calls)
  BY HeadTailProperties
<1> QED
  BY <1>1 DEF Calls

LEMMA SendTypes ==
  ASSUME PInv, DataInv, Working, out = <<>>,
         NEW n \in Nat, NEW size \in Nat, SendResponse(n, size),
         status' = status, todo' \in Seq(Calls)
  PROVE  DataInv'
<1>1. /\ length' \in Nat /\ sends' \in Nat /\ alive' \in BOOLEAN
      /\ UNCHANGED <<cursor, middlewaresOf, callbackOf, wire, open, reset, req>>
  <2>1. length' = n /\ sends' = sends + 1
    BY DEF SendResponse
  <2>2. alive' = FALSE \/ alive' = alive
    BY DEF SendResponse
  <2>3. UNCHANGED <<cursor, middlewaresOf, callbackOf, wire, open, reset, req>>
    BY DEF SendResponse, walkVars, routeVars, connectionVars
  <2>4. alive' \in BOOLEAN
    BY <2>2, Zenon DEF DataInv
  <2> QED
    BY <2>1, <2>3, <2>4 DEF DataInv
<1>2. \A j \in DOMAIN out' : GoodPart(out'[j])
  <2>1. req \in 1..Len(Requests)
    BY DEF Working, PInv, IInv, WalkInv
  <2>2. CASE status \notin Codes
    <3>1. out' = out
      BY <2>2 DEF SendResponse
    <3> QED
      BY <3>1 DEF DataInv
  <2>3. CASE status \in Codes
    <3> DEFINE a == Part("status", status, req)
               b == Part("length", n, req)
               c == Part("blank", 0, req)
               d == Part("body", size, req)
               S == {a, b, c, d}
    <3>1. \A x \in S : GoodPart(x)
      BY <2>1, <2>3, CodesAreNat DEF Part, GoodPart
    <3>2. out' = <<a, b, c>> \o (IF size = 0 THEN <<>> ELSE <<d>>)
      BY <2>3 DEF SendResponse
    <3> HIDE DEF a, b, c, d
    <3>3. <<a, b, c>> \in Seq(S) /\ <<d>> \in Seq(S) /\ <<>> \in Seq(S)
      OBVIOUS
    <3> HIDE DEF S
    <3>4. out' \in Seq(S)
      BY <3>2, <3>3
    <3> QED
      BY <3>1, <3>4
  <2> QED
    BY <2>2, <2>3
<1> QED
  BY <1>1, <1>2 DEF DataInv

LEMMA HandlerTypes ==
  ASSUME PInv, DataInv, SetStatus \/ SendEmpty \/ SendBody \/ Render
  PROVE  DataInv'
<1>1. Working /\ out = <<>> /\ todo # <<>> /\ todo \in Seq(Calls)
  BY DEF SetStatus, SendEmpty, SendBody, Render, RenderFound, RenderMissing,
     Handle, DataInv
<1>2. /\ Head(todo) \in Calls /\ Tail(todo) \in Seq(Calls)
      /\ Head(todo).n \in Int
      /\ Head(todo).op # "status" => Head(todo).n \in Nat
  BY <1>1, NextCall
<1>3. CASE SetStatus
  <2>1. /\ todo' = Tail(todo) /\ status' = Head(todo).n
        /\ UNCHANGED <<cursor, middlewaresOf, callbackOf, out, length, sends,
                       wire, open, reset, alive>>
    BY <1>3 DEF SetStatus, walkVars, routeVars, connectionVars
  <2> QED
    BY <1>2, <2>1, Zenon DEF DataInv, GoodPart
<1>4. CASE SendEmpty
  BY <1>1, <1>2, <1>4, SendTypes DEF SendEmpty
<1>5. CASE SendBody
  <2>1. Head(todo).n \in Nat
    BY <1>2, <1>5 DEF SendBody, Handle
  <2>2. LengthOf(Head(todo).n) \in Nat
    BY <2>1 DEF LengthOf, DataInv, Unknown
  <2> QED
    BY <1>1, <1>2, <1>5, <2>1, <2>2, SendTypes DEF SendBody
<1>6. ASSUME NEW op, RenderFound(op) PROVE DataInv'
  BY <1>1, <1>2, <1>6, SizesAssumption, SendTypes DEF RenderFound
<1>7. ASSUME NEW op, NEW then \in {"send", "page"}, RenderMissing(op, then)
      PROVE  DataInv'
  <2>1. /\ todo' = <<Op(then, 0)>> \o Tail(todo) /\ status' = 404
        /\ UNCHANGED <<cursor, middlewaresOf, callbackOf, out, length, sends,
                       wire, open, reset, alive>>
    BY <1>7 DEF RenderMissing, walkVars, routeVars, connectionVars
  <2>2. Op(then, 0) \in Calls
    BY DEF Op, Calls
  <2>3. todo' \in Seq(Calls) /\ status' \in Int
    BY <1>2, <2>1, <2>2
  <2> QED
    BY <2>1, <2>3, Zenon DEF DataInv, GoodPart
<1> QED
  BY <1>3, <1>4, <1>5, <1>6, <1>7 DEF Render

LEMMA WriteTypes == PInv /\ DataInv /\ Write => DataInv'
<1> SUFFICES ASSUME PInv, DataInv, Write PROVE DataInv'
  OBVIOUS
<1>1. /\ out # <<>> /\ out' = Tail(out)
      /\ wire' = wire \/ wire' = Append(wire, Head(out))
      /\ UNCHANGED <<cursor, middlewaresOf, callbackOf, todo, status, length,
                     sends, open, reset>>
      /\ alive' \in BOOLEAN
  BY DEF Write, walkVars, routeVars, responseVars
<1>2. IsSequence(out) /\ IsSequence(wire)
  BY DEF PInv
<1>3. /\ Head(out) = out[1] /\ 1 \in DOMAIN out
      /\ \A j \in DOMAIN out' : j + 1 \in DOMAIN out /\ out'[j] = out[j + 1]
  BY <1>1, <1>2, TailElements
<1>4. \A j \in DOMAIN wire' :
        (j \in DOMAIN wire /\ wire'[j] = wire[j]) \/ wire'[j] = Head(out)
  BY <1>1, <1>2, AppendElements
<1>5. /\ \A j \in DOMAIN out' : GoodPart(out'[j])
      /\ \A j \in DOMAIN wire' : GoodPart(wire'[j])
  BY <1>3, <1>4 DEF DataInv
<1> QED
  BY <1>1, <1>5, Zenon DEF DataInv, GoodPart

LEMMA DataNext == PInv /\ RouteInv /\ DataInv /\ [Next]_vars => DataInv'
<1> SUFFICES ASSUME PInv, RouteInv, DataInv, [Next]_vars PROVE DataInv'
  OBVIOUS
<1>1. CASE BeginRequest \/ Walk
  <2>1. cursor' \in Controllers \cup {None}
    BY <1>1 DEF BeginRequest, Walk, GoTo, Entries
  <2>2. /\ UNCHANGED <<todo, out, wire, open, reset, alive>>
        /\ middlewaresOf' \in {middlewaresOf, None} /\ callbackOf' \in {callbackOf, None}
        /\ status' \in {status, 200} /\ length' \in {length, Unknown}
        /\ sends' \in {sends, 0}
    BY <1>1 DEF BeginRequest, Walk, routeVars, responseVars, connectionVars
  <2>3. /\ middlewaresOf' \in Nat /\ callbackOf' \in Nat
        /\ status' \in Int /\ length' \in Nat \cup {Unknown} /\ sends' \in Nat
    BY <2>2 DEF DataInv, None
  <2> QED
    BY <2>1, <2>2, <2>3, Zenon DEF DataInv, GoodPart
<1>2. CASE DispatchRestful
  <2>1. controller \in Controllers
    BY <1>2 DEF DispatchRestful, PInv, IInv, WalkInv
  <2>2. middlewaresOf' \in Nat /\ todo' \in Seq(Calls)
    BY <1>2, <2>1, RoutesFound DEF DispatchRestful
  <2>3. UNCHANGED <<cursor, callbackOf, out, status, length, sends, wire, open, reset, alive>>
    BY <1>2 DEF DispatchRestful, walkVars, responseVars, connectionVars
  <2> QED
    BY <2>2, <2>3, Zenon DEF DataInv, GoodPart
<1>3. CASE Dispatch
  <2>1. UNCHANGED <<cursor, middlewaresOf, callbackOf, out, status, length, sends,
                    wire, open, reset>>
    BY <1>3 DEF Dispatch, walkVars, routeVars, responseVars, connectionVars
  <2>2. CASE NoSuchResource
    <3>1. todo' = todo /\ alive' = FALSE
      BY <1>3, <2>2 DEF Dispatch
    <3> QED
      BY <2>1, <3>1, Zenon DEF DataInv, GoodPart
  <2>3. CASE ~NoSuchResource
    <3>1. todo' = Operations /\ alive' = alive
      BY <1>3, <2>3 DEF Dispatch
    <3>2. Operations \in Seq(Calls)
      BY <1>3, <2>3, OperationsType DEF Dispatch, PInv, IInv, WalkInv
    <3> QED
      BY <2>1, <3>1, <3>2, Zenon DEF DataInv, GoodPart
  <2> QED
    BY <2>2, <2>3
<1>4. CASE CallCallback
  <2>1. controller \in Controllers
    <3>1. controller # None
      BY <1>4 DEF CallCallback, AtCallback, RouteInv
    <3> QED
      BY <3>1 DEF PInv, IInv, WalkInv
  <2>2. callbackOf' \in Nat /\ todo' \in Seq(Calls)
    BY <1>4, <2>1, RoutesFound DEF CallCallback
  <2>3. UNCHANGED <<cursor, middlewaresOf, out, status, length, sends, wire, open, reset, alive>>
    BY <1>4 DEF CallCallback, walkVars, responseVars, connectionVars
  <2> QED
    BY <2>2, <2>3, Zenon DEF DataInv, GoodPart
<1>5. CASE SetStatus \/ SendEmpty \/ SendBody \/ Render
  BY <1>5, HandlerTypes
<1>6. CASE Write
  BY <1>6, WriteTypes
<1>7. CASE Register \/ Close \/ Reset
  <2>1. /\ UNCHANGED <<cursor, middlewaresOf, callbackOf, todo, out, status, length,
                       sends, wire>>
        /\ open' \in {open, FALSE} /\ reset' \in {reset, TRUE}
        /\ alive' \in {alive, TRUE, FALSE}
    BY <1>7 DEF Register, Close, Reset, walkVars, routeVars, responseVars, connectionVars
  <2> QED
    BY <2>1, Zenon DEF DataInv, GoodPart
<1>8. CASE EndRequest \/ UNCHANGED vars
  <2>1. UNCHANGED <<cursor, middlewaresOf, callbackOf, todo, out, status, length,
                    sends, wire, open, reset, alive>>
    BY <1>8 DEF EndRequest, vars, walkVars, routeVars, responseVars, connectionVars
  <2> QED
    BY <2>1, Zenon DEF DataInv, GoodPart
<1> QED
  BY <1>1, <1>2, <1>3, <1>4, <1>5, <1>6, <1>7, <1>8 DEF Next, ProcessRequest

LEMMA DataInit == Init => DataInv
<1> SUFFICES ASSUME Init PROVE DataInv
  OBVIOUS
<1>1. DOMAIN <<>> = {} /\ <<>> \in Seq(Calls)
  OBVIOUS
<1>2. open \in BOOLEAN /\ reset \in BOOLEAN /\ alive \in BOOLEAN
  BY Zenon DEF Init
<1> QED
  BY <1>1, <1>2 DEF Init, DataInv, None, Unknown

LEMMA RouteInit == Init => RouteInv
  BY InitIInv DEF Init, RouteInv, CallbackBehindMiddlewares

HInv == PInv /\ RouteInv /\ DataInv

LEMMA SpecHInv == Spec => []HInv
<1>1. Init => HInv
  BY InitPInv, RouteInit, DataInit DEF HInv
<1>2. HInv /\ [Next]_vars => HInv'
  BY NextPInv, NextRouteInv, DataNext DEF HInv
<1> QED
  BY <1>1, <1>2, PTL DEF Spec

\* For any routes and handlers: what is registered, chosen, called and written has
\* its type; a response never begins with a status that is not a number, and what
\* is written belongs to a request.
THEOREM HandlingTypes == Spec => []TypeOK
<1>1. HInv => TypeOK
  <2> SUFFICES ASSUME HInv PROVE TypeOK
    OBVIOUS
  <2> USE DEF HInv, PInv, IInv
  <2>1. \A p \in ToSet(out) \cup ToSet(wire) : GoodPart(p)
    BY DEF DataInv, ToSet
  <2>2. unmatched \subseteq 1..Len(Requests)
    <3>1. Len(Requests) \in Nat /\ req \in 0..Len(Requests)
      BY RequestsAssumption DEF WalkInv
    <3> QED
      BY <3>1 DEF FreshInv
  <2>3. DOMAIN controllerMap = Controllers
    BY DEF MapInv
  <2> QED
    BY <2>1, <2>2, <2>3 DEF MapInv, WalkInv, DataInv, TypeOK, GoodPart
<1> QED
  BY <1>1, SpecHInv, PTL
-----------------------------------------------------------------------------
(* How often a request is answered.                                        *)

\* One more call in front is one more answer, unless it sets the status.
LEMMA AnswersOfOneMore ==
  ASSUME NEW s \in Seq(Calls), NEW t \in Seq(Calls), Len(t) = Len(s) + 1,
         \A j \in 1..Len(s) : t[j + 1] = s[j]
  PROVE  /\ Answers(s) \in Nat
         /\ Answers(t) = Answers(s) + IF t[1].op = "status" THEN 0 ELSE 1
<1> DEFINE n == Len(s)
           E == {j \in DOMAIN s : s[j].op # "status"}
           F == {j \in DOMAIN t : t[j].op # "status"}
           G == {j + 1 : j \in E}
           f == [j \in E |-> j + 1]
<1>1. n \in Nat /\ DOMAIN s = 1..n /\ DOMAIN t = 1..(n + 1)
  OBVIOUS
<1>2. IsFiniteSet(E) /\ Cardinality(E) \in Nat
  <2>1. IsFiniteSet(1..n) /\ E \in SUBSET (1..n)
    BY <1>1, FS_Interval
  <2>2. IsFiniteSet(E)
    BY <2>1, FS_Subset
  <2> QED
    BY <2>2, FS_CardinalityType
<1>3. IsFiniteSet(G) /\ Cardinality(G) = Cardinality(E)
  <2>1. \A j \in E : j \in Nat
    BY <1>1
  <2> HIDE DEF E
  <2>2. f \in [E -> G] /\ \A a, b \in E : f[a] = f[b] => a = b
    BY <2>1
  <2>3. \A b \in G : \E a \in E : f[a] = b
    OBVIOUS
  <2>4. f \in Bijection(E, G)
    BY <2>2, <2>3 DEF Bijection, Injection, Surjection, IsInjective
  <2> QED
    BY <1>2, <2>4, FS_Bijection DEF ExistsBijection
<1>4. 1 \notin G /\ \A j \in 2..(n + 1) : j \in G <=> j \in F
  <2>1. \A j \in E : j \in 1..n
    BY <1>1
  <2>2. ASSUME NEW j \in 2..(n + 1) PROVE j \in G <=> j \in F
    <3>1. j - 1 \in 1..n /\ (j - 1) + 1 = j /\ j \in DOMAIN t
      BY <1>1
    <3>2. t[j] = s[j - 1]
      BY <3>1
    <3>3. j \in G <=> j - 1 \in E
      BY <2>1, <3>1
    <3> QED
      BY <1>1, <3>1, <3>2, <3>3
  <2> QED
    BY <2>1, <2>2
<1>5. G \subseteq 2..(n + 1) /\ F \subseteq 1..(n + 1)
  BY <1>1
<1>6. Answers(s) = Cardinality(E) /\ Answers(t) = Cardinality(F)
  BY DEF Answers
<1>7. 1 \in F <=> t[1].op # "status"
  BY <1>1
<1> HIDE DEF E, F, G
<1>8. CASE t[1].op = "status"
  <2>1. F = G
    <3>1. \A j \in F : j \in 2..(n + 1)
      BY <1>1, <1>5, <1>7, <1>8
    <3>2. F \subseteq G /\ G \subseteq F
      BY <1>4, <1>5, <3>1
    <3> QED
      BY <3>2
  <2> QED
    BY <1>2, <1>3, <1>6, <1>8, <2>1
<1>9. CASE t[1].op # "status"
  <2>1. F = G \cup {1}
    <3>1. \A j \in F : j = 1 \/ j \in 2..(n + 1)
      BY <1>1, <1>5
    <3>2. F \subseteq G \cup {1} /\ G \subseteq F /\ 1 \in F
      BY <1>4, <1>5, <1>7, <1>9, <3>1
    <3> QED
      BY <3>2
  <2>2. Cardinality(F) = Cardinality(G) + 1
    BY <1>2, <1>3, <1>4, <2>1, FS_AddElement
  <2> QED
    BY <1>2, <1>3, <1>6, <1>9, <2>2
<1> QED
  BY <1>8, <1>9

LEMMA AnswersAreNat ==
  ASSUME NEW s \in Seq(Calls)
  PROVE  Answers(s) \in Nat
<1> DEFINE E == {j \in DOMAIN s : s[j].op # "status"}
<1>1. Len(s) \in Nat /\ E \in SUBSET (1..Len(s))
  OBVIOUS
<1>2. IsFiniteSet(E)
  BY <1>1, FS_Interval, FS_Subset
<1> QED
  BY <1>2, FS_CardinalityType DEF Answers

LEMMA NoAnswers == Answers(<<>>) = 0
<1>1. {j \in DOMAIN <<>> : <<>>[j].op # "status"} = {}
  OBVIOUS
<1> QED
  BY <1>1, FS_EmptySet DEF Answers

\* A handler's step takes one answer off what is left, or none.
LEMMA AnswersLeft ==
  ASSUME NEW s \in Seq(Calls), s # <<>>
  PROVE  /\ Answers(Tail(s)) \in Nat
         /\ Answers(s) = Answers(Tail(s)) + IF Head(s).op = "status" THEN 0 ELSE 1
         /\ \A x \in Calls :
              Answers(<<x>> \o Tail(s)) =
                Answers(Tail(s)) + IF x.op = "status" THEN 0 ELSE 1
<1> DEFINE t == Tail(s)
<1>1. t \in Seq(Calls) /\ Len(s) = Len(t) + 1 /\ Head(s) = s[1]
      /\ \A j \in 1..Len(t) : s[j + 1] = t[j]
  BY HeadTailProperties
<1>2. ASSUME NEW x \in Calls
      PROVE  /\ <<x>> \o t \in Seq(Calls) /\ Len(<<x>> \o t) = Len(t) + 1
             /\ (<<x>> \o t)[1] = x
             /\ \A j \in 1..Len(t) : (<<x>> \o t)[j + 1] = t[j]
  <2>1. <<x>> \in Seq(Calls) /\ t \in Seq(Calls)
    BY <1>1
  <2> HIDE DEF t
  <2> QED
    BY <2>1
<1> HIDE DEF t
<1>3. /\ Answers(t) \in Nat
      /\ Answers(s) = Answers(t) + IF s[1].op = "status" THEN 0 ELSE 1
  BY <1>1, AnswersOfOneMore
<1>4. ASSUME NEW x \in Calls
      PROVE  Answers(<<x>> \o t) = Answers(t) + IF x.op = "status" THEN 0 ELSE 1
  <2> DEFINE u == <<x>> \o t
  <2>1. /\ u \in Seq(Calls) /\ Len(u) = Len(t) + 1 /\ u[1] = x
        /\ \A j \in 1..Len(t) : u[j + 1] = t[j]
    BY <1>2, <1>4
  <2> HIDE DEF u
  <2>2. Answers(u) = Answers(t) + IF u[1].op = "status" THEN 0 ELSE 1
    BY <1>1, <2>1, AnswersOfOneMore
  <2> QED
    BY <2>1, <2>2 DEF u
<1> QED
  BY <1>1, <1>3, <1>4 DEF t

\* The answers the request has been given and is still to be given by what is being
\* called are those asked of it so far.
Asked ==
  IF controller # None /\ Kind[controller] = "restful"
  THEN Answers(Middlewares(controller, middlewaresOf))
         + Answers(Callback(controller, callbackOf))
  ELSE Answers(Operations)

CountInv ==
  /\ pc \in {"walk", "dispatch"} => sends = 0
  /\ pc = "middlewares" =>
       /\ controller # None /\ Kind[controller] = "restful"
       /\ sends + Answers(todo) = Answers(Middlewares(controller, middlewaresOf))
  /\ pc = "run" => sends + Answers(todo) = Asked

\* A step of the handler that leaves the sum alone.
LEMMA CountKept ==
  ASSUME CountInv, UNCHANGED <<pc, req, controller, middlewaresOf, callbackOf>>,
         Working, sends' + Answers(todo') = sends + Answers(todo)
  PROVE  CountInv'
<1>1. Asked' = Asked
  BY DEF Asked, Operations, LastPiece
<1> QED
  BY <1>1 DEF CountInv, Working

LEMMA CountHandler ==
  ASSUME HInv, CountInv, SetStatus \/ SendEmpty \/ SendBody \/ Render
  PROVE  CountInv'
<1>1. Working /\ todo # <<>> /\ todo \in Seq(Calls) /\ sends \in Nat
  BY DEF SetStatus, SendEmpty, SendBody, Render, RenderFound, RenderMissing,
     Handle, HInv, DataInv
<1>2. UNCHANGED <<pc, req, controller, middlewaresOf, callbackOf>>
  BY DEF SetStatus, SendEmpty, SendBody, Render, RenderFound, RenderMissing,
     SendResponse, walkVars, routeVars
<1>3. /\ Answers(Tail(todo)) \in Nat
      /\ Answers(todo) = Answers(Tail(todo)) + IF Head(todo).op = "status" THEN 0 ELSE 1
  BY <1>1, AnswersLeft
<1>4. CASE SetStatus
  <2>1. todo' = Tail(todo) /\ sends' = sends /\ Head(todo).op = "status"
    BY <1>4 DEF SetStatus, Handle
  <2> QED
    BY <1>1, <1>2, <1>3, <2>1, CountKept
<1>5. ASSUME sends' = sends + 1, todo' = Tail(todo), Head(todo).op # "status"
      PROVE  CountInv'
  BY <1>1, <1>2, <1>3, <1>5, CountKept
<1>6. CASE SendEmpty \/ SendBody
  BY <1>5, <1>6 DEF SendEmpty, SendBody, SendResponse, Handle
<1>7. ASSUME NEW op \in {"page", "file"}, RenderFound(op) PROVE CountInv'
  BY <1>5, <1>7 DEF RenderFound, SendResponse, Handle
<1>8. ASSUME NEW op \in {"page", "file"}, NEW then \in {"send", "page"},
             RenderMissing(op, then)
      PROVE  CountInv'
  <2>1. /\ todo' = <<Op(then, 0)>> \o Tail(todo) /\ sends' = sends
        /\ Head(todo).op # "status"
    BY <1>8 DEF RenderMissing, Handle
  <2>2. Op(then, 0) \in Calls /\ Op(then, 0).op # "status"
    BY DEF Op, Calls
  <2>3. Answers(todo') = Answers(Tail(todo)) + 1
    BY <1>1, <2>1, <2>2, AnswersLeft
  <2> QED
    BY <1>1, <1>2, <1>3, <2>1, <2>3, CountKept
<1> QED
  BY <1>4, <1>6, <1>7, <1>8 DEF Render

LEMMA CountNext == HInv /\ CountInv /\ [Next]_vars => CountInv'
<1> SUFFICES ASSUME HInv, CountInv, [Next]_vars PROVE CountInv'
  OBVIOUS
<1>1. CASE BeginRequest \/ Walk
  <2>1. pc' \in {"walk", "dispatch"} /\ sends' = 0
    BY <1>1 DEF BeginRequest, Walk, GoTo, responseVars, CountInv
  <2> QED
    BY <2>1 DEF CountInv
<1>2. CASE DispatchRestful
  <2>1. /\ controller # None /\ Kind[controller] = "restful"
        /\ todo' = Middlewares(controller, middlewaresOf')
        /\ pc' = "middlewares" /\ controller' = controller
        /\ sends' = 0
    BY <1>2 DEF DispatchRestful, walkVars, responseVars, CountInv
  <2>2. Answers(todo') \in Nat
    <3>1. todo' \in Seq(Calls)
      BY <1>2, DataNext DEF HInv, DataInv, Next, ProcessRequest
    <3> QED
      BY <3>1, AnswersAreNat
  <2> QED
    BY <2>1, <2>2 DEF CountInv
<1>3. CASE Dispatch
  <2>1. CASE NoSuchResource
    BY <1>3, <2>1 DEF Dispatch, CountInv, responseVars
  <2>2. CASE ~NoSuchResource
    <3>1. /\ todo' = Operations /\ pc' = "run" /\ sends' = 0
          /\ controller # None => Kind[controller] # "restful"
          /\ UNCHANGED <<req, controller>>
      BY <1>3, <2>2 DEF Dispatch, CountInv, walkVars, responseVars
    <3>2. Operations \in Seq(Calls)
      BY <2>2, <3>1, OperationsType DEF HInv, PInv, IInv, WalkInv
    <3>3. Asked' = Answers(Operations) /\ Answers(Operations) \in Nat
      BY <3>1, <3>2, AnswersAreNat DEF Asked, Operations, LastPiece
    <3> QED
      BY <3>1, <3>3 DEF CountInv
  <2> QED
    BY <2>1, <2>2
<1>4. CASE CallCallback
  <2>1. /\ pc = "middlewares" /\ pc' = "run" /\ todo = <<>>
        /\ todo' = Callback(controller, callbackOf')
        /\ UNCHANGED <<req, controller, middlewaresOf, sends>>
    BY <1>4 DEF CallCallback, AtCallback, walkVars, responseVars
  <2>2. /\ controller # None /\ Kind[controller] = "restful"
        /\ sends + 0 = Answers(Middlewares(controller, middlewaresOf))
    BY <2>1, NoAnswers DEF CountInv
  <2>3. Asked' = sends + Answers(todo')
    BY <2>1, <2>2 DEF Asked, HInv, DataInv
  <2> QED
    BY <2>1, <2>3 DEF CountInv
<1>5. CASE SetStatus \/ SendEmpty \/ SendBody \/ Render
  BY <1>5, CountHandler
<1>6. CASE EndRequest
  BY <1>6 DEF EndRequest, CountInv
<1>7. CASE Write \/ Register \/ Close \/ Reset \/ UNCHANGED vars
  <2>1. UNCHANGED <<pc, req, controller, middlewaresOf, callbackOf, sends, todo>>
    BY <1>7 DEF Write, Register, Close, Reset, vars, walkVars, routeVars, responseVars
  <2>2. Asked' = Asked
    BY <2>1 DEF Asked, Operations, LastPiece
  <2> QED
    BY <2>1, <2>2 DEF CountInv
<1> QED
  BY <1>1, <1>2, <1>3, <1>4, <1>5, <1>6, <1>7 DEF Next, ProcessRequest

\* Whatever files are missing and whatever main registers meanwhile, a request
\* gets exactly the answers its middlewares and its callback ask for.
THEOREM EveryAnswerAsked == Spec => []AnsweredAsAsked
<1>1. Init => CountInv
  BY DEF Init, CountInv
<1>2. HInv /\ CountInv => AnsweredAsAsked
  <2> SUFFICES ASSUME HInv, CountInv, pc = "run", todo = <<>> PROVE sends = Asked
    BY DEF AnsweredAsAsked, Asked
  <2>1. sends + 0 = Asked
    BY NoAnswers DEF CountInv
  <2> QED
    BY <2>1 DEF HInv, DataInv
<1> QED
  BY <1>1, <1>2, CountNext, SpecHInv, PTL DEF Spec
-----------------------------------------------------------------------------
(* What a response that is sent once looks like on the wire.               *)

\* m parts of the response F have been written, or swallowed by a connection that
\* is closed: behind the first k parts of the wire, which are of other requests.
Written(F, k, m) ==
  /\ m <= Len(F)
  /\ Len(out) = Len(F) - m /\ \A j \in 1..Len(out) : out[j] = F[m + j]
  /\ Len(wire) - k <= m /\ \A j \in 1..(Len(wire) - k) : wire[k + j] = F[j]
  /\ Connected => Len(wire) - k = m
  /\ \A j \in 1..Len(wire) : wire[j].of = req <=> j > k

\* Before the first response of a request there is no header and nothing written.
FrameInv ==
  alive =>
    /\ sends = 0 =>
         length = Unknown /\ out = <<>> /\ \A j \in 1..Len(wire) : wire[j].of # req
    /\ sends = 1 =>
         \E k \in 0..Len(wire), m \in Nat, code \in Codes :
           Written(Framed(code, length), k, m)

LEMMA FramedElements ==
  ASSUME NEW code, NEW n
  PROVE  /\ IsSequence(Framed(code, n))
         /\ \A j \in DOMAIN Framed(code, n) : Framed(code, n)[j].of = req
<1> DEFINE a == Part("status", code, req)
           b == Part("length", n, req)
           c == Part("blank", 0, req)
           d == Part("body", n, req)
           S == {a, b, c, d}
<1>1. \A x \in S : x.of = req
  BY DEF Part
<1> HIDE DEF a, b, c, d
<1>2. <<a, b, c>> \in Seq(S) /\ <<d>> \in Seq(S) /\ <<>> \in Seq(S)
  OBVIOUS
<1>3. Framed(code, n) = <<a, b, c>> \o (IF n = 0 THEN <<>> ELSE <<d>>)
  BY DEF Framed, a, b, c, d
<1> HIDE DEF S
<1>4. Framed(code, n) \in Seq(S)
  BY <1>2, <1>3
<1> QED
  BY <1>1, <1>4 DEF IsSequence

\* A step that writes nothing keeps what is written; Close may stop the writing.
LEMMA FrameKept ==
  ASSUME FrameInv, UNCHANGED <<req, length, sends, out, wire>>, alive' => alive,
         Connected' => Connected
  PROVE  FrameInv'
<1>1. \A code, n : Framed(code, n)' = Framed(code, n)
  BY DEF Framed
<1>2. \A F, k, m : Written(F, k, m) => Written(F, k, m)'
  BY Zenon DEF Written
<1>3. \A code : Framed(code, length)' = Framed(code, length)
  BY DEF Framed
<1>4. ASSUME alive', sends = 1
      PROVE  \E k \in 0..Len(wire'), m \in Nat, code \in Codes :
               Written(Framed(code, length), k, m)'
  <2>1. PICK k \in 0..Len(wire), m \in Nat, code \in Codes :
          Written(Framed(code, length), k, m)
    BY <1>4, Zenon DEF FrameInv
  <2>2. Written(Framed(code, length), k, m)'
    BY <2>1, <1>3 DEF Written
  <2> QED
    BY <2>1, <2>2
<1> QED
  BY <1>4 DEF FrameInv

\* The first response of a request is what it is framed to be.
LEMMA FrameSend ==
  ASSUME HInv, FrameInv, alive, NEW n \in Nat, NEW size,
         SendResponse(n, size), out = <<>>, length = Unknown => n = size,
         status' = status
  PROVE  FrameInv'
<1>1. /\ length' = n /\ sends' = sends + 1 /\ UNCHANGED <<req, open, reset, wire>>
      /\ status \notin Codes => alive' = FALSE
      /\ status \in Codes => out' = Parts(n, size)
  BY DEF SendResponse, Parts, walkVars, connectionVars
<1>2. SUFFICES ASSUME alive', sends' = 0 \/ sends' = 1 PROVE FrameInv'
  BY <1>1 DEF FrameInv, HInv, DataInv
<1>3. sends = 0 /\ sends' = 1 /\ status \in Codes
  BY <1>1, <1>2 DEF HInv, DataInv
<1>4. PICK F, k, code : F = Framed(status, n) /\ k = Len(wire) /\ code = status
  OBVIOUS
<1>5. out' = F
  <2>1. n = size
    BY <1>3 DEF FrameInv
  <2> QED
    BY <1>1, <1>3, <1>4, <2>1 DEF Parts, Framed
<1>6. Framed(code, length)' = F
  BY <1>1, <1>4 DEF Framed
<1>7. Len(wire) \in Nat /\ Len(F) \in Nat
  <2>1. IsSequence(F) /\ IsSequence(wire)
    BY <1>4, FramedElements DEF HInv, PInv
  <2> QED
    BY <2>1, LenProperties DEF IsSequence
<1>8. \A j \in 1..Len(wire) : wire[j].of # req
  BY <1>3 DEF FrameInv
<1>9. Written(F, k, 0)'
  <2>1. /\ Len(wire') = k /\ k \in Nat /\ wire' = wire /\ req' = req /\ out' = F
        /\ Len(F) \in Nat /\ Len(out') = Len(F) - 0 /\ Len(wire') - k = 0
    BY <1>1, <1>4, <1>5, <1>7
  <2>2. \A j \in 1..Len(wire') : wire'[j].of # req' /\ ~(j > k)
    BY <1>8, <2>1
  <2>3. \A j \in 1..Len(out') : out'[j] = F[0 + j]
    BY <2>1
  <2> QED
    BY <2>1, <2>2, <2>3 DEF Written
<1>10. k \in 0..Len(wire') /\ code \in Codes /\ 0 \in Nat
  BY <1>1, <1>3, <1>4, <1>7
<1>11. Written(Framed(code, length), k, 0)'
  BY <1>6, <1>9 DEF Written
<1>12. \E l \in 0..Len(wire'), m \in Nat, c \in Codes :
         Written(Framed(c, length), l, m)'
  BY <1>10, <1>11
<1> QED
  BY <1>3, <1>12 DEF FrameInv

LEMMA FrameHandler ==
  ASSUME HInv, FrameInv, alive, SetStatus \/ SendEmpty \/ SendBody \/ Render
  PROVE  FrameInv'
<1>1. todo \in Seq(Calls) /\ todo # <<>> /\ out = <<>>
  BY DEF SetStatus, SendEmpty, SendBody, Render, RenderFound, RenderMissing,
     Handle, HInv, DataInv
<1>2. CASE SetStatus
  BY <1>2, FrameKept DEF SetStatus, Connected, walkVars, connectionVars
<1>3. CASE SendEmpty
  BY <1>1, <1>3, FrameSend DEF SendEmpty
<1>4. CASE SendBody
  <2>1. Head(todo).n \in Nat
    BY <1>1, <1>4, NextCall DEF SendBody, Handle
  <2>2. LengthOf(Head(todo).n) \in Nat
    BY <2>1 DEF LengthOf, HInv, DataInv, Unknown
  <2>3. length = Unknown => LengthOf(Head(todo).n) = Head(todo).n
    BY DEF LengthOf
  <2> QED
    BY <1>1, <1>4, <2>2, <2>3, FrameSend DEF SendBody
<1>5. ASSUME NEW op, RenderFound(op) PROVE FrameInv'
  BY <1>1, <1>5, SizesAssumption, FrameSend DEF RenderFound
<1>6. ASSUME NEW op, NEW then, RenderMissing(op, then) PROVE FrameInv'
  BY <1>6, FrameKept DEF RenderMissing, Connected, walkVars, connectionVars
<1> QED
  BY <1>2, <1>3, <1>4, <1>5, <1>6 DEF Render

LEMMA FrameWrite ==
  ASSUME HInv, FrameInv, alive, Write
  PROVE  FrameInv'
<1>1. /\ out # <<>> /\ out' = Tail(out)
      /\ UNCHANGED <<req, length, sends>> /\ (Connected' <=> Connected)
      /\ Connected => wire' = Append(wire, Head(out))
      /\ ~Connected => wire' = wire
  BY DEF Write, Connected, walkVars, responseVars
<1>2. IsSequence(out) /\ IsSequence(wire)
  BY DEF HInv, PInv
<1>3. /\ Len(out) \in Nat \ {0} /\ Len(out') = Len(out) - 1 /\ Head(out) = out[1]
      /\ \A j \in 1..(Len(out) - 1) : out'[j] = out[j + 1]
  <2>1. PICK S : out \in Seq(S)
    BY <1>2 DEF IsSequence
  <2> QED
    BY <1>1, <2>1
<1>4. /\ Len(wire) \in Nat
      /\ Connected => /\ Len(wire') = Len(wire) + 1
                      /\ \A j \in 1..Len(wire) : wire'[j] = wire[j]
                      /\ wire'[Len(wire) + 1] = out[1]
  <2>1. Longer(wire, Head(out), Append(wire, Head(out)))
    BY <1>2, OneMore
  <2>2. Len(wire) \in Nat
    BY <2>1 DEF Longer
  <2>3. ASSUME Connected
        PROVE  /\ Len(wire') = Len(wire) + 1
               /\ \A j \in 1..Len(wire) : wire'[j] = wire[j]
               /\ wire'[Len(wire) + 1] = out[1]
    BY <1>1, <1>3, <2>1, <2>3, Zenon DEF Longer
  <2> QED
    BY <2>2, <2>3
<1>5. CASE sends = 1
  <2>1. PICK k \in 0..Len(wire), m \in Nat, code \in Codes :
          Written(Framed(code, length), k, m)
    BY <1>5 DEF FrameInv
  <2> PICK F : F = Framed(code, length)
    OBVIOUS
  <2>2. Framed(code, length)' = F
    BY <1>1 DEF Framed
  <2>3. IsSequence(F) /\ \A j \in DOMAIN F : F[j].of = req
    BY FramedElements
  <2>4. Len(F) \in Nat /\ DOMAIN F = 1..Len(F)
    BY <2>3, LenProperties DEF IsSequence
  <2>5. Written(F, k, m)
    BY <2>1
  <2>6. m + 1 <= Len(F) /\ out[1] = F[m + 1] /\ out[1].of = req
    <3>1. Len(out) = Len(F) - m /\ 1 \in 1..Len(out)
      BY <1>3, <2>5 DEF Written
    <3>2. out[1] = F[m + 1]
      BY <2>5, <3>1 DEF Written
    <3>3. m + 1 \in DOMAIN F /\ m + 1 <= Len(F)
      BY <1>3, <2>4, <3>1
    <3> QED
      BY <2>3, <3>2, <3>3
  <2>7. /\ Len(out') = Len(F) - (m + 1)
        /\ \A j \in 1..Len(out') : out'[j] = F[(m + 1) + j]
    <3>1. Len(out) = Len(F) - m
      BY <2>5 DEF Written
    <3>2. ASSUME NEW j \in 1..Len(out') PROVE out'[j] = F[(m + 1) + j]
      <4>1. out'[j] = out[j + 1] /\ j + 1 \in 1..Len(out)
        BY <1>3
      <4>2. out[j + 1] = F[m + (j + 1)]
        BY <2>5, <4>1 DEF Written
      <4>3. m + (j + 1) = (m + 1) + j
        BY <1>3
      <4> QED
        BY <4>1, <4>2, <4>3
    <3> QED
      BY <1>3, <2>4, <3>1, <3>2
  <2>8. CASE Connected
    <3>1. Len(wire) - k = m /\ Len(wire') - k = m + 1
      BY <1>4, <2>5, <2>8 DEF Written
    <3>2. \A j \in 1..(Len(wire') - k) : wire'[k + j] = F[j]
      <4>1. ASSUME NEW j \in 1..m PROVE wire'[k + j] = F[j]
        <5>1. k + j \in 1..Len(wire) /\ j \in 1..(Len(wire) - k)
          BY <1>4, <3>1
        <5>2. wire[k + j] = F[j]
          BY <2>5, <5>1 DEF Written
        <5> QED
          BY <1>4, <2>8, <5>1, <5>2
      <4>2. wire'[k + (m + 1)] = F[m + 1]
        BY <1>4, <2>6, <2>8, <3>1
      <4>3. \A j \in 1..(m + 1) : j \in 1..m \/ j = m + 1
        OBVIOUS
      <4> QED
        BY <3>1, <4>1, <4>2, <4>3
    <3>3. \A j \in 1..Len(wire') : wire'[j].of = req <=> j > k
      <4>1. ASSUME NEW j \in 1..Len(wire) PROVE wire'[j].of = req <=> j > k
        BY <1>4, <2>5, <2>8 DEF Written
      <4>2. wire'[Len(wire) + 1].of = req /\ Len(wire) + 1 > k
        BY <1>4, <2>6, <2>8
      <4>3. \A j \in 1..(Len(wire) + 1) : j \in 1..Len(wire) \/ j = Len(wire) + 1
        BY <1>4
      <4> QED
        BY <1>4, <2>8, <4>1, <4>2, <4>3
    <3>8. Len(wire') - k <= m + 1 /\ m + 1 <= Len(F) /\ req' = req
      BY <1>1, <2>6, <3>1
    <3>9. \A j \in 1..Len(wire') : wire'[j].of = req' <=> j > k
      BY <3>3, <3>8
    <3>4. Written(F, k, m + 1)'
      BY ONLY <2>7, <3>1, <3>2, <3>8, <3>9, Zenon DEF Written
    <3>5. k \in 0..Len(wire') /\ m + 1 \in Nat
      BY <1>4, <2>8
    <3>6. Written(Framed(code, length), k, m + 1)'
      BY <2>2, <3>4 DEF Written
    <3>7. \E j \in 0..Len(wire'), l \in Nat, c \in Codes :
            Written(Framed(c, length), j, l)'
      BY <3>5, <3>6
    <3> QED
      BY <1>1, <1>5, <3>7 DEF FrameInv
  <2>9. CASE ~Connected
    <3>6. wire' = wire /\ req' = req /\ ~Connected' /\ m + 1 <= Len(F)
      BY <1>1, <2>6, <2>9
    <3>1. /\ Len(wire') - k <= m + 1
          /\ \A j \in 1..(Len(wire') - k) : wire'[k + j] = F[j]
      BY <1>4, <2>5, <3>6 DEF Written
    <3>7. \A j \in 1..Len(wire') : wire'[j].of = req' <=> j > k
      BY <2>5, <3>6 DEF Written
    <3>2. Written(F, k, m + 1)'
      BY ONLY <2>7, <3>1, <3>6, <3>7, Zenon DEF Written
    <3>3. k \in 0..Len(wire') /\ m + 1 \in Nat
      BY <1>1, <1>4, <2>9
    <3>4. Written(Framed(code, length), k, m + 1)'
      BY <2>2, <3>2 DEF Written
    <3>5. \E j \in 0..Len(wire'), l \in Nat, c \in Codes :
            Written(Framed(c, length), j, l)'
      BY <3>3, <3>4
    <3> QED
      BY <1>1, <1>5, <3>5 DEF FrameInv
  <2> QED
    BY <2>8, <2>9
<1>6. CASE sends # 1
  BY <1>1, <1>6 DEF FrameInv
<1> QED
  BY <1>5, <1>6

LEMMA FrameNext == HInv /\ FrameInv /\ [Next]_vars => FrameInv'
<1> SUFFICES ASSUME HInv, FrameInv, [Next]_vars PROVE FrameInv'
  OBVIOUS
<1>1. CASE UNCHANGED vars
  BY <1>1, FrameKept DEF vars, Connected, walkVars, responseVars, connectionVars
<1>2. CASE alive /\ BeginRequest
  <2>1. /\ sends' = 0 /\ length' = Unknown /\ req' = req + 1
        /\ UNCHANGED <<out, wire>> /\ pc = "idle"
    BY <1>2 DEF BeginRequest, connectionVars
  <2>2. /\ out = <<>> /\ req \in Nat /\ IsSequence(wire)
        /\ \A j \in DOMAIN wire : wire[j].of \in 1..req
    BY <2>1 DEF HInv, PInv, FreshInv, Working, IInv, WalkInv
  <2>3. DOMAIN wire = 1..Len(wire)
    BY <2>2, LenProperties DEF IsSequence
  <2>4. \A j \in 1..Len(wire) : wire[j].of # req + 1
    BY <2>2, <2>3
  <2> QED
    BY <2>1, <2>2, <2>4 DEF FrameInv
<1>3. CASE alive /\ (Walk \/ DispatchRestful \/ Dispatch \/ CallCallback \/ EndRequest
                       \/ Register \/ Close \/ Reset)
  <2>1. UNCHANGED <<req, length, sends, out, wire>>
    BY <1>3 DEF Walk, DispatchRestful, Dispatch, CallCallback, EndRequest, Register,
       Close, Reset, walkVars, responseVars, connectionVars
  <2>2. UNCHANGED <<open, reset>> \/ Close \/ Reset
    BY <1>3 DEF Walk, DispatchRestful, Dispatch, CallCallback, EndRequest, Register,
       connectionVars
  <2>3. Connected' => Connected
    BY <2>2 DEF Close, Reset, Connected
  <2> QED
    BY <1>3, <2>1, <2>3, FrameKept
<1>4. CASE alive /\ (SetStatus \/ SendEmpty \/ SendBody \/ Render)
  BY <1>4, FrameHandler
<1>5. CASE alive /\ Write
  BY <1>5, FrameWrite
<1> QED
  BY <1>1, <1>2, <1>3, <1>4, <1>5 DEF Next, ProcessRequest

\* Whatever a handler does and however its files are, a response that is sent once
\* leaves the server in one piece behind what was written before it: all of it, or
\* a prefix if the connection is closed or reset meanwhile.
THEOREM SentOnceFramed == Spec => []SentOnceIsFramed
<1>1. Init => FrameInv
  <2> SUFFICES ASSUME Init PROVE FrameInv
    OBVIOUS
  <2>1. sends = 0 /\ length = Unknown /\ out = <<>> /\ wire = <<>> /\ Len(wire) = 0
    BY DEF Init
  <2> QED
    BY <2>1 DEF FrameInv
<1>2. HInv /\ FrameInv => SentOnceIsFramed
  <2> SUFFICES ASSUME HInv, FrameInv, sends = 1, alive PROVE SentOnceIsFramed
    BY DEF SentOnceIsFramed
  <2>1. PICK k \in 0..Len(wire), m \in Nat, code \in Codes :
          Written(Framed(code, length), k, m)
    BY DEF FrameInv
  <2> DEFINE F == Framed(code, length)
             sent == SubSeq(wire, k + 1, Len(wire))
  <2>2. IsSequence(F) /\ IsSequence(wire) /\ IsSequence(out)
    BY FramedElements DEF HInv, PInv
  <2>3. Len(F) \in Nat /\ Len(wire) \in Nat /\ DOMAIN wire = 1..Len(wire)
        /\ Len(out) \in Nat
    BY <2>2, LenProperties DEF IsSequence
  <2>4. /\ IsSequence(sent) /\ Len(sent) = Len(wire) - k
        /\ \A j \in 1..(Len(wire) - k) : sent[j] = wire[k + j]
    BY <2>2, SuffixElements, Zenon
  <2> HIDE DEF F, sent
  <2>5. Written(F, k, m)
    BY <2>1 DEF F
  <2>6. IsPrefix(sent, F)
    <3>1. Len(sent) <= Len(F)
      <4>1. Len(sent) = Len(wire) - k
        BY <2>4
      <4>2. Len(wire) - k <= m /\ m <= Len(F)
        BY <2>5 DEF Written
      <4> QED
        BY <2>3, <4>1, <4>2
    <3>2. \A j \in 1..Len(sent) : sent[j] = F[j]
      BY <2>4, <2>5 DEF Written
    <3> QED
      BY <2>2, <2>4, <3>1, <3>2, PrefixElements
  <2>7. ASSUME Connected PROVE sent \o out = F
    <3>1. /\ IsSequence(sent \o out) /\ Len(sent) = m
          /\ Len(sent \o out) = m + Len(out)
          /\ \A j \in 1..m : (sent \o out)[j] = sent[j]
          /\ \A j \in 1..Len(out) : (sent \o out)[m + j] = out[j]
      <4>1. Len(sent) = m
        BY <2>4, <2>5, <2>7 DEF Written
      <4>2. /\ IsSequence(sent \o out) /\ Len(sent \o out) = Len(sent) + Len(out)
            /\ \A j \in 1..Len(sent) : (sent \o out)[j] = sent[j]
            /\ \A j \in 1..Len(out) : (sent \o out)[Len(sent) + j] = out[j]
        <5>1. IsSequence(sent) /\ IsSequence(out)
          BY <2>2, <2>4
        <5> QED
          BY <5>1, ConcatElements
      <4> QED
        BY <4>1, <4>2, Zenon
    <3>2. Len(out) = Len(F) - m /\ m <= Len(F)
      BY <2>5 DEF Written
    <3>3. ASSUME NEW j \in 1..Len(F) PROVE (sent \o out)[j] = F[j]
      <4>1. CASE j <= m
        <5>1. j \in 1..m /\ j \in 1..(Len(wire) - k)
          BY <2>3, <2>5, <2>7, <4>1 DEF Written
        <5>2. sent[j] = wire[k + j] /\ wire[k + j] = F[j]
          BY <2>4, <2>5, <5>1 DEF Written
        <5> QED
          BY <3>1, <5>1, <5>2
      <4>2. CASE j > m
        <5>1. j - m \in 1..Len(out) /\ m + (j - m) = j
          BY <2>3, <3>2, <4>2
        <5>2. out[j - m] = F[m + (j - m)]
          BY <2>5, <5>1 DEF Written
        <5>3. (sent \o out)[m + (j - m)] = out[j - m]
          BY <3>1, <5>1
        <5> QED
          BY <5>1, <5>2, <5>3, Zenon
      <4>3. j <= m \/ j > m
        BY <2>3
      <4> QED
        BY <4>1, <4>2, <4>3
    <3>4. Len(sent \o out) = Len(F)
      BY <2>3, <3>1, <3>2
    <3> QED
      BY <2>2, <3>1, <3>3, <3>4, EqualElements
  <2>8. \A j \in DOMAIN wire : wire[j].of = req <=> j > k
    BY <2>3, <2>5 DEF Written
  <2> QED
    BY <2>6, <2>7, <2>8 DEF SentOnceIsFramed, F, sent
<1> QED
  BY <1>1, <1>2, FrameNext, SpecHInv, PTL DEF Spec
=============================================================================
