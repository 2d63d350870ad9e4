--------------------------- MODULE RequestHandling ---------------------------
(***************************************************************************)
(* From a request to the bytes of its response: ControllerHandler, the     *)
(* controllers and HttpResponse.                                           *)
(*                                                                         *)
(* A thread of the pool serves one request after the other.  The server    *)
(* accepts as soon as it is constructed, so the main thread still          *)
(* registers controllers meanwhile, and another thread may close the       *)
(* connection between two writes.                                          *)
(*                                                                         *)
(* A path is a sequence of segments, a controller goes by its place in the *)
(* order of _controllerMap (the order of addresses), and a handler is the  *)
(* sequence of the operations it calls on its response.                    *)
(***************************************************************************)
EXTENDS Integers, Sequences, SequencesExt

CONSTANTS Controllers,  \* the controllers, by their addresses
          Kind,         \* "restful", "static" or "resource"
          Routes,       \* _routeVector of a "restful" controller
          Resources,    \* _resourceMap of a "resource" controller: last segments
          Registration, \* main: controllers and the paths they are registered for
          Requests,     \* the requests: method, path, and whether a slash ends it
          Sizes         \* sizes of the files that may exist

None == 0
NoPath == <<"no", "path">>   \* stands for: not in the map
Unknown == -1                \* a header that is not there

ASSUME ControllersAssumption == Controllers \subseteq Nat \ {0}
ASSUME RegistrationAssumption ==
  Registration \in Seq([controller : Controllers, path : Seq(STRING) \ {NoPath}])
ASSUME RequestsAssumption ==
  Requests \in Seq([method : STRING, path : Seq(STRING), slash : BOOLEAN])
ASSUME SizesAssumption == Sizes \subseteq Nat

\* What a handler may call on its response: status takes any int.
Calls == [op : {"status"}, n : Int]
           \cup [op : {"send", "body", "page", "file"}, n : Nat]

ASSUME KindAssumption == Kind \in [Controllers -> {"restful", "static", "resource"}]
ASSUME RoutesAssumption ==
  \A c \in Controllers :
    Routes[c] \in Seq([method : STRING, path : Seq(STRING),
                      middlewares : Seq(Seq(Calls)), callback : Seq(Calls)])
ASSUME ResourcesAssumption ==
  \A c \in Controllers : \A name \in DOMAIN Resources[c] :
    Resources[c][name] \in Seq(Calls)

\* HTTP_STATUSCODE_MAP: the statuses whose text the server knows.
Codes == {0, 100, 101} \cup 200..206 \cup 300..305 \cup {307} \cup 400..417
           \cup {426} \cup 500..505

Op(op, n) == [op |-> op, n |-> n]
Part(part, n, r) == [part |-> part, n |-> n, of |-> r]

VARIABLES
  \* ControllerHandler and the controllers
  registered,     \* how much of Registration main has done
  controllerMap,  \* _controllerMap
  controllerPath, \* _controllerPath of each controller
  \* the pool's thread: processRequest and what it calls
  pc,
  req,            \* the request being served
  cursor,         \* the entry of the map it is at
  maxMatchSize, controller,
  middlewaresOf,  \* the route getMiddlewareList has found, or None
  callbackOf,     \* the route getCallback has found, or None
  todo,           \* what the handler still does with its response
  out,            \* what sendResponse still writes
  \* HttpResponse
  status, length, \* _status, the header Content-Length
  \* the connection
  open,           \* _connectionState
  reset,          \* the client has reset it
  wire,           \* what has been sent
  \* history
  present,        \* _controllerMap when the request was begun
  unmatched,      \* requests no controller, or no route at either lookup, was found for
  sends,          \* how often the response has been sent
  alive           \* FALSE once an exception or undefined behaviour has ended it

mapVars == <<registered, controllerMap, controllerPath>>
walkVars == <<req, cursor, maxMatchSize, controller, present>>
routeVars == <<middlewaresOf, callbackOf>>
responseVars == <<status, length, sends>>
connectionVars == <<open, reset, wire>>
vars == <<mapVars, pc, walkVars, routeVars, todo, out, responseVars, connectionVars,
          unmatched, alive>>

TypeOK ==
  /\ registered \in 0..Len(Registration)
  /\ DOMAIN controllerMap = Controllers /\ DOMAIN controllerPath = Controllers
  /\ pc \in {"idle", "walk", "dispatch", "middlewares", "run"}
  /\ req \in 0..Len(Requests)
  /\ cursor \in Controllers \cup {None}
  /\ maxMatchSize \in Nat
  /\ controller \in Controllers \cup {None}
  /\ middlewaresOf \in Nat /\ callbackOf \in Nat
  /\ todo \in Seq(Calls)
  /\ status \in Int
  /\ length \in Nat \cup {Unknown}
  /\ \A p \in ToSet(out) \cup ToSet(wire) :
       /\ p.part \in {"status", "length", "blank", "body"}
       /\ p.n \in Nat
       /\ p.of \in 1..Len(Requests)
  /\ open \in BOOLEAN /\ reset \in BOOLEAN /\ alive \in BOOLEAN
  /\ unmatched \subseteq 1..Len(Requests)
  /\ sends \in Nat

Init ==
  /\ registered = 0
  /\ controllerMap = [c \in Controllers |-> NoPath]
  /\ controllerPath = [c \in Controllers |-> <<>>]
  /\ pc = "idle"
  /\ req = 0
  /\ cursor = None
  /\ maxMatchSize = 0
  /\ controller = None
  /\ middlewaresOf = None /\ callbackOf = None
  /\ todo = <<>> /\ out = <<>>
  /\ status = 200 /\ length = Unknown
  /\ open = TRUE /\ reset = FALSE
  /\ wire = <<>>
  /\ present = controllerMap
  /\ unmatched = {}
  /\ sends = 0
  /\ alive = TRUE
-----------------------------------------------------------------------------
(* The main thread.                                                        *)

\* The middlewares have returned: getCallback reads the controller's path again.
AtCallback == pc = "middlewares" /\ todo = <<>> /\ out = <<>>

\* A request reads what main writes: the map it walks when c is inserted, or the
\* path of c when c looks for a route.  Both are undefined.
Overlaps(c) ==
  IF controllerMap[c] = NoPath THEN pc = "walk"
  ELSE controller = c /\ (pc = "dispatch" \/ AtCallback)

\* registerController: a controller that is in the map keeps its entry, though
\* not its path.
Register ==
  /\ registered < Len(Registration)
  /\ registered' = registered + 1
  /\ LET c == Registration[registered + 1].controller
         path == Registration[registered + 1].path
     IN IF path \in Range(controllerMap)
        THEN UNCHANGED <<controllerMap, controllerPath, alive>>
        ELSE /\ controllerPath' = [controllerPath EXCEPT ![c] = path]
             /\ controllerMap' =
                  IF controllerMap[c] # NoPath THEN controllerMap
                  ELSE [controllerMap EXCEPT ![c] = path]
             /\ alive' = TRUE \/ (Overlaps(c) /\ alive' = FALSE)
  /\ UNCHANGED <<pc, walkVars, routeVars, todo, out, responseVars, connectionVars,
                 unmatched>>
-----------------------------------------------------------------------------
(* A thread of the pool: processRequest.                                   *)

\* Fault: every segment of the request is compared.
MatchAll(cpath, rpath) ==
  IF Len(cpath) # Len(rpath) THEN 0
  ELSE Cardinality({j \in DOMAIN cpath : cpath[j] = rpath[j]})

\* How many segments are equal: not how long a common prefix is.
PathMatchSize(cpath, rpath) ==
  IF Len(cpath) > Len(rpath) THEN 0
  ELSE Cardinality({j \in DOMAIN cpath : cpath[j] = rpath[j]})

Entries == {c \in Controllers : controllerMap[c] # NoPath}

\* The next entry of the map; after the last one the controller is called.
GoTo(entries) ==
  \/ entries = {} /\ pc' = "dispatch" /\ cursor' = None
  \/ \E c \in entries : /\ \A d \in entries : c <= d
                        /\ pc' = "walk" /\ cursor' = c

\* newRequestReceived makes a new response for a new request.
BeginRequest ==
  /\ pc = "idle"
  /\ req < Len(Requests)
  /\ req' = req + 1
  /\ maxMatchSize' = 0 /\ controller' = None
  /\ middlewaresOf' = None /\ callbackOf' = None
  /\ GoTo(Entries)
  /\ present' = controllerMap
  /\ status' = 200 /\ length' = Unknown /\ sends' = 0
  /\ UNCHANGED <<mapVars, todo, out, connectionVars, unmatched, alive>>

\* Fault: an equal match, even of nothing, is as good.
NotWorse(old, new) == old <= new

Better(old, new) == old < new

Walk ==
  /\ pc = "walk"
  /\ LET size == PathMatchSize(controllerMap[cursor], Requests[req].path)
     IN IF Better(maxMatchSize, size)
        THEN maxMatchSize' = size /\ controller' = cursor
        ELSE UNCHANGED <<maxMatchSize, controller>>
  /\ GoTo({c \in Entries : cursor < c})
  /\ UNCHANGED <<mapVars, req, present, routeVars, todo, out, responseVars,
                 connectionVars, unmatched, alive>>

\* Fault: the status is left to the response.
NotFoundPage == <<Op("page", 0)>>

\* DefaultController, and RestfulAPIController for a path it has no route for.
NotFound == <<Op("status", 404), Op("page", 0)>>

\* A route for the method and path of the request.
Matches(c, r) ==
  /\ Routes[c][r].method = Requests[req].method
  /\ controllerPath[c] \o Routes[c][r].path = Requests[req].path

FirstRoute(routes) == IF routes = {} THEN None ELSE Min(routes)

\* Fault: the method is not compared.
RouteForPath(c) ==
  FirstRoute({r \in DOMAIN Routes[c] :
                controllerPath[c] \o Routes[c][r].path = Requests[req].path})

\* getMiddlewareList ...
MiddlewareRoute(c) == FirstRoute({r \in DOMAIN Routes[c] : Matches(c, r)})

\* ... and getCallback each look for it.
CallbackRoute(c) == FirstRoute({r \in DOMAIN Routes[c] : Matches(c, r)})

Middlewares(c, r) ==
  IF r = None THEN <<>> ELSE FlattenSeq(Routes[c][r].middlewares)

Callback(c, r) == IF r = None THEN NotFound ELSE Routes[c][r].callback

\* The last piece of the URI: here empty pieces are not removed.
LastPiece == IF Requests[req].slash THEN "" ELSE Last(Requests[req].path)

\* operator[] of _resourceMap makes an empty function, and calling it throws.
NoSuchResource ==
  /\ controller # None
  /\ Kind[controller] = "resource"
  /\ LastPiece \notin DOMAIN Resources[controller]

\* The operations of a controller without middlewares.
Operations ==
  IF controller = None THEN NotFound
  ELSE IF Kind[controller] = "static" THEN <<Op("file", 0)>>
  ELSE Resources[controller][LastPiece]

\* RestfulAPIController::process begins with the middlewares.
DispatchRestful ==
  /\ pc = "dispatch"
  /\ controller # None /\ Kind[controller] = "restful"
  /\ middlewaresOf' = MiddlewareRoute(controller)
  /\ todo' = Middlewares(controller, middlewaresOf')
  /\ pc' = "middlewares"
  /\ UNCHANGED <<mapVars, walkVars, callbackOf, out, responseVars,
                 connectionVars, unmatched, alive>>

Dispatch ==
  /\ pc = "dispatch"
  /\ controller # None => Kind[controller] # "restful"
  /\ IF NoSuchResource
     THEN alive' = FALSE /\ UNCHANGED <<pc, todo, unmatched>>
     ELSE /\ todo' = Operations
          /\ unmatched' = unmatched \cup (IF controller = None THEN {req} ELSE {})
          /\ pc' = "run"
          /\ UNCHANGED alive
  /\ UNCHANGED <<mapVars, walkVars, routeVars, out, responseVars, connectionVars>>

\* Whatever the middlewares have answered, the callback is called, or the default
\* page if no route is found any more.
CallCallback ==
  /\ AtCallback
  /\ callbackOf' = CallbackRoute(controller)
  /\ todo' = Callback(controller, callbackOf')
  /\ unmatched' = unmatched \cup
       (IF middlewaresOf = None /\ callbackOf' = None THEN {req} ELSE {})
  /\ pc' = "run"
  /\ UNCHANGED <<mapVars, walkVars, middlewaresOf, out, responseVars,
                 connectionVars, alive>>

Working == pc \in {"middlewares", "run"}

Handle(op) == Working /\ out = <<>> /\ todo # <<>> /\ Head(todo).op = op

\* status
SetStatus ==
  /\ Handle("status")
  /\ status' = Head(todo).n
  /\ todo' = Tail(todo)
  /\ UNCHANGED <<mapVars, pc, walkVars, routeVars, out, length, sends,
                 connectionVars, unmatched, alive>>

\* sendResponse.  n is Content-Length, size that of the body.  The text of a
\* status the table does not have is looked up with at(), which throws.
SendResponse(n, size) ==
  /\ length' = n
  /\ sends' = sends + 1
  /\ IF status \notin Codes
     THEN alive' = FALSE /\ UNCHANGED out
     ELSE /\ out' = <<Part("status", status, req), Part("length", n, req),
                      Part("blank", 0, req)>>
                    \o (IF size = 0 THEN <<>> ELSE <<Part("body", size, req)>>)
          /\ UNCHANGED alive
  /\ UNCHANGED <<mapVars, pc, walkVars, routeVars, connectionVars, unmatched>>

\* Fault: no length is set.
SendUnframed ==
  /\ Handle("send")
  /\ SendResponse(length, 0)
  /\ todo' = Tail(todo)
  /\ UNCHANGED status

\* send() without a body.
SendEmpty ==
  /\ Handle("send")
  /\ SendResponse(0, 0)
  /\ todo' = Tail(todo)
  /\ UNCHANGED status

\* Fault: the header is taken as it is, there or not.
LengthKept(size) == length

\* Content-Length of a body: one that is there is kept.
LengthOf(size) == IF length = Unknown THEN size ELSE length

\* send(body) and sendJson.
SendBody ==
  /\ Handle("body")
  /\ SendResponse(LengthOf(Head(todo).n), Head(todo).n)
  /\ todo' = Tail(todo)
  /\ UNCHANGED status

\* render: a file that is there is sent with its own length.
RenderFound(op) ==
  /\ Handle(op)
  /\ \E size \in Sizes : SendResponse(size, size)
  /\ todo' = Tail(todo)
  /\ UNCHANGED status

\* Fault: the status is set and nothing sent.
RenderNothing(op, then) ==
  /\ Handle(op)
  /\ status' = 404
  /\ todo' = Tail(todo)
  /\ UNCHANGED <<mapVars, pc, walkVars, routeVars, out, length, sends,
                 connectionVars, unmatched, alive>>

\* render: a missing file is answered with 404.html, a missing 404.html with
\* nothing but the status.
RenderMissing(op, then) ==
  /\ Handle(op)
  /\ status' = 404
  /\ todo' = <<Op(then, 0)>> \o Tail(todo)
  /\ UNCHANGED <<mapVars, pc, walkVars, routeVars, out, length, sends,
                 connectionVars, unmatched, alive>>

Render == \/ RenderFound("page") \/ RenderMissing("page", "send")
          \/ RenderFound("file") \/ RenderMissing("file", "page")

\* What is sent arrives.
Connected == open /\ ~reset

\* TcpSocket::write, each under the socket's mutex.  What send returns is dropped.
\* To a client that has reset the connection nothing is sent, and SIGPIPE, for which
\* there is no handler, may end the program.
Write ==
  /\ Working /\ out # <<>>
  /\ out' = Tail(out)
  /\ wire' = IF Connected THEN Append(wire, Head(out)) ELSE wire
  /\ alive' = TRUE \/ (open /\ reset /\ alive' = FALSE)
  /\ UNCHANGED <<mapVars, pc, walkVars, routeVars, todo, responseVars, open, reset,
                 unmatched>>

EndRequest ==
  /\ pc = "run" /\ out = <<>> /\ todo = <<>>
  /\ pc' = "idle"
  /\ UNCHANGED <<mapVars, walkVars, routeVars, todo, out, responseVars,
                 connectionVars, unmatched, alive>>
-----------------------------------------------------------------------------
\* TcpSocket::close by a thread of the server.
Close ==
  /\ open
  /\ open' = FALSE
  /\ UNCHANGED <<mapVars, pc, walkVars, routeVars, todo, out, responseVars, reset,
                 wire, unmatched, alive>>

\* The client, or its network, gives up a connection that is open.
Reset ==
  /\ Connected
  /\ reset' = TRUE
  /\ UNCHANGED <<mapVars, pc, walkVars, routeVars, todo, out, responseVars, open,
                 wire, unmatched, alive>>

ProcessRequest ==
  BeginRequest \/ Walk \/ DispatchRestful \/ Dispatch \/ CallCallback
    \/ SetStatus \/ SendEmpty \/ SendBody \/ Render \/ Write \/ EndRequest

Next == alive /\ (ProcessRequest \/ Register \/ Close \/ Reset)

Spec == Init /\ [][Next]_vars
-----------------------------------------------------------------------------
(* Properties.                                                             *)

\* However registration and requests fall, unless an insertion breaks the walk
\* itself (then nothing is chosen any more), the controller chosen matches at
\* least as much as every one that was registered when the request was begun,
\* and the default controller serves only what none of them matches.
BestMatch ==
  pc = "dispatch" =>
    /\ controller = None <=> maxMatchSize = 0
    /\ \A c \in Controllers : present[c] # NoPath =>
         PathMatchSize(present[c], Requests[req].path) <= maxMatchSize

\* A controller whose path the request begins with is not passed over for the
\* default controller.
PrefixServed ==
  pc = "dispatch" /\ controller = None =>
    \A c \in Controllers : present[c] # NoPath /\ present[c] # <<>> =>
      ~IsPrefix(present[c], Requests[req].path)

\* "returns 404 to all requests" (IController.h): what nobody is registered for,
\* or has no route, is answered with 404 and nothing else.
NotFoundIs404 ==
  \A j \in DOMAIN wire :
    wire[j].part = "status" /\ wire[j].of \in unmatched => wire[j].n = 404

\* A callback runs behind its own middlewares, unless its controller is registered
\* again meanwhile: then it may run without them, or they may refuse a request
\* that goes to the default page.
RegisteredOnce(c) ==
  \A j, k \in DOMAIN Registration :
    Registration[j].controller = c /\ Registration[k].controller = c => j = k

CallbackBehindMiddlewares ==
  pc = "run" /\ controller # None =>
    (Kind[controller] = "restful" /\ RegisteredOnce(controller) =>
       callbackOf = middlewaresOf)

\* A request is answered as often as its middlewares and its callback answer: a
\* refusal does not keep the callback from answering too, and a page that is
\* missing, be it 404.html itself, is one answer.
Answers(ops) == Cardinality({j \in DOMAIN ops : ops[j].op # "status"})

AnsweredAsAsked ==
  pc = "run" /\ todo = <<>> =>
    sends = IF controller # None /\ Kind[controller] = "restful"
            THEN Answers(Middlewares(controller, middlewaresOf))
                   + Answers(Callback(controller, callbackOf))
            ELSE Answers(Operations)

\* A response that is sent once leaves the server framed as it says, or cut off
\* where its connection was closed or reset: the status, the length, a blank line,
\* and as much body as the length promises, without another response between them.
Framed(code, n) ==
  <<Part("status", code, req), Part("length", n, req), Part("blank", 0, req)>>
    \o (IF n = 0 THEN <<>> ELSE <<Part("body", n, req)>>)

SentOnceIsFramed ==
  sends = 1 /\ alive =>
    \E k \in 0..Len(wire) :
      LET sent == SubSeq(wire, k + 1, Len(wire))
      IN /\ \A j \in DOMAIN wire : wire[j].of = req <=> j > k
         /\ \E code \in Codes :
              /\ IsPrefix(sent, Framed(code, length))
              /\ Connected => sent \o out = Framed(code, length)
=============================================================================
