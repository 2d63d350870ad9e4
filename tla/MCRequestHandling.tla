-------------------------- MODULE MCRequestHandling --------------------------
(***************************************************************************)
(* Four controllers, as main.cpp makes them and two more, whose addresses  *)
(* are in another order than their registration.                           *)
(***************************************************************************)
EXTENDS RequestHandling

MCControllers == 1..4
MCKind == <<"restful", "static", "resource", "restful">>

Answer == <<Op("body", 2)>>
Refusal == <<Op("status", 403), Op("send", 0)>>

\* 418 is not in the table of status codes.
Teapot == <<Op("status", 418), Op("send", 0)>>

\* "/test" with routes for "/" and "/auto", the second behind a middleware that
\* refuses the request, which does not keep the callback from being called, and
\* "/once" with the same path for two methods, one of them behind a middleware.
MCRoutes ==
  [c \in MCControllers |->
     IF c = 4
     THEN << [method |-> "PUT", path |-> <<>>, middlewares |-> <<Refusal>>,
              callback |-> Answer],
             [method |-> "GET", path |-> <<>>, middlewares |-> <<>>, callback |-> Answer] >>
     ELSE IF c # 1 THEN <<>>
     ELSE << [method |-> "GET", path |-> <<>>, middlewares |-> <<>>, callback |-> Answer],
             [method |-> "GET", path |-> <<"auto">>, middlewares |-> <<Refusal>>,
              callback |-> Answer],
             [method |-> "PUT", path |-> <<"auto">>, middlewares |-> <<>>,
              callback |-> Teapot] >>]

MCResources == [c \in MCControllers |->
                  IF c = 3 THEN [name \in {"auto"} |-> <<Op("status", 200)>> \o Answer]
                  ELSE <<>>]

\* The third registration is refused, the last one moves the first controller.
MCRegistration ==
  << [controller |-> 2, path |-> <<"staticfile">>],
     [controller |-> 1, path |-> <<"test">>],
     [controller |-> 3, path |-> <<"test">>],
     [controller |-> 3, path |-> <<"api", "v1">>],
     [controller |-> 4, path |-> <<"once">>],
     [controller |-> 1, path |-> <<"moved">>] >>

\* A request for each controller, one that ends like "/api/v1", one whose handler sets
\* a status the server does not know, one for a resource that is not found behind a
\* slash, and one for no controller.
MCRequests ==
  << [method |-> "GET", path |-> <<"once">>, slash |-> FALSE],
     [method |-> "GET", path |-> <<"test", "auto">>, slash |-> FALSE],
     [method |-> "GET", path |-> <<"test", "v1", "auto">>, slash |-> FALSE],
     [method |-> "PUT", path |-> <<"test", "auto">>, slash |-> FALSE],
     [method |-> "GET", path |-> <<"api", "v1", "auto">>, slash |-> TRUE],
     [method |-> "GET", path |-> <<"staticfile", "page">>, slash |-> FALSE],
     [method |-> "PUT", path |-> <<"other">>, slash |-> FALSE] >>

MCSizes == {0, 3}
=============================================================================
