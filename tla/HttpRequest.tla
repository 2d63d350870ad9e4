----------------------------- MODULE HttpRequest -----------------------------
(***************************************************************************)
(* The request object a connection's parser fills, as a record and the     *)
(* operations that change or read it.                                      *)
(*                                                                         *)
(* A character is its code.  A word of the tables of httpcommon.h, the     *)
(* name of a method or a version, is one token, a number that is the code  *)
(* of no character.                                                        *)
(***************************************************************************)
EXTENDS Integers, Sequences

\* HTTP_METHOD and HTTP_VERSION: eUNKNOWN is 0, then eOPTIONS to eCONNECT, and
\* eHTTP10 to eHTTP20.
eUNKNOWN == 0
Methods == 1..8
Versions == 1..3

MethodWord(m) == <<256 + m>>
VersionWord(v) == <<512 + v>>

\* Fault: a word is not looked up.
MethodRaw(word) == IF word = <<>> THEN eUNKNOWN ELSE word[1] - 256

\* STR_TO_HTTP_METHOD and STR_TO_HTTP_VERSION.
MethodOf(word) ==
  IF \E m \in Methods : word = MethodWord(m)
  THEN CHOOSE m \in Methods : word = MethodWord(m) ELSE eUNKNOWN

VersionOf(word) ==
  IF \E v \in Versions : word = VersionWord(v)
  THEN CHOOSE v \in Versions : word = VersionWord(v) ELSE eUNKNOWN

Lower(word) ==
  [j \in DOMAIN word |-> IF word[j] \in 65..90 THEN word[j] + 32 ELSE word[j]]

\* std::map: insert keeps what is there, operator[] overwrites it.
Insert(map, key, value) ==
  [k \in DOMAIN map \cup {key} |-> IF k \in DOMAIN map THEN map[k] ELSE value]

Assign(map, key, value) ==
  [k \in DOMAIN map \cup {key} |-> IF k = key THEN value ELSE map[k]]
-----------------------------------------------------------------------------
NewRequest == [method |-> eUNKNOWN, version |-> eUNKNOWN, uri |-> <<>>,
               query |-> <<>>, headers |-> <<>>, headerKeyMap |-> <<>>]

SetMethod(r, word) == [r EXCEPT !.method = MethodOf(word)]
SetVersion(r, word) == [r EXCEPT !.version = VersionOf(word)]
SetURI(r, uri) == [r EXCEPT !.uri = uri]

\* Fault: a parameter that is there is kept.
AddQueryOnce(r, key, value) == [r EXCEPT !.query = Insert(@, key, value)]

AddQuery(r, key, value) == [r EXCEPT !.query = Assign(@, key, value)]

\* Fault: a header goes by its last spelling.
AddHeaderRespelled(r, key, value) ==
  [r EXCEPT !.headers = Insert(@, key, value),
            !.headerKeyMap = Assign(@, Lower(key), key)]

AddHeader(r, key, value) ==
  [r EXCEPT !.headers = Insert(@, key, value),
            !.headerKeyMap = Insert(@, Lower(key), key)]

\* at() throws when headerKeyMap has a key that headers has not.
GetHeader(r, key) ==
  IF Lower(key) \in DOMAIN r.headerKeyMap
  THEN r.headers[r.headerKeyMap[Lower(key)]] ELSE <<>>

GetQuery(r, key) == IF key \in DOMAIN r.query THEN r.query[key] ELSE <<>>
=============================================================================
