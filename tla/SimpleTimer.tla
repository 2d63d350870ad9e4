----------------------------- MODULE SimpleTimer -----------------------------
(***************************************************************************)
(* SimpleTimer: one thread that counts down every item of _waitingList     *)
(* once a second and reports those that reach zero.                        *)
(*                                                                         *)
(* start, restart, stop and remove are called by two threads: the          *)
(* HttpServer thread ("http": the idle timers of the thread pool) and the  *)
(* TcpServer thread ("tcp": the idle timers of the connections, the only   *)
(* ones that are removed).  They lock the mutex; the timer's own thread    *)
(* walks the list and counts without it, and locks it only to report.      *)
(*                                                                         *)
(* Undefined behaviour: the thread may touch an item that has just been    *)
(* erased, or insert and erase may overlap.  Either the memory still holds *)
(* what it held and the program goes on, or it ends (alive).               *)
(***************************************************************************)
EXTENDS Integers

CONSTANTS MaxItems,  \* bound: how many items are ever started
          MaxCalls,  \* bound: how often items are restarted or removed
          Seconds,   \* the times callers ask for
          Word       \* 2^w, w the width of unsigned int

ASSUME MaxItemsAssumption == MaxItems \in Nat
ASSUME MaxCallsAssumption == MaxCalls \in Nat
ASSUME WordAssumption == Word \in Nat \ {0}
ASSUME SecondsAssumption == Seconds \subseteq 0..(Word - 1)

Items == 0..(MaxItems - 1)
Callers == {"http", "tcp"}
NoItem == MaxItems

VARIABLES
  \* SimpleTimer
  mutex,     \* _mutex: "free" or who holds it
  lastId,    \* _lastId
  node,      \* _waitingList: no node, a node without item, or an item
  started,   \* WaitingItem::started
  timeout,   \* WaitingItem::timeout
  \* its thread
  pc,
  at,        \* the item the thread is at
  reg,       \* the value it has loaded to decrement
  \* the callers
  cpc, arg,
  calls,     \* calls so far
  \* history
  owner,     \* who started the item
  left,      \* seconds left of the time last asked for
  reported,  \* nothing has been asked for since the last report
  raced,     \* asked for while the thread was busy with the item
  alive      \* FALSE once undefined behaviour has ended the program

listVars == <<node, started, timeout>>
threadVars == <<pc, at, reg>>
callerVars == <<cpc, arg, calls, owner>>
historyVars == <<left, reported, raced>>
vars == <<mutex, lastId, listVars, threadVars, callerVars, historyVars, alive>>

TypeOK ==
  /\ mutex \in {"free", "timer"} \cup Callers
  /\ lastId \in 0..MaxItems
  /\ node \in [Items -> {"absent", "null", "item"}]
  /\ started \in [Items -> BOOLEAN]
  /\ timeout \in [Items -> 0..(Word - 1)]
  /\ pc \in {"sleep", "item", "load", "store", "check", "lock", "emit", "next"}
  /\ at \in Items \cup {NoItem}
  /\ reg \in 0..(Word - 1)
  /\ cpc \in [Callers -> {"idle", "assign", "erase"}]
  /\ arg \in [Callers -> Items \cup {NoItem}]
  /\ calls \in 0..MaxCalls
  /\ owner \in [Items -> Callers \cup {"none"}]
  /\ left \in [Items -> 0..Word]
  /\ reported \in [Items -> BOOLEAN]
  /\ raced \in [Items -> BOOLEAN]
  /\ alive \in BOOLEAN

Init ==
  /\ mutex = "free"
  /\ lastId = 0
  /\ node = [id \in Items |-> "absent"]
  /\ started = [id \in Items |-> FALSE]
  /\ timeout = [id \in Items |-> 0]
  /\ pc = "sleep"
  /\ at = NoItem
  /\ reg = 0
  /\ cpc = [c \in Callers |-> "idle"]
  /\ arg = [c \in Callers |-> NoItem]
  /\ calls = 0
  /\ owner = [id \in Items |-> "none"]
  /\ left = [id \in Items |-> 0]
  /\ reported = [id \in Items |-> TRUE]
  /\ raced = [id \in Items |-> FALSE]
  /\ alive = TRUE
-----------------------------------------------------------------------------
(* The timer's thread: SimpleTimer::run.                                   *)

\* Fault: the count does not wrap.
DecrementedNoWrap(n) == n - 1

Decremented(n) == IF n = 0 THEN Word - 1 ELSE n - 1

\* Fault: only the first item of a pass is looked at.
EndPass(ids) == pc' = "sleep" /\ at' = NoItem

\* The first of ids, in the order of the map; none ends the pass.
GoTo(ids) ==
  \/ ids = {} /\ pc' = "sleep" /\ at' = NoItem
  \/ \E id \in ids : /\ \A other \in ids : id <= other
                     /\ pc' = "item" /\ at' = id

BeginPass ==
  /\ pc = "sleep"
  /\ GoTo({id \in Items : node[id] # "absent"})
  /\ UNCHANGED <<mutex, lastId, listVars, reg, callerVars, historyVars, alive>>

\* The node of an item being started holds a null pointer for a moment.
LookAt ==
  /\ pc = "item"
  /\ IF node[at] = "null"
     THEN alive' = FALSE /\ UNCHANGED pc
     ELSE pc' = (IF started[at] THEN "load" ELSE "next") /\ UNCHANGED alive
  /\ UNCHANGED <<mutex, lastId, listVars, at, reg, callerVars, historyVars>>

\* timeout -= 1 is a load ...
Load ==
  /\ pc = "load"
  /\ reg' = timeout[at]
  /\ pc' = "store"
  /\ UNCHANGED <<mutex, lastId, listVars, at, callerVars, historyVars, alive>>

\* ... and a store.
Store ==
  /\ pc = "store"
  /\ timeout' = [timeout EXCEPT ![at] = Decremented(reg)]
  /\ left' = [left EXCEPT ![at] = IF @ = 0 THEN 0 ELSE @ - 1]
  /\ pc' = "check"
  /\ UNCHANGED <<mutex, lastId, node, started, at, reg, callerVars, reported,
                 raced, alive>>

\* Fault: the value before the decrement is tested.
CheckLoaded ==
  /\ pc = "check"
  /\ pc' = IF reg = 0 THEN "lock" ELSE "next"
  /\ UNCHANGED <<mutex, lastId, listVars, at, reg, callerVars, historyVars, alive>>

Check ==
  /\ pc = "check"
  /\ pc' = IF timeout[at] = 0 THEN "lock" ELSE "next"
  /\ UNCHANGED <<mutex, lastId, listVars, at, reg, callerVars, historyVars, alive>>

\* timeout.emit: slots without an owner run here, with the mutex held.  One of
\* them, the pool's, may wait for ever (ServerThreadPool): Release is not fair.
Emit ==
  /\ pc = "lock" /\ mutex = "free"
  /\ mutex' = "timer"
  /\ reported' = [reported EXCEPT ![at] = TRUE]
  /\ pc' = "emit"
  /\ UNCHANGED <<lastId, listVars, at, reg, callerVars, left, raced, alive>>

Release ==
  /\ pc = "emit"
  /\ mutex' = "free"
  /\ pc' = "next"
  /\ UNCHANGED <<lastId, listVars, at, reg, callerVars, historyVars, alive>>

Advance ==
  /\ pc = "next"
  /\ GoTo({id \in Items : at < id /\ node[id] # "absent"})
  /\ UNCHANGED <<mutex, lastId, listVars, reg, callerVars, historyVars, alive>>

\* The item the thread is at has been erased.
TouchErased ==
  /\ pc # "sleep"
  /\ node[at] = "absent"
  /\ alive' = FALSE
  /\ UNCHANGED <<mutex, lastId, listVars, threadVars, callerVars, historyVars>>
-----------------------------------------------------------------------------
(* The callers.                                                            *)

\* The first decrement of 0 gives 2^w - 1: no time is taken for the longest.
Lasting(s) == IF s = 0 THEN Word ELSE s

\* Item id is to expire in s seconds from now.
AskFor(id, s) ==
  /\ timeout' = [timeout EXCEPT ![id] = s]
  /\ left' = [left EXCEPT ![id] = Lasting(s)]
  /\ reported' = [reported EXCEPT ![id] = FALSE]
  /\ raced' = [raced EXCEPT ![id] =
                 /\ at = id
                 /\ pc \in {"store", "lock"} \/ (pc = "check" /\ s = 0)]

\* start: operator[] inserts a node with a null pointer ...
Start(c) ==
  /\ cpc[c] = "idle" /\ mutex = "free"
  /\ lastId < MaxItems
  /\ mutex' = c
  /\ lastId' = lastId + 1
  /\ node' = [node EXCEPT ![lastId] = "null"]
  /\ owner' = [owner EXCEPT ![lastId] = c]
  /\ cpc' = [cpc EXCEPT ![c] = "assign"]
  /\ arg' = [arg EXCEPT ![c] = lastId]
  /\ UNCHANGED <<started, timeout, threadVars, calls, historyVars, alive>>

\* ... to which the item is then assigned.
StartAssign(c) ==
  /\ cpc[c] = "assign"
  /\ node' = [node EXCEPT ![arg[c]] = "item"]
  /\ started' = [started EXCEPT ![arg[c]] = TRUE]
  /\ \E s \in Seconds : AskFor(arg[c], s)
  /\ mutex' = "free"
  /\ cpc' = [cpc EXCEPT ![c] = "idle"]
  /\ arg' = [arg EXCEPT ![c] = NoItem]
  /\ UNCHANGED <<lastId, threadVars, calls, owner, alive>>

\* Nothing but remove stops an item, so started is TRUE already.
Restart(c) ==
  /\ cpc[c] = "idle" /\ mutex = "free"
  /\ calls < MaxCalls
  /\ \E id \in Items :
       /\ owner[id] = c /\ node[id] = "item"
       /\ started' = [started EXCEPT ![id] = TRUE]
       /\ \E s \in Seconds : AskFor(id, s)
  /\ calls' = calls + 1
  /\ UNCHANGED <<mutex, lastId, node, threadVars, cpc, arg, owner, alive>>

\* remove: stop ...
Stop(c) ==
  /\ c = "tcp"
  /\ cpc[c] = "idle" /\ mutex = "free"
  /\ calls < MaxCalls
  /\ \E id \in Items :
       /\ owner[id] = c /\ node[id] = "item"
       /\ started' = [started EXCEPT ![id] = FALSE]
       /\ arg' = [arg EXCEPT ![c] = id]
  /\ calls' = calls + 1
  /\ cpc' = [cpc EXCEPT ![c] = "erase"]
  /\ UNCHANGED <<mutex, lastId, node, timeout, threadVars, owner, historyVars,
                 alive>>

\* ... and, no longer under the mutex, erase.
Erase(c) ==
  /\ cpc[c] = "erase"
  /\ node' = [node EXCEPT ![arg[c]] = "absent"]
  /\ \/ UNCHANGED alive
     \/ mutex \in Callers /\ alive' = FALSE   \* an insertion is going on
  /\ cpc' = [cpc EXCEPT ![c] = "idle"]
  /\ arg' = [arg EXCEPT ![c] = NoItem]
  /\ UNCHANGED <<mutex, lastId, started, timeout, threadVars, calls, owner,
                 historyVars>>
-----------------------------------------------------------------------------
Thread ==
  /\ alive
  /\ \/ BeginPass \/ LookAt \/ Load \/ Store \/ Check \/ Emit
     \/ Advance \/ TouchErased

SlotsReturn == alive /\ Release

Finish(c) == alive /\ (StartAssign(c) \/ Erase(c))

Call(c) == alive /\ (Start(c) \/ Restart(c) \/ Stop(c))

Next == Thread \/ SlotsReturn \/ \E c \in Callers : Finish(c) \/ Call(c)

Spec == Init /\ [][Next]_vars

\* The timer's thread runs, and a call that has begun ends.  Nothing says that
\* the slots of a report return.
Fairness == WF_vars(Thread) /\ \A c \in Callers : WF_vars(Finish(c))

FairSpec == Spec /\ Fairness
-----------------------------------------------------------------------------
(* Properties.                                                             *)

\* An item is reported in the very pass in which its time runs out: no report
\* comes before that, and the thread does not go on to the next item without it,
\* however the calls for it and for other items fall.  The exceptions are a time
\* asked for while the thread was between its load and store, or its check and
\* lock (or 0 asked for before its check), and the time 0, which is not due at
\* once but when the count has wrapped (see Lasting).
ReportedOnTime ==
  /\ pc = "emit" => left[at] = 0 \/ raced[at]
  /\ pc = "next" /\ left[at] = 0 => reported[at] \/ raced[at]

\* An item that has been started is reported, unless it is stopped first, the
\* program ends, or a slot the thread reports to never returns.  Here the races
\* are no excuse: no request for a time is dropped altogether.
EventuallyReported ==
  \A id \in Items :
    \/ (node[id] = "item" /\ started[id] /\ ~reported[id])
         ~> (reported[id] \/ ~started[id] \/ ~alive)
    \/ <>[](pc = "emit")

\* "It has precision of one second" (SimpleTimer.h): what is reported has at
\* most one second left.
PrecisionOfOneSecond == pc = "emit" => left[at] <= 1
=============================================================================
