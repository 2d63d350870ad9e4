-------------------------- MODULE SimpleTimerProofs --------------------------
(***************************************************************************)
(* Proofs about SimpleTimer for any number of items and calls, any times   *)
(* and any width of unsigned int.                                          *)
(*                                                                         *)
(* The argument: until it is reported, an item that no call has raced with *)
(* counts exactly the time that is left, the value the thread works with   *)
(* between two of its steps is still that of the item, and the only place  *)
(* where such an item can have no time left is between the store that took *)
(* the last second and the report.                                         *)
(***************************************************************************)
EXTENDS SimpleTimer, TLAPS

\* The mutex is held exactly while a slot runs and while start inserts.
MutexInv ==
  /\ mutex = "timer" <=> pc = "emit"
  /\ \A c \in Callers : mutex = c <=> cpc[c] = "assign"

\* The thread and the calls in progress work on an item.
AtInv ==
  /\ pc # "sleep" => at \in Items
  /\ \A c \in Callers : cpc[c] # "idle" => arg[c] \in Items

\* What timeout holds when n seconds are left.
CountOf(n) == IF n = Word THEN 0 ELSE n

\* No call has raced with item id since its time was asked for.
Clean(id) == ~raced[id]

\* The time left agrees with the item's counter, and with what the thread knows.
CountInv ==
  /\ \A id \in Items : Clean(id) /\ ~reported[id] => timeout[id] = CountOf(left[id])
  /\ \A id \in Items : Clean(id) /\ reported[id] => left[id] = 0
  /\ pc = "store" /\ Clean(at) /\ ~reported[at] => reg = CountOf(left[at])
  /\ pc = "check" /\ Clean(at) => left[at] # Word
  /\ pc \in {"lock", "emit"} /\ Clean(at) => left[at] = 0

\* Only at the report can an item have no time left and not be reported.
DueInv ==
  \A id \in Items : Clean(id) /\ ~reported[id] /\ left[id] = 0
                      => at = id /\ pc \in {"check", "lock"}

IInv == TypeOK /\ MutexInv /\ AtInv /\ CountInv /\ DueInv

USE DEF Items, Callers, NoItem, listVars, threadVars, callerVars, historyVars,
        Clean, CountOf

\* The decrement of an unsigned int is an unsigned int.
LEMMA DecrementedType ==
  ASSUME NEW n \in 0..(Word - 1)
  PROVE  Decremented(n) \in 0..(Word - 1)
  BY WordAssumption DEF Decremented

LEMMA InitIInv == Init => IInv
  BY WordAssumption, MaxItemsAssumption, MaxCallsAssumption
  DEF Init, IInv, TypeOK, MutexInv, AtInv, CountInv, DueInv

\* What a step of the timer's thread, other than a store, leaves alone.
LEMMA GoToType ==
  ASSUME NEW ids \in SUBSET Items, GoTo(ids)
  PROVE  /\ pc' \in {"sleep", "item"}
         /\ at' \in Items \cup {NoItem}
         /\ pc' # "sleep" => at' \in Items
  BY DEF GoTo

LEMMA ThreadIInv == IInv /\ Thread => IInv'
<1> SUFFICES ASSUME IInv, Thread PROVE IInv'
  OBVIOUS
<1> USE MaxItemsAssumption, MaxCallsAssumption, WordAssumption DEF IInv
<1>1. CASE BeginPass
  <2>1. GoTo({id \in Items : node[id] # "absent"})
    BY <1>1 DEF BeginPass
  <2>2. /\ pc' \in {"sleep", "item"}
        /\ at' \in Items \cup {NoItem}
        /\ pc' # "sleep" => at' \in Items
    BY <2>1, GoToType
  <2> QED
    BY <1>1, <2>2 DEF BeginPass, TypeOK, MutexInv, AtInv, CountInv, DueInv
<1>2. CASE LookAt
  BY <1>2 DEF LookAt, TypeOK, MutexInv, AtInv, CountInv, DueInv
<1>3. CASE Load
  BY <1>3 DEF Load, TypeOK, MutexInv, AtInv, CountInv, DueInv
<1>4. CASE Store
  <2>1. /\ at \in Items /\ reg \in 0..(Word - 1) /\ left[at] \in 0..Word
        /\ left' = [left EXCEPT ![at] = IF left[at] = 0 THEN 0 ELSE left[at] - 1]
        /\ timeout' = [timeout EXCEPT ![at] = Decremented(reg)]
        /\ pc = "store" /\ pc' = "check"
    BY <1>4 DEF Store, TypeOK, AtInv
  <2>2. /\ Decremented(reg) \in 0..(Word - 1)
        /\ (IF left[at] = 0 THEN 0 ELSE left[at] - 1) \in 0..(Word - 1)
    BY <2>1, DecrementedType
  <2>3. TypeOK'
    <3>1. (IF left[at] = 0 THEN 0 ELSE left[at] - 1) \in 0..Word
      BY <2>1
    <3>2. left' \in [Items -> 0..Word] /\ timeout' \in [Items -> 0..(Word - 1)]
      BY <2>1, <2>2, <3>1 DEF TypeOK
    <3> QED
      BY <1>4, <3>2 DEF Store, TypeOK
  <2>4. MutexInv' /\ AtInv'
    BY <1>4 DEF Store, MutexInv, AtInv
  <2>5. Clean(at) /\ ~reported[at]
          => Decremented(reg) = (IF left[at] = 0 THEN 0 ELSE left[at] - 1)
    BY <2>1 DEF CountInv, DueInv, Decremented
  <2>6. CountInv' /\ DueInv'
    BY <1>4, <2>1, <2>2, <2>5 DEF Store, TypeOK, CountInv, DueInv
  <2> QED
    BY <2>3, <2>4, <2>6
<1>5. CASE Check
  BY <1>5 DEF Check, TypeOK, MutexInv, AtInv, CountInv, DueInv
<1>6. CASE Emit
  BY <1>6 DEF Emit, TypeOK, MutexInv, AtInv, CountInv, DueInv
<1>7. CASE Advance
  <2>1. GoTo({id \in Items : at < id /\ node[id] # "absent"})
    BY <1>7 DEF Advance
  <2>2. /\ pc' \in {"sleep", "item"}
        /\ at' \in Items \cup {NoItem}
        /\ pc' # "sleep" => at' \in Items
    BY <2>1, GoToType
  <2> QED
    BY <1>7, <2>2 DEF Advance, TypeOK, MutexInv, AtInv, CountInv, DueInv
<1>8. CASE TouchErased
  BY <1>8 DEF TouchErased, TypeOK, MutexInv, AtInv, CountInv, DueInv
<1> QED
  BY <1>1, <1>2, <1>3, <1>4, <1>5, <1>6, <1>7, <1>8 DEF Thread

LEMMA SlotsIInv == IInv /\ SlotsReturn => IInv'
  BY DEF SlotsReturn, Release, IInv, TypeOK, MutexInv, AtInv, CountInv, DueInv

\* Whoever asks for a time while the thread is busy with the item marks it.
LEMMA AskForInv ==
  ASSUME IInv, NEW id \in Items, NEW s \in Seconds, AskFor(id, s),
         pc # "emit", UNCHANGED threadVars
  PROVE  /\ timeout' \in [Items -> 0..(Word - 1)]
         /\ left' \in [Items -> 0..Word]
         /\ reported' \in [Items -> BOOLEAN]
         /\ raced' \in [Items -> BOOLEAN]
         /\ CountInv' /\ DueInv'
<1>1. /\ s \in 0..(Word - 1) /\ Lasting(s) \in 1..Word
      /\ s = CountOf(Lasting(s)) /\ (s # 0 => Lasting(s) # Word)
  BY SecondsAssumption, WordAssumption DEF Lasting
<1>2. /\ timeout' \in [Items -> 0..(Word - 1)]
      /\ left' \in [Items -> 0..Word]
      /\ reported' \in [Items -> BOOLEAN]
  BY <1>1 DEF AskFor, IInv, TypeOK
<1>3. raced' \in [Items -> BOOLEAN]
  BY DEF AskFor, IInv, TypeOK
<1>4. CountInv'
  BY <1>1 DEF AskFor, IInv, TypeOK, AtInv, CountInv
<1>5. DueInv'
  BY <1>1 DEF AskFor, IInv, TypeOK, AtInv, DueInv
<1> QED
  BY <1>2, <1>3, <1>4, <1>5

LEMMA CallIInv == ASSUME IInv, NEW c \in Callers, Finish(c) \/ Call(c) PROVE IInv'
<1> USE MaxItemsAssumption, MaxCallsAssumption, WordAssumption DEF IInv
<1>1. CASE Start(c)
  <2>1. TypeOK'
    BY <1>1 DEF Start, TypeOK
  <2>2. MutexInv' /\ AtInv'
    BY <1>1 DEF Start, MutexInv, AtInv, TypeOK
  <2>3. CountInv' /\ DueInv'
    BY <1>1 DEF Start, CountInv, DueInv
  <2> QED
    BY <2>1, <2>2, <2>3
<1>2. CASE StartAssign(c)
  <2>1. arg[c] \in Items /\ pc # "emit" /\ mutex = c
    BY <1>2 DEF StartAssign, MutexInv, AtInv
  <2>2. PICK s \in Seconds : AskFor(arg[c], s)
    BY <1>2 DEF StartAssign
  <2>3. UNCHANGED threadVars
    BY <1>2 DEF StartAssign
  <2>4. /\ timeout' \in [Items -> 0..(Word - 1)]
        /\ left' \in [Items -> 0..Word]
        /\ reported' \in [Items -> BOOLEAN]
        /\ raced' \in [Items -> BOOLEAN]
        /\ CountInv' /\ DueInv'
    BY <2>1, <2>2, <2>3, AskForInv
  <2>5. TypeOK'
    BY <1>2, <2>1, <2>4 DEF StartAssign, TypeOK
  <2>6. MutexInv' /\ AtInv'
    BY <1>2, <2>1 DEF StartAssign, TypeOK, MutexInv, AtInv
  <2> QED
    BY <2>4, <2>5, <2>6
<1>3. CASE Restart(c)
  <2>1. pc # "emit"
    BY <1>3 DEF Restart, MutexInv
  <2>2. PICK id \in Items, s \in Seconds :
          AskFor(id, s) /\ started' = [started EXCEPT ![id] = TRUE]
    BY <1>3 DEF Restart
  <2>3. UNCHANGED threadVars
    BY <1>3 DEF Restart
  <2>4. /\ timeout' \in [Items -> 0..(Word - 1)]
        /\ left' \in [Items -> 0..Word]
        /\ reported' \in [Items -> BOOLEAN]
        /\ raced' \in [Items -> BOOLEAN]
        /\ CountInv' /\ DueInv'
    BY <2>1, <2>2, <2>3, AskForInv
  <2>5. TypeOK'
    <3>1. started' \in [Items -> BOOLEAN] /\ calls' \in 0..MaxCalls
      BY <1>3, <2>2 DEF Restart, TypeOK
    <3> QED
      BY <1>3, <2>4, <3>1 DEF Restart, TypeOK
  <2>6. MutexInv' /\ AtInv'
    BY <1>3 DEF Restart, MutexInv, AtInv
  <2> QED
    BY <2>4, <2>5, <2>6
<1>4. CASE Stop(c)
  <2>1. TypeOK'
    BY <1>4 DEF Stop, TypeOK
  <2>2. MutexInv' /\ AtInv'
    BY <1>4 DEF Stop, MutexInv, AtInv, TypeOK
  <2>3. CountInv' /\ DueInv'
    BY <1>4 DEF Stop, CountInv, DueInv
  <2> QED
    BY <2>1, <2>2, <2>3
<1>5. CASE Erase(c)
  <2>1. TypeOK'
    BY <1>5 DEF Erase, TypeOK, AtInv
  <2>2. MutexInv' /\ AtInv'
    BY <1>5 DEF Erase, MutexInv, AtInv, TypeOK
  <2>3. CountInv' /\ DueInv'
    BY <1>5 DEF Erase, CountInv, DueInv
  <2> QED
    BY <2>1, <2>2, <2>3
<1> QED
  BY <1>1, <1>2, <1>3, <1>4, <1>5 DEF Finish, Call

LEMMA SpecIInv == Spec => []IInv
<1>1. IInv /\ [Next]_vars => IInv'
  <2> SUFFICES ASSUME IInv, [Next]_vars PROVE IInv'
    OBVIOUS
  <2>1. CASE Next
    BY <2>1, ThreadIInv, SlotsIInv, CallIInv DEF Next
  <2>2. CASE UNCHANGED vars
    BY <2>2 DEF vars, IInv, TypeOK, MutexInv, AtInv, CountInv, DueInv
  <2> QED
    BY <2>1, <2>2
<1> QED
  BY <1>1, InitIInv, PTL DEF Spec

\* Every variable of the timer and its callers keeps its type; in particular a
\* count stays an unsigned int.
THEOREM TypeCorrect == Spec => []TypeOK
  BY SpecIInv, PTL DEF IInv

\* An item is reported in the very pass in which its time runs out, for any
\* times, items and calls and any width of unsigned int: not before, and the
\* thread does not leave it unreported.  The exceptions are those of
\* ReportedOnTime: a time asked for while the thread was at the item, and the
\* time 0, which lasts until the count has wrapped.
THEOREM OnTime == Spec => []ReportedOnTime
<1>1. IInv => ReportedOnTime
  <2> SUFFICES ASSUME IInv PROVE ReportedOnTime
    OBVIOUS
  <2>1. pc = "emit" => left[at] = 0 \/ raced[at]
    BY DEF IInv, CountInv
  <2>2. pc = "next" /\ left[at] = 0 => reported[at] \/ raced[at]
    BY DEF IInv, AtInv, DueInv
  <2> QED
    BY <2>1, <2>2 DEF ReportedOnTime
<1> QED
  BY <1>1, SpecIInv, PTL
=============================================================================
