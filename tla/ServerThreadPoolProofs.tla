----------------------- MODULE ServerThreadPoolProofs -----------------------
(***************************************************************************)
(* Proofs about ServerThreadPool for any number of requests and any pool   *)
(* sizes.                                                                  *)
(*                                                                         *)
(* The argument rests on three things: who holds which lock at which       *)
(* program point; that isExecuting can only ever answer "no", so that      *)
(* startNewOperation makes a thread only when it has found the list empty; *)
(* and that a thread which has not returned from run() is in the list or   *)
(* is still held by the call that created it.                              *)
(***************************************************************************)
EXTENDS ServerThreadPool, TLAPS

\* Program points of startNewOperation from which `thread' is the new thread.
Creating == {"insert", "start", "pushNew", "rearmNew", "release"}
Destroying == {"stop", "flags", "join"}

\* A mutex belongs to the thread whose program counter is between its lock
\* and its unlock.
LockInv ==
  /\ dataMutex = "http" <=> hpc \in {"scan", "push", "rearm"}
  /\ dataMutex = "timer" <=> tpc \in {"erase", "stop", "flags", "join", "unlock"}
  /\ timerMutex = "timer" <=> tpc \notin {"idle", "lock"}

\* There are never more threads than requests, because each call creates at
\* most one; and a call in progress works for a request.
CountInv ==
  /\ lastId <= submitted
  /\ hpc # "idle" => submitted # 0
  /\ hpc \notin {"idle"} \cup Creating \cup Destroying => lastId < submitted

\* Where the worker of each thread is in its loop says what it has popped and
\* whether it looks busy.
WorkerInv ==
  \A w \in Threads :
    /\ executing[w] => wpc[w] = "run"
    /\ wpc[w] = "pop" => queue[w] # <<>>
    /\ wpc[w] \in {"lock", "run"} <=> task[w] # None

\* Threads are numbered as they are made, and a new one does not run before it
\* is started.
BirthInv ==
  /\ \A w \in Threads : w > lastId => wpc[w] = "unborn"
  /\ hpc \in {"insert", "start"} => wpc[thread] = "created"

\* What startNewOperation knows of the list: it found it empty before it made a
\* thread, and nobody else adds to it.
ListInv ==
  /\ hpc = "scan" /\ ~foundIdleThread => toScan = threadList
  /\ hpc \in {"push", "rearm"} => foundIdleThread
  /\ hpc \in {"scan", "push", "rearm"} => toScan \subseteq threadList
  /\ hpc \in {"push", "rearm"} \cup Creating \cup Destroying => thread # None
  /\ hpc \notin {"scan", "push", "rearm"} \cup Creating \cup Destroying =>
       thread = None
  /\ hpc \in {"create", "insert"} \cup Destroying => threadList = {}
  /\ hpc \in Creating => threadList \subseteq {thread}
  /\ \A v, w \in threadList : v = w

\* The timer thread destroys only threads of the list, and only it removes them.
TimerInv ==
  tpc \in {"data", "erase", "stop", "flags", "join"} => expired \in threadList

\* A thread that has not returned from run() is in the list or still held by
\* the call that created it.
OwnedInv ==
  \A w \in Threads :
    Live(w) => \/ w \in threadList
               \/ w = thread /\ hpc \in Creating \cup Destroying

IInv == /\ TypeOK
        /\ LockInv
        /\ CountInv
        /\ WorkerInv
        /\ BirthInv
        /\ ListInv
        /\ TimerInv
        /\ OwnedInv
-----------------------------------------------------------------------------
LEMMA InitIInv == Init => IInv
<1> SUFFICES ASSUME Init PROVE IInv
  OBVIOUS
<1>1. TypeOK
  <2>1. <<>> \in Seq(Requests)
    OBVIOUS
  <2>2. queue \in [Threads -> Seq(Requests)]
    BY <2>1 DEF Init
  <2>3. 0 \in 0..NumRequests
    BY NumRequestsAssumption
  <2> QED
    BY <2>2, <2>3 DEF Init, TypeOK, HttpPCs, WorkerPCs, TimerPCs
<1>2. LockInv /\ CountInv /\ WorkerInv /\ BirthInv
  BY DEF Init, LockInv, CountInv, WorkerInv, BirthInv, Creating, Destroying
<1>3. ListInv /\ TimerInv /\ OwnedInv
  BY DEF Init, ListInv, TimerInv, OwnedInv, Live, Creating, Destroying
<1> QED
  BY <1>1, <1>2, <1>3 DEF IInv

LEMMA NextIInv == IInv /\ [Next]_vars => IInv'
<1> SUFFICES ASSUME IInv, [Next]_vars PROVE IInv'
  OBVIOUS
<1> USE NumRequestsAssumption DEF IInv, LockInv, CountInv, WorkerInv,
     BirthInv, ListInv, TimerInv, OwnedInv, Live, Creating, Destroying,
     None, poolVars, httpVars, workerVars, timerVars,
     exceptHpc, exceptWpc, exceptTpc
<1>1. CASE Submit
  <2> submitted' \in 0..NumRequests
    BY <1>1 DEF Submit, TypeOK
  <2>1. TypeOK'
    BY <1>1 DEF Submit, TypeOK, HttpPCs
  <2>2. LockInv'
    BY <1>1 DEF Submit, TypeOK
  <2>3. CountInv'
    BY <1>1 DEF Submit, TypeOK
  <2>4. WorkerInv'
    BY <1>1 DEF Submit, TypeOK
  <2>5. BirthInv'
    BY <1>1 DEF Submit, TypeOK
  <2>6. ListInv'
    BY <1>1 DEF Submit, TypeOK
  <2>7. TimerInv'
    BY <1>1 DEF Submit, TypeOK
  <2>8. OwnedInv'
    BY <1>1 DEF Submit, TypeOK
  <2> QED
    BY <2>1, <2>2, <2>3, <2>4, <2>5, <2>6, <2>7, <2>8
<1>2. CASE SpuriousWakeup
  <2>1. TypeOK'
    BY <1>2 DEF SpuriousWakeup, TypeOK, HttpPCs, TimerPCs
  <2>2. LockInv'
    BY <1>2 DEF SpuriousWakeup, TypeOK
  <2>3. CountInv'
    BY <1>2 DEF SpuriousWakeup, TypeOK
  <2>4. WorkerInv'
    BY <1>2 DEF SpuriousWakeup, TypeOK
  <2>5. BirthInv'
    BY <1>2 DEF SpuriousWakeup, TypeOK
  <2>6. ListInv'
    BY <1>2 DEF SpuriousWakeup, TypeOK
  <2>7. TimerInv'
    BY <1>2 DEF SpuriousWakeup, TypeOK
  <2>8. OwnedInv'
    BY <1>2 DEF SpuriousWakeup, TypeOK
  <2> QED
    BY <2>1, <2>2, <2>3, <2>4, <2>5, <2>6, <2>7, <2>8
<1>3. CASE ReadSize
  <2>1. TypeOK'
    BY <1>3 DEF ReadSize, TypeOK, HttpPCs, TimerPCs
  <2>2. LockInv'
    BY <1>3 DEF ReadSize, TypeOK
  <2>3. CountInv'
    BY <1>3 DEF ReadSize, TypeOK
  <2>4. WorkerInv'
    BY <1>3 DEF ReadSize, TypeOK
  <2>5. BirthInv'
    BY <1>3 DEF ReadSize, TypeOK
  <2>6. ListInv'
    BY <1>3 DEF ReadSize, TypeOK
  <2>7. TimerInv'
    BY <1>3 DEF ReadSize, TypeOK
  <2>8. OwnedInv'
    BY <1>3 DEF ReadSize, TypeOK
  <2> QED
    BY <2>1, <2>2, <2>3, <2>4, <2>5, <2>6, <2>7, <2>8
<1>4. CASE CheckPredicate
  <2>1. TypeOK'
    BY <1>4 DEF CheckPredicate, TypeOK, HttpPCs, TimerPCs
  <2>2. LockInv'
    BY <1>4 DEF CheckPredicate, TypeOK
  <2>3. CountInv'
    BY <1>4 DEF CheckPredicate, TypeOK
  <2>4. WorkerInv'
    BY <1>4 DEF CheckPredicate, TypeOK
  <2>5. BirthInv'
    BY <1>4 DEF CheckPredicate, TypeOK
  <2>6. ListInv'
    BY <1>4 DEF CheckPredicate, TypeOK
  <2>7. TimerInv'
    BY <1>4 DEF CheckPredicate, TypeOK
  <2>8. OwnedInv'
    BY <1>4 DEF CheckPredicate, TypeOK
  <2> QED
    BY <2>1, <2>2, <2>3, <2>4, <2>5, <2>6, <2>7, <2>8
<1>5. CASE Block
  <2>1. TypeOK'
    BY <1>5 DEF Block, TypeOK, HttpPCs, TimerPCs
  <2>2. LockInv'
    BY <1>5 DEF Block, TypeOK
  <2>3. CountInv'
    BY <1>5 DEF Block, TypeOK
  <2>4. WorkerInv'
    BY <1>5 DEF Block, TypeOK
  <2>5. BirthInv'
    BY <1>5 DEF Block, TypeOK
  <2>6. ListInv'
    BY <1>5 DEF Block, TypeOK
  <2>7. TimerInv'
    BY <1>5 DEF Block, TypeOK
  <2>8. OwnedInv'
    BY <1>5 DEF Block, TypeOK
  <2> QED
    BY <2>1, <2>2, <2>3, <2>4, <2>5, <2>6, <2>7, <2>8
<1>6. CASE LockForScan
  <2>1. TypeOK'
    BY <1>6 DEF LockForScan, TypeOK, HttpPCs, TimerPCs
  <2>2. LockInv'
    BY <1>6 DEF LockForScan, TypeOK
  <2>3. CountInv'
    BY <1>6 DEF LockForScan, TypeOK
  <2>4. WorkerInv'
    BY <1>6 DEF LockForScan, TypeOK
  <2>5. BirthInv'
    BY <1>6 DEF LockForScan, TypeOK
  <2>6. ListInv'
    BY <1>6 DEF LockForScan, TypeOK
  <2>7. TimerInv'
    BY <1>6 DEF LockForScan, TypeOK
  <2>8. OwnedInv'
    BY <1>6 DEF LockForScan, TypeOK
  <2> QED
    BY <2>1, <2>2, <2>3, <2>4, <2>5, <2>6, <2>7, <2>8
<1>7. CASE ScanThread
  <2>1. TypeOK'
    BY <1>7 DEF ScanThread, Locked, IsExecuting, TypeOK, Threads, Requests, HttpPCs, WorkerPCs, TimerPCs
  <2>2. LockInv'
    BY <1>7 DEF ScanThread, Locked, IsExecuting, TypeOK
  <2>3. CountInv'
    BY <1>7 DEF ScanThread, Locked, IsExecuting, TypeOK
  <2>4. WorkerInv'
    BY <1>7 DEF ScanThread, Locked, IsExecuting, TypeOK
  <2>5. BirthInv'
    BY <1>7 DEF ScanThread, Locked, IsExecuting, TypeOK
  <2>6. ListInv'
    <3> PICK w \in toScan : /\ ~Locked(w)
                            /\ toScan' = toScan \ {w}
                            /\ thread' = w
                            /\ hpc' = IF IsExecuting(w) THEN "scan" ELSE "push"
                            /\ foundIdleThread' = (foundIdleThread \/ ~IsExecuting(w))
      BY <1>7 DEF ScanThread
    <3> w \in threadList /\ w \in Threads /\ w # 0
      BY <1>7 DEF ScanThread, TypeOK, Threads
    <3> ~IsExecuting(w)
      BY DEF Locked, IsExecuting
    <3> QED
      BY <1>7 DEF ScanThread
  <2>7. TimerInv'
    BY <1>7 DEF ScanThread, Locked, IsExecuting, TypeOK
  <2>8. OwnedInv'
    BY <1>7 DEF ScanThread, Locked, IsExecuting, TypeOK
  <2> QED
    BY <2>1, <2>2, <2>3, <2>4, <2>5, <2>6, <2>7, <2>8
<1>8. CASE PushIdle
  <2>1. TypeOK'
    <3> thread \in Threads /\ submitted \in Requests
      BY <1>8 DEF PushIdle, TypeOK, Requests
    <3> Append(queue[thread], submitted) \in Seq(Requests)
      BY DEF TypeOK
    <3> queue' \in [Threads -> Seq(Requests)]
      BY <1>8 DEF PushIdle, Execute, TypeOK
    <3> QED
      BY <1>8 DEF PushIdle, TypeOK, HttpPCs
  <2>2. LockInv'
    BY <1>8 DEF PushIdle, Execute, Locked, TypeOK
  <2>3. CountInv'
    BY <1>8 DEF PushIdle, Execute, Locked, TypeOK
  <2>4. WorkerInv'
    <3> ASSUME NEW w \in Threads, queue[w] # <<>> PROVE queue'[w] # <<>>
      <4> queue[w] \in Seq(Requests)
        BY DEF TypeOK
      <4> Append(queue[w], submitted) # <<>>
        OBVIOUS
      <4> QED
        BY <1>8 DEF PushIdle, Execute, TypeOK
    <3> QED
      BY <1>8 DEF PushIdle
  <2>5. BirthInv'
    BY <1>8 DEF PushIdle, Execute, Locked, TypeOK
  <2>6. ListInv'
    BY <1>8 DEF PushIdle, Execute, Locked, TypeOK
  <2>7. TimerInv'
    BY <1>8 DEF PushIdle, Execute, Locked, TypeOK
  <2>8. OwnedInv'
    BY <1>8 DEF PushIdle, Execute, Locked, TypeOK
  <2> QED
    BY <2>1, <2>2, <2>3, <2>4, <2>5, <2>6, <2>7, <2>8
<1>9. CASE RearmIdle
  <2>1. TypeOK'
    BY <1>9 DEF RearmIdle, TypeOK, HttpPCs
  <2>2. LockInv'
    BY <1>9 DEF RearmIdle, TypeOK
  <2>3. CountInv'
    BY <1>9 DEF RearmIdle, TypeOK
  <2>4. WorkerInv'
    BY <1>9 DEF RearmIdle, TypeOK
  <2>5. BirthInv'
    BY <1>9 DEF RearmIdle, TypeOK
  <2>6. ListInv'
    BY <1>9 DEF RearmIdle, TypeOK
  <2>7. TimerInv'
    BY <1>9 DEF RearmIdle, TypeOK
  <2>8. OwnedInv'
    BY <1>9 DEF RearmIdle, TypeOK
  <2> QED
    BY <2>1, <2>2, <2>3, <2>4, <2>5, <2>6, <2>7, <2>8
<1>10. CASE EndScan
  <2>1. TypeOK'
    BY <1>10 DEF EndScan, TypeOK, HttpPCs
  <2>2. LockInv'
    BY <1>10 DEF EndScan, TypeOK
  <2>3. CountInv'
    BY <1>10 DEF EndScan, TypeOK
  <2>4. WorkerInv'
    BY <1>10 DEF EndScan, TypeOK
  <2>5. BirthInv'
    BY <1>10 DEF EndScan, TypeOK
  <2>6. ListInv'
    BY <1>10 DEF EndScan, TypeOK
  <2>7. TimerInv'
    BY <1>10 DEF EndScan, TypeOK
  <2>8. OwnedInv'
    BY <1>10 DEF EndScan, TypeOK
  <2> QED
    BY <2>1, <2>2, <2>3, <2>4, <2>5, <2>6, <2>7, <2>8
<1>11. CASE CreateThread
  <2>1. TypeOK'
    BY <1>11 DEF CreateThread, TypeOK, HttpPCs, TimerPCs, WorkerPCs, Threads
  <2>2. LockInv'
    BY <1>11 DEF CreateThread, TypeOK, Threads
  <2>3. CountInv'
    BY <1>11 DEF CreateThread, TypeOK, Threads
  <2>4. WorkerInv'
    BY <1>11 DEF CreateThread, TypeOK, Threads
  <2>5. BirthInv'
    BY <1>11 DEF CreateThread, TypeOK, Threads
  <2>6. ListInv'
    BY <1>11 DEF CreateThread, TypeOK, Threads
  <2>7. TimerInv'
    BY <1>11 DEF CreateThread, TypeOK, Threads
  <2>8. OwnedInv'
    BY <1>11 DEF CreateThread, TypeOK, Threads
  <2> QED
    BY <2>1, <2>2, <2>3, <2>4, <2>5, <2>6, <2>7, <2>8
<1>12. CASE InsertThread
  <2>1. TypeOK'
    BY <1>12 DEF InsertThread, TypeOK, HttpPCs, TimerPCs, WorkerPCs, Threads
  <2>2. LockInv'
    BY <1>12 DEF InsertThread, TypeOK
  <2>3. CountInv'
    BY <1>12 DEF InsertThread, TypeOK
  <2>4. WorkerInv'
    BY <1>12 DEF InsertThread, TypeOK
  <2>5. BirthInv'
    BY <1>12 DEF InsertThread, TypeOK
  <2>6. ListInv'
    BY <1>12 DEF InsertThread, TypeOK
  <2>7. TimerInv'
    BY <1>12 DEF InsertThread, TypeOK
  <2>8. OwnedInv'
    BY <1>12 DEF InsertThread, TypeOK
  <2> QED
    BY <2>1, <2>2, <2>3, <2>4, <2>5, <2>6, <2>7, <2>8
<1>13. CASE StartThread
  <2>1. TypeOK'
    BY <1>13 DEF StartThread, TypeOK, Threads, Requests, HttpPCs, WorkerPCs, TimerPCs
  <2>2. LockInv'
    BY <1>13 DEF StartThread, TypeOK
  <2>3. CountInv'
    BY <1>13 DEF StartThread, TypeOK
  <2>4. WorkerInv'
    BY <1>13 DEF StartThread, TypeOK
  <2>5. BirthInv'
    BY <1>13 DEF StartThread, TypeOK
  <2>6. ListInv'
    BY <1>13 DEF StartThread, TypeOK
  <2>7. TimerInv'
    BY <1>13 DEF StartThread, TypeOK
  <2>8. OwnedInv'
    BY <1>13 DEF StartThread, TypeOK
  <2> QED
    BY <2>1, <2>2, <2>3, <2>4, <2>5, <2>6, <2>7, <2>8
<1>14. CASE PushNew
  <2>1. TypeOK'
    BY <1>14 DEF PushNew, Execute, Locked, TypeOK, Threads, Requests, HttpPCs, WorkerPCs, TimerPCs
  <2>2. LockInv'
    BY <1>14 DEF PushNew, Execute, Locked, TypeOK
  <2>3. CountInv'
    BY <1>14 DEF PushNew, Execute, Locked, TypeOK
  <2>4. WorkerInv'
    <3> ASSUME NEW w \in Threads, queue[w] # <<>> PROVE queue'[w] # <<>>
      <4> queue[w] \in Seq(Requests)
        BY DEF TypeOK
      <4> Append(queue[w], submitted) # <<>>
        OBVIOUS
      <4> QED
        BY <1>14 DEF PushNew, Execute, TypeOK
    <3> QED
      BY <1>14 DEF PushNew
  <2>5. BirthInv'
    BY <1>14 DEF PushNew, Execute, Locked, TypeOK
  <2>6. ListInv'
    BY <1>14 DEF PushNew, Execute, Locked, TypeOK
  <2>7. TimerInv'
    BY <1>14 DEF PushNew, Execute, Locked, TypeOK
  <2>8. OwnedInv'
    BY <1>14 DEF PushNew, Execute, Locked, TypeOK
  <2> QED
    BY <2>1, <2>2, <2>3, <2>4, <2>5, <2>6, <2>7, <2>8
<1>15. CASE RearmNew
  <2>1. TypeOK'
    BY <1>15 DEF RearmNew, TypeOK, HttpPCs, TimerPCs
  <2>2. LockInv'
    BY <1>15 DEF RearmNew, TypeOK
  <2>3. CountInv'
    BY <1>15 DEF RearmNew, TypeOK
  <2>4. WorkerInv'
    BY <1>15 DEF RearmNew, TypeOK
  <2>5. BirthInv'
    BY <1>15 DEF RearmNew, TypeOK
  <2>6. ListInv'
    BY <1>15 DEF RearmNew, TypeOK
  <2>7. TimerInv'
    BY <1>15 DEF RearmNew, TypeOK
  <2>8. OwnedInv'
    BY <1>15 DEF RearmNew, TypeOK
  <2> QED
    BY <2>1, <2>2, <2>3, <2>4, <2>5, <2>6, <2>7, <2>8
<1>16. CASE ReleaseNew
  <2>1. TypeOK'
    BY <1>16 DEF ReleaseNew, TypeOK, HttpPCs
  <2>2. LockInv'
    BY <1>16 DEF ReleaseNew, TypeOK
  <2>3. CountInv'
    BY <1>16 DEF ReleaseNew, TypeOK
  <2>4. WorkerInv'
    BY <1>16 DEF ReleaseNew, TypeOK
  <2>5. BirthInv'
    BY <1>16 DEF ReleaseNew, TypeOK
  <2>6. ListInv'
    BY <1>16 DEF ReleaseNew, TypeOK
  <2>7. TimerInv'
    BY <1>16 DEF ReleaseNew, TypeOK
  <2>8. OwnedInv'
    BY <1>16 DEF ReleaseNew, TypeOK
  <2> QED
    BY <2>1, <2>2, <2>3, <2>4, <2>5, <2>6, <2>7, <2>8
<1>17. CASE HttpStop
  <2>1. TypeOK'
    BY <1>17 DEF HttpStop, StopQueue, TypeOK, HttpPCs, TimerPCs, WorkerPCs, Threads
  <2>2. LockInv'
    BY <1>17 DEF HttpStop, StopQueue, TypeOK
  <2>3. CountInv'
    BY <1>17 DEF HttpStop, StopQueue, TypeOK
  <2>4. WorkerInv'
    BY <1>17 DEF HttpStop, StopQueue, TypeOK
  <2>5. BirthInv'
    BY <1>17 DEF HttpStop, StopQueue, TypeOK
  <2>6. ListInv'
    BY <1>17 DEF HttpStop, StopQueue, TypeOK
  <2>7. TimerInv'
    BY <1>17 DEF HttpStop, StopQueue, TypeOK
  <2>8. OwnedInv'
    BY <1>17 DEF HttpStop, StopQueue, TypeOK
  <2> QED
    BY <2>1, <2>2, <2>3, <2>4, <2>5, <2>6, <2>7, <2>8
<1>18. CASE HttpClearFlags
  <2>1. TypeOK'
    BY <1>18 DEF HttpClearFlags, ClearFlags, TypeOK, HttpPCs, TimerPCs, WorkerPCs, Threads
  <2>2. LockInv'
    BY <1>18 DEF HttpClearFlags, ClearFlags, TypeOK
  <2>3. CountInv'
    BY <1>18 DEF HttpClearFlags, ClearFlags, TypeOK
  <2>4. WorkerInv'
    BY <1>18 DEF HttpClearFlags, ClearFlags, TypeOK
  <2>5. BirthInv'
    BY <1>18 DEF HttpClearFlags, ClearFlags, TypeOK
  <2>6. ListInv'
    BY <1>18 DEF HttpClearFlags, ClearFlags, TypeOK
  <2>7. TimerInv'
    BY <1>18 DEF HttpClearFlags, ClearFlags, TypeOK
  <2>8. OwnedInv'
    BY <1>18 DEF HttpClearFlags, ClearFlags, TypeOK
  <2> QED
    BY <2>1, <2>2, <2>3, <2>4, <2>5, <2>6, <2>7, <2>8
<1>19. CASE HttpJoin
  <2>1. TypeOK'
    BY <1>19 DEF HttpJoin, Joinable, TypeOK, HttpPCs, TimerPCs, WorkerPCs, Threads
  <2>2. LockInv'
    BY <1>19 DEF HttpJoin, Joinable, TypeOK
  <2>3. CountInv'
    BY <1>19 DEF HttpJoin, Joinable, TypeOK
  <2>4. WorkerInv'
    BY <1>19 DEF HttpJoin, Joinable, TypeOK
  <2>5. BirthInv'
    BY <1>19 DEF HttpJoin, Joinable, TypeOK
  <2>6. ListInv'
    BY <1>19 DEF HttpJoin, Joinable, TypeOK
  <2>7. TimerInv'
    BY <1>19 DEF HttpJoin, Joinable, TypeOK
  <2>8. OwnedInv'
    BY <1>19 DEF HttpJoin, Joinable, TypeOK
  <2> QED
    BY <2>1, <2>2, <2>3, <2>4, <2>5, <2>6, <2>7, <2>8
<1>20. ASSUME NEW w \in Threads, WorkerLoop(w) PROVE IInv'
  <2>1. TypeOK'
    BY <1>20 DEF WorkerLoop, TypeOK, Requests, WorkerPCs
  <2>2. LockInv'
    BY <1>20 DEF WorkerLoop, TypeOK
  <2>3. CountInv'
    BY <1>20 DEF WorkerLoop, TypeOK
  <2>4. WorkerInv'
    BY <1>20 DEF WorkerLoop, TypeOK
  <2>5. BirthInv'
    BY <1>20 DEF WorkerLoop, TypeOK
  <2>6. ListInv'
    BY <1>20 DEF WorkerLoop, TypeOK
  <2>7. TimerInv'
    BY <1>20 DEF WorkerLoop, TypeOK
  <2>8. OwnedInv'
    BY <1>20 DEF WorkerLoop, TypeOK
  <2> QED
    BY <2>1, <2>2, <2>3, <2>4, <2>5, <2>6, <2>7, <2>8
<1>21. ASSUME NEW w \in Threads, WorkerWake(w) PROVE IInv'
  <2>1. TypeOK'
    <3>1. wpc' \in [Threads -> WorkerPCs]
      BY <1>21 DEF WorkerWake, TypeOK, WorkerPCs
    <3> QED
      BY <1>21, <3>1 DEF WorkerWake, TypeOK
  <2>2. LockInv'
    BY <1>21 DEF WorkerWake, TypeOK
  <2>3. CountInv'
    BY <1>21 DEF WorkerWake, TypeOK
  <2>4. WorkerInv'
    BY <1>21 DEF WorkerWake, TypeOK
  <2>5. BirthInv'
    BY <1>21 DEF WorkerWake, TypeOK
  <2>6. ListInv'
    BY <1>21 DEF WorkerWake, TypeOK
  <2>7. TimerInv'
    BY <1>21 DEF WorkerWake, TypeOK
  <2>8. OwnedInv'
    BY <1>21 DEF WorkerWake, TypeOK
  <2> QED
    BY <2>1, <2>2, <2>3, <2>4, <2>5, <2>6, <2>7, <2>8
<1>22. ASSUME NEW w \in Threads, WorkerStopped(w) PROVE IInv'
  <2>1. TypeOK'
    BY <1>22 DEF WorkerStopped, TypeOK, Requests, WorkerPCs
  <2>2. LockInv'
    BY <1>22 DEF WorkerStopped, TypeOK
  <2>3. CountInv'
    BY <1>22 DEF WorkerStopped, TypeOK
  <2>4. WorkerInv'
    BY <1>22 DEF WorkerStopped, TypeOK
  <2>5. BirthInv'
    BY <1>22 DEF WorkerStopped, TypeOK
  <2>6. ListInv'
    BY <1>22 DEF WorkerStopped, TypeOK
  <2>7. TimerInv'
    BY <1>22 DEF WorkerStopped, TypeOK
  <2>8. OwnedInv'
    BY <1>22 DEF WorkerStopped, TypeOK
  <2> QED
    BY <2>1, <2>2, <2>3, <2>4, <2>5, <2>6, <2>7, <2>8
<1>23. ASSUME NEW w \in Threads, WorkerPop(w) PROVE IInv'
  <2>1. TypeOK'
    <3>1. queue[w] \in Seq(Requests) /\ queue[w] # <<>>
      BY <1>23 DEF WorkerPop, TypeOK
    <3>2. Head(queue[w]) \in Requests /\ Tail(queue[w]) \in Seq(Requests)
      BY ONLY <3>1
    <3>3. queue' \in [Threads -> Seq(Requests)]
      BY <1>23, <3>2 DEF WorkerPop, TypeOK
    <3>4. task' \in [Threads -> Requests \cup {None}]
      BY <1>23, <3>2 DEF WorkerPop, TypeOK
    <3>5. wpc' \in [Threads -> WorkerPCs]
      BY <1>23 DEF WorkerPop, TypeOK, WorkerPCs
    <3> QED
      BY <1>23, <3>3, <3>4, <3>5 DEF WorkerPop, TypeOK
  <2>2. LockInv'
    BY <1>23 DEF WorkerPop, TypeOK
  <2>3. CountInv'
    BY <1>23 DEF WorkerPop, TypeOK
  <2>4. WorkerInv'
    <3> Head(queue[w]) \in Requests
      BY <1>23 DEF WorkerPop, TypeOK
    <3> Head(queue[w]) # 0
      BY DEF Requests
    <3> QED
      BY <1>23 DEF WorkerPop, TypeOK
  <2>5. BirthInv'
    BY <1>23 DEF WorkerPop, TypeOK
  <2>6. ListInv'
    BY <1>23 DEF WorkerPop, TypeOK
  <2>7. TimerInv'
    BY <1>23 DEF WorkerPop, TypeOK
  <2>8. OwnedInv'
    BY <1>23 DEF WorkerPop, TypeOK
  <2> QED
    BY <2>1, <2>2, <2>3, <2>4, <2>5, <2>6, <2>7, <2>8
<1>24. ASSUME NEW w \in Threads, WorkerBegin(w) PROVE IInv'
  <2>1. TypeOK'
    BY <1>24 DEF WorkerBegin, TypeOK, Requests, WorkerPCs
  <2>2. LockInv'
    BY <1>24 DEF WorkerBegin, TypeOK
  <2>3. CountInv'
    BY <1>24 DEF WorkerBegin, TypeOK
  <2>4. WorkerInv'
    BY <1>24 DEF WorkerBegin, TypeOK
  <2>5. BirthInv'
    BY <1>24 DEF WorkerBegin, TypeOK
  <2>6. ListInv'
    BY <1>24 DEF WorkerBegin, TypeOK
  <2>7. TimerInv'
    BY <1>24 DEF WorkerBegin, TypeOK
  <2>8. OwnedInv'
    BY <1>24 DEF WorkerBegin, TypeOK
  <2> QED
    BY <2>1, <2>2, <2>3, <2>4, <2>5, <2>6, <2>7, <2>8
<1>25. ASSUME NEW w \in Threads, WorkerFinish(w) PROVE IInv'
  <2>1. TypeOK'
    <3> task[w] \in Requests
      BY <1>25 DEF WorkerFinish, TypeOK
    <3> QED
      BY <1>25 DEF WorkerFinish, TypeOK, WorkerPCs
  <2>2. LockInv'
    BY <1>25 DEF WorkerFinish, TypeOK
  <2>3. CountInv'
    BY <1>25 DEF WorkerFinish, TypeOK
  <2>4. WorkerInv'
    BY <1>25 DEF WorkerFinish, TypeOK
  <2>5. BirthInv'
    BY <1>25 DEF WorkerFinish, TypeOK
  <2>6. ListInv'
    BY <1>25 DEF WorkerFinish, TypeOK
  <2>7. TimerInv'
    BY <1>25 DEF WorkerFinish, TypeOK
  <2>8. OwnedInv'
    BY <1>25 DEF WorkerFinish, TypeOK
  <2> QED
    BY <2>1, <2>2, <2>3, <2>4, <2>5, <2>6, <2>7, <2>8
<1>26. CASE Expire
  <2>1. TypeOK'
    BY <1>26 DEF Expire, TypeOK, HttpPCs, TimerPCs
  <2>2. LockInv'
    BY <1>26 DEF Expire, TypeOK
  <2>3. CountInv'
    BY <1>26 DEF Expire, TypeOK
  <2>4. WorkerInv'
    BY <1>26 DEF Expire, TypeOK
  <2>5. BirthInv'
    BY <1>26 DEF Expire, TypeOK
  <2>6. ListInv'
    BY <1>26 DEF Expire, TypeOK
  <2>7. TimerInv'
    BY <1>26 DEF Expire, TypeOK
  <2>8. OwnedInv'
    BY <1>26 DEF Expire, TypeOK
  <2> QED
    BY <2>1, <2>2, <2>3, <2>4, <2>5, <2>6, <2>7, <2>8
<1>27. CASE TimerLock
  <2>1. TypeOK'
    BY <1>27 DEF TimerLock, TypeOK, HttpPCs, TimerPCs
  <2>2. LockInv'
    BY <1>27 DEF TimerLock, TypeOK
  <2>3. CountInv'
    BY <1>27 DEF TimerLock, TypeOK
  <2>4. WorkerInv'
    BY <1>27 DEF TimerLock, TypeOK
  <2>5. BirthInv'
    BY <1>27 DEF TimerLock, TypeOK
  <2>6. ListInv'
    BY <1>27 DEF TimerLock, TypeOK
  <2>7. TimerInv'
    BY <1>27 DEF TimerLock, TypeOK
  <2>8. OwnedInv'
    BY <1>27 DEF TimerLock, TypeOK
  <2> QED
    BY <2>1, <2>2, <2>3, <2>4, <2>5, <2>6, <2>7, <2>8
<1>28. CASE FindThread
  <2>1. TypeOK'
    BY <1>28 DEF FindThread, TypeOK, HttpPCs, TimerPCs
  <2>2. LockInv'
    BY <1>28 DEF FindThread, TypeOK
  <2>3. CountInv'
    BY <1>28 DEF FindThread, TypeOK
  <2>4. WorkerInv'
    BY <1>28 DEF FindThread, TypeOK
  <2>5. BirthInv'
    BY <1>28 DEF FindThread, TypeOK
  <2>6. ListInv'
    BY <1>28 DEF FindThread, TypeOK
  <2>7. TimerInv'
    BY <1>28 DEF FindThread, TypeOK
  <2>8. OwnedInv'
    BY <1>28 DEF FindThread, TypeOK
  <2> QED
    BY <2>1, <2>2, <2>3, <2>4, <2>5, <2>6, <2>7, <2>8
<1>29. CASE LockForErase
  <2>1. TypeOK'
    BY <1>29 DEF LockForErase, TypeOK, HttpPCs, TimerPCs
  <2>2. LockInv'
    BY <1>29 DEF LockForErase, TypeOK
  <2>3. CountInv'
    BY <1>29 DEF LockForErase, TypeOK
  <2>4. WorkerInv'
    BY <1>29 DEF LockForErase, TypeOK
  <2>5. BirthInv'
    BY <1>29 DEF LockForErase, TypeOK
  <2>6. ListInv'
    BY <1>29 DEF LockForErase, TypeOK
  <2>7. TimerInv'
    BY <1>29 DEF LockForErase, TypeOK
  <2>8. OwnedInv'
    BY <1>29 DEF LockForErase, TypeOK
  <2> QED
    BY <2>1, <2>2, <2>3, <2>4, <2>5, <2>6, <2>7, <2>8
<1>30. CASE EraseEntry
  <2>1. TypeOK'
    <3>1. CASE thread = expired
      BY <1>30, <3>1 DEF EraseEntry, TypeOK, TimerPCs
    <3>2. CASE thread # expired
      BY <1>30, <3>2 DEF EraseEntry, TypeOK, TimerPCs
    <3> QED
      BY <3>1, <3>2
  <2>2. LockInv'
    BY <1>30 DEF EraseEntry, TypeOK
  <2>3. CountInv'
    BY <1>30 DEF EraseEntry, TypeOK
  <2>4. WorkerInv'
    BY <1>30 DEF EraseEntry, TypeOK
  <2>5. BirthInv'
    BY <1>30 DEF EraseEntry, TypeOK
  <2>6. ListInv'
    BY <1>30 DEF EraseEntry, TypeOK
  <2>7. TimerInv'
    BY <1>30 DEF EraseEntry, TypeOK
  <2>8. OwnedInv'
    <3>1. CASE thread = expired
      <4> hpc \notin {"scan", "push", "rearm"} /\ thread # None
        BY <1>30, <3>1 DEF EraseEntry, TypeOK, Threads
      <4> hpc \in Creating \cup Destroying
        OBVIOUS
      <4> QED
        BY <1>30, <3>1 DEF EraseEntry
    <3>2. CASE thread # expired
      BY <1>30, <3>2 DEF EraseEntry
    <3> QED
      BY <3>1, <3>2
  <2> QED
    BY <2>1, <2>2, <2>3, <2>4, <2>5, <2>6, <2>7, <2>8
<1>31. CASE TimerStop
  <2>1. TypeOK'
    BY <1>31 DEF TimerStop, StopQueue, TypeOK, HttpPCs, TimerPCs
  <2>2. LockInv'
    BY <1>31 DEF TimerStop, StopQueue, TypeOK
  <2>3. CountInv'
    BY <1>31 DEF TimerStop, StopQueue, TypeOK
  <2>4. WorkerInv'
    BY <1>31 DEF TimerStop, StopQueue, TypeOK
  <2>5. BirthInv'
    BY <1>31 DEF TimerStop, StopQueue, TypeOK
  <2>6. ListInv'
    BY <1>31 DEF TimerStop, StopQueue, TypeOK
  <2>7. TimerInv'
    BY <1>31 DEF TimerStop, StopQueue, TypeOK
  <2>8. OwnedInv'
    BY <1>31 DEF TimerStop, StopQueue, TypeOK
  <2> QED
    BY <2>1, <2>2, <2>3, <2>4, <2>5, <2>6, <2>7, <2>8
<1>32. CASE TimerClearFlags
  <2>1. TypeOK'
    BY <1>32 DEF TimerClearFlags, ClearFlags, TypeOK, HttpPCs, TimerPCs
  <2>2. LockInv'
    BY <1>32 DEF TimerClearFlags, ClearFlags, TypeOK
  <2>3. CountInv'
    BY <1>32 DEF TimerClearFlags, ClearFlags, TypeOK
  <2>4. WorkerInv'
    BY <1>32 DEF TimerClearFlags, ClearFlags, TypeOK
  <2>5. BirthInv'
    BY <1>32 DEF TimerClearFlags, ClearFlags, TypeOK
  <2>6. ListInv'
    BY <1>32 DEF TimerClearFlags, ClearFlags, TypeOK
  <2>7. TimerInv'
    BY <1>32 DEF TimerClearFlags, ClearFlags, TypeOK
  <2>8. OwnedInv'
    BY <1>32 DEF TimerClearFlags, ClearFlags, TypeOK
  <2> QED
    BY <2>1, <2>2, <2>3, <2>4, <2>5, <2>6, <2>7, <2>8
<1>33. CASE TimerJoin
  <2>1. TypeOK'
    BY <1>33 DEF TimerJoin, Joinable, TypeOK, HttpPCs, TimerPCs
  <2>2. LockInv'
    BY <1>33 DEF TimerJoin, Joinable, TypeOK
  <2>3. CountInv'
    BY <1>33 DEF TimerJoin, Joinable, TypeOK
  <2>4. WorkerInv'
    BY <1>33 DEF TimerJoin, Joinable, TypeOK
  <2>5. BirthInv'
    BY <1>33 DEF TimerJoin, Joinable, TypeOK
  <2>6. ListInv'
    BY <1>33 DEF TimerJoin, Joinable, TypeOK
  <2>7. TimerInv'
    BY <1>33 DEF TimerJoin, Joinable, TypeOK
  <2>8. OwnedInv'
    BY <1>33 DEF TimerJoin, Joinable, TypeOK
  <2> QED
    BY <2>1, <2>2, <2>3, <2>4, <2>5, <2>6, <2>7, <2>8
<1>34. CASE UnlockData
  <2>1. TypeOK'
    BY <1>34 DEF UnlockData, TypeOK, HttpPCs, TimerPCs
  <2>2. LockInv'
    BY <1>34 DEF UnlockData, TypeOK
  <2>3. CountInv'
    BY <1>34 DEF UnlockData, TypeOK
  <2>4. WorkerInv'
    BY <1>34 DEF UnlockData, TypeOK
  <2>5. BirthInv'
    BY <1>34 DEF UnlockData, TypeOK
  <2>6. ListInv'
    BY <1>34 DEF UnlockData, TypeOK
  <2>7. TimerInv'
    BY <1>34 DEF UnlockData, TypeOK
  <2>8. OwnedInv'
    BY <1>34 DEF UnlockData, TypeOK
  <2> QED
    BY <2>1, <2>2, <2>3, <2>4, <2>5, <2>6, <2>7, <2>8
<1>35. CASE Notify
  <2>1. TypeOK'
    BY <1>35 DEF Notify, TypeOK, HttpPCs, TimerPCs
  <2>2. LockInv'
    BY <1>35 DEF Notify, TypeOK
  <2>3. CountInv'
    BY <1>35 DEF Notify, TypeOK
  <2>4. WorkerInv'
    BY <1>35 DEF Notify, TypeOK
  <2>5. BirthInv'
    BY <1>35 DEF Notify, TypeOK
  <2>6. ListInv'
    BY <1>35 DEF Notify, TypeOK
  <2>7. TimerInv'
    BY <1>35 DEF Notify, TypeOK
  <2>8. OwnedInv'
    BY <1>35 DEF Notify, TypeOK
  <2> QED
    BY <2>1, <2>2, <2>3, <2>4, <2>5, <2>6, <2>7, <2>8
<1>36. CASE TimerRelease
  <2>1. TypeOK'
    BY <1>36 DEF TimerRelease, TypeOK, HttpPCs, TimerPCs
  <2>2. LockInv'
    BY <1>36 DEF TimerRelease, TypeOK
  <2>3. CountInv'
    BY <1>36 DEF TimerRelease, TypeOK
  <2>4. WorkerInv'
    BY <1>36 DEF TimerRelease, TypeOK
  <2>5. BirthInv'
    BY <1>36 DEF TimerRelease, TypeOK
  <2>6. ListInv'
    BY <1>36 DEF TimerRelease, TypeOK
  <2>7. TimerInv'
    BY <1>36 DEF TimerRelease, TypeOK
  <2>8. OwnedInv'
    BY <1>36 DEF TimerRelease, TypeOK
  <2> QED
    BY <2>1, <2>2, <2>3, <2>4, <2>5, <2>6, <2>7, <2>8
<1>37. CASE UNCHANGED vars
  BY <1>37 DEF vars, TypeOK
<1>q. QED
  BY <1>1, <1>2, <1>3, <1>4, <1>5, <1>6, <1>7, <1>8, <1>9, <1>10, <1>11, <1>12, <1>13, <1>14, <1>15, <1>16, <1>17, <1>18, <1>19, <1>20, <1>21, <1>22, <1>23, <1>24, <1>25, <1>26, <1>27, <1>28, <1>29, <1>30, <1>31, <1>32, <1>33, <1>34, <1>35, <1>36, <1>37 DEF Next, StartNewOperation, Worker, TimeoutOnThread

LEMMA SpecIInv == Spec => []IInv
  BY InitIInv, NextIInv, PTL DEF Spec

\* Every variable keeps its type; in particular the pool never needs more
\* thread numbers than there are requests.
THEOREM TypeCorrect == Spec => []TypeOK
<1> IInv => TypeOK
  BY DEF IInv
<1> QED
  BY SpecIInv, PTL

\* At most one thread of the pool has not returned from run(), for every
\* configured Thread.MaxThreadSize.
THEOREM AtMostOneLiveThread == Spec => []OneLiveThread
<1> IInv => OneLiveThread
  <2> SUFFICES ASSUME IInv PROVE OneLiveThread
    OBVIOUS
  <2>1. \A v, w \in threadList : v = w
    BY DEF IInv, ListInv
  <2>2. ASSUME NEW v \in Threads, NEW w \in Threads, Live(v), Live(w)
        PROVE  v = w
    BY <2>2 DEF IInv, OwnedInv, ListInv, Creating, Destroying
  <2> QED
    BY <2>1, <2>2 DEF OneLiveThread
<1> QED
  BY SpecIInv, PTL
-----------------------------------------------------------------------------
(* Where each request is.                                                  *)

In(r, w) == task[w] = r \/ Queued(r, w)

\* startNewOperation gives the request to one thread only: when it has found
\* one there is no other left to visit.
ScanInv ==
  /\ hpc \in {"size", "wait", "blocking", "blocked", "lock"} => ~foundIdleThread
  /\ hpc \in {"scan", "push", "rearm"} /\ foundIdleThread => toScan = {}

\* A request is in one place at a time.
PlaceInv ==
  \A r \in Requests :
    /\ r \in finished \/ r > submitted \/ Held(r) => \A w \in Threads : ~In(r, w)
    /\ r > submitted \/ Held(r) => r \notin finished
    /\ \A v, w \in Threads : In(r, v) /\ In(r, w) => v = w

\* A thread gets its requests in order, and none before it is made.
OrderInv ==
  \A w \in Threads :
    /\ wpc[w] = "unborn" => queue[w] = <<>>
    /\ \A i, j \in 1..Len(queue[w]) : i < j => queue[w][i] < queue[w][j]
    /\ task[w] # None => \A i \in 1..Len(queue[w]) : task[w] < queue[w][i]

\* Threads the pool refers to have been made.
BornInv ==
  /\ \A w \in threadList : wpc[w] # "unborn"
  /\ thread # None => wpc[thread] # "unborn"

RInv == /\ IInv
        /\ NoRequestVanishes
        /\ ScanInv
        /\ BornInv
        /\ PlaceInv
        /\ OrderInv

\* What is in a queue after a push ...
LEMMA QueuedAfterAppend ==
  ASSUME NEW S, NEW q \in Seq(S), NEW x \in S, NEW r
  PROVE  (\E i \in 1..Len(Append(q, x)) : Append(q, x)[i] = r)
           <=> (r = x \/ \E i \in 1..Len(q) : q[i] = r)
<1> DEFINE a == Append(q, x)
<1>1. /\ Len(a) = Len(q) + 1
      /\ \A i \in 1..Len(q) : a[i] = q[i]
      /\ a[Len(q) + 1] = x
      /\ Len(q) \in Nat
  OBVIOUS
<1> HIDE DEF a
<1> QED
  BY <1>1 DEF a

\* ... and what was in it before a pop.
LEMMA QueuedBeforeTail ==
  ASSUME NEW S, NEW q \in Seq(S), q # <<>>, NEW r
  PROVE  (\E i \in 1..Len(q) : q[i] = r)
           <=> (r = Head(q) \/ \E i \in 1..Len(Tail(q)) : Tail(q)[i] = r)
<1> DEFINE t == Tail(q)
<1>1. /\ Len(q) = Len(t) + 1
      /\ \A i \in 1..Len(t) : t[i] = q[i + 1]
      /\ Head(q) = q[1]
      /\ Len(t) \in Nat
  OBVIOUS
<1> HIDE DEF t
<1>2. ASSUME NEW i \in 1..Len(q), q[i] = r
      PROVE  r = Head(q) \/ \E j \in 1..Len(t) : t[j] = r
  <2>1. CASE i = 1
    BY <1>1, <1>2, <2>1
  <2>2. CASE i # 1
    <3> i - 1 \in 1..Len(t)
      BY <1>1, <2>2
    <3> t[i - 1] = r
      BY <1>1, <1>2
    <3> QED
      OBVIOUS
  <2> QED
    BY <2>1, <2>2
<1>3. ASSUME NEW j \in 1..Len(t), t[j] = r
      PROVE  \E i \in 1..Len(q) : q[i] = r
  <2> j + 1 \in 1..Len(q)
    BY <1>1
  <2> QED
    BY <1>1, <1>3
<1>4. r = Head(q) => \E i \in 1..Len(q) : q[i] = r
  BY <1>1
<1> QED
  BY <1>2, <1>3, <1>4 DEF t

\* A step that moves no request.
MovesNothing ==
  /\ UNCHANGED <<queue, task, finished, submitted>>
  /\ Held(submitted)' <=> Held(submitted)
  /\ \A w \in Threads : wpc'[w] = "unborn" => wpc[w] = "unborn"

LEMMA MovesNothingStep ==
  RInv /\ MovesNothing => NoRequestVanishes' /\ PlaceInv' /\ OrderInv'
<1> SUFFICES ASSUME RInv, MovesNothing
             PROVE  NoRequestVanishes' /\ PlaceInv' /\ OrderInv'
  OBVIOUS
<1>1. \A r : Held(r)' <=> Held(r)
  BY DEF MovesNothing, Held
<1>2. \A r, w : (In(r, w)' <=> In(r, w)) /\ (Queued(r, w)' <=> Queued(r, w))
  BY DEF MovesNothing, In, Queued
<1>3. NoRequestVanishes'
  BY <1>1, <1>2 DEF RInv, MovesNothing, NoRequestVanishes
<1>4. PlaceInv'
  BY <1>1, <1>2 DEF RInv, MovesNothing, PlaceInv
<1>5. OrderInv'
  BY DEF RInv, MovesNothing, OrderInv
<1> QED
  BY <1>3, <1>4, <1>5

\* A step that puts the request in progress into the queue of `thread'.
Pushes ==
  /\ thread \in Threads
  /\ submitted \in Requests
  /\ queue' = [queue EXCEPT ![thread] = Append(@, submitted)]
  /\ UNCHANGED <<task, finished, submitted, wpc>>
  /\ Held(submitted) /\ ~Held(submitted)'
  /\ wpc[thread] # "unborn"

LEMMA PushesStep ==
  RInv /\ Pushes => NoRequestVanishes' /\ PlaceInv' /\ OrderInv'
<1> SUFFICES ASSUME RInv, Pushes
             PROVE  NoRequestVanishes' /\ PlaceInv' /\ OrderInv'
  OBVIOUS
<1> TypeOK
  BY DEF RInv, IInv
<1>1. \A w \in Threads : queue[w] \in Seq(Requests)
  BY DEF TypeOK
<1>2. \A r, w : Held(r)' => r = submitted
  BY DEF Held, Pushes
<1>3. \A r : ~Held(r)'
  BY <1>2 DEF Pushes
<1>4. ASSUME NEW r, NEW w \in Threads
      PROVE  Queued(r, w)' <=> Queued(r, w) \/ (w = thread /\ r = submitted)
  <2>1. CASE w = thread
    <3> queue'[w] = Append(queue[w], submitted)
      BY <2>1, <1>1 DEF Pushes, TypeOK
    <3> QED
      BY <2>1, <1>1, QueuedAfterAppend DEF Queued, Pushes
  <2>2. CASE w # thread
    <3> queue'[w] = queue[w]
      BY <2>2 DEF Pushes, TypeOK
    <3> QED
      BY <2>2 DEF Queued
  <2> QED
    BY <2>1, <2>2
<1>5. NoRequestVanishes'
  <2> SUFFICES ASSUME NEW r \in 1..submitted
               PROVE  \/ r \in finished'
                      \/ \E w \in Threads : Queued(r, w)' \/ task'[w] = r
    BY DEF NoRequestVanishes, Pushes
  <2>1. CASE r = submitted
    BY <2>1, <1>4 DEF Pushes
  <2>2. CASE r # submitted
    BY <2>2, <1>4 DEF Pushes, RInv, NoRequestVanishes, Held
  <2> QED
    BY <2>1, <2>2
<1>6. PlaceInv'
  <2>1. \A w \in Threads : ~In(submitted, w)
    BY DEF RInv, PlaceInv, Pushes
  <2>2. submitted \notin finished /\ submitted \in Nat
    BY DEF RInv, PlaceInv, Pushes, Requests
  <2>3. \A r \in Requests, w \in Threads :
          In(r, w)' <=> In(r, w) \/ (w = thread /\ r = submitted)
    BY <1>4 DEF In, Pushes
  <2> SUFFICES ASSUME NEW r \in Requests
               PROVE  /\ r \in finished \/ r > submitted
                           => \A w \in Threads : ~In(r, w)'
                      /\ r > submitted => r \notin finished
                      /\ \A v, w \in Threads : In(r, v)' /\ In(r, w)' => v = w
    BY <1>3 DEF PlaceInv, Pushes
  <2>4. CASE r = submitted
    BY <2>1, <2>2, <2>3, <2>4
  <2>5. CASE r # submitted
    BY <2>3, <2>5 DEF RInv, PlaceInv
  <2> QED
    BY <2>4, <2>5
<1>7. OrderInv'
  <2> SUFFICES ASSUME NEW w \in Threads
               PROVE  /\ wpc[w] = "unborn" => queue'[w] = <<>>
                      /\ \A i, j \in 1..Len(queue'[w]) :
                            i < j => queue'[w][i] < queue'[w][j]
                      /\ task[w] # None =>
                            \A i \in 1..Len(queue'[w]) : task[w] < queue'[w][i]
    BY DEF OrderInv, Pushes
  <2>1. CASE w # thread
    BY <2>1 DEF Pushes, RInv, OrderInv, TypeOK
  <2>2. CASE w = thread
    <3>1. /\ \A i \in 1..Len(queue[w]) : queue[w][i] < submitted
          /\ task[w] # None => task[w] < submitted
      <4>1. \A r \in Requests : In(r, w) => r < submitted
        BY DEF RInv, PlaceInv, Pushes, Requests
      <4>2. \A i \in 1..Len(queue[w]) : queue[w][i] \in Requests /\ In(queue[w][i], w)
        BY <1>1 DEF In, Queued
      <4>3. task[w] # None => task[w] \in Requests /\ In(task[w], w)
        BY DEF In, TypeOK
      <4> QED
        BY <4>1, <4>2, <4>3
    <3> DEFINE q == queue[w]
               a == Append(queue[w], submitted)
    <3>2. /\ Len(a) = Len(q) + 1
          /\ \A i \in 1..Len(q) : a[i] = q[i]
          /\ a[Len(q) + 1] = submitted
          /\ Len(q) \in Nat
      BY <1>1 DEF Pushes
    <3>3. queue'[w] = a
      BY <2>2 DEF Pushes, TypeOK
    <3>4. /\ \A i, j \in 1..Len(q) : i < j => q[i] < q[j]
          /\ task[w] # None => \A i \in 1..Len(q) : task[w] < q[i]
      BY DEF RInv, OrderInv
    <3>5. wpc[w] # "unborn"
      BY <2>2 DEF Pushes
    <3>6. /\ \A i \in 1..(Len(q) + 1) : i \in 1..Len(q) \/ i = Len(q) + 1
          /\ \A i, j \in 1..(Len(q) + 1) : i < j => i \in 1..Len(q)
      BY <3>2
    <3> HIDE DEF a, q
    <3>7. \A i, j \in 1..Len(a) : i < j => a[i] < a[j]
      <4> SUFFICES ASSUME NEW i \in 1..(Len(q) + 1), NEW j \in 1..(Len(q) + 1), i < j
                   PROVE  a[i] < a[j]
        BY <3>2
      <4>1. i \in 1..Len(q) /\ a[i] = q[i]
        BY <3>2, <3>6
      <4>2. CASE j \in 1..Len(q)
        BY <3>2, <3>4, <4>1, <4>2 DEF q
      <4>3. CASE j = Len(q) + 1
        BY <3>1, <3>2, <4>1, <4>3 DEF q
      <4> QED
        BY <3>6, <4>2, <4>3
    <3>8. task[w] # None => \A i \in 1..Len(a) : task[w] < a[i]
      BY <3>1, <3>2, <3>4, <3>6 DEF q
    <3> QED
      BY <3>3, <3>5, <3>7, <3>8
  <2> QED
    BY <2>1, <2>2
<1> QED
  BY <1>5, <1>6, <1>7

LEMMA WorkerPopStep ==
  ASSUME RInv, NEW w \in Threads, WorkerPop(w)
  PROVE  NoRequestVanishes' /\ PlaceInv' /\ OrderInv'
<1> TypeOK /\ WorkerInv
  BY DEF RInv, IInv
<1>1. \A v \in Threads : queue[v] \in Seq(Requests)
  BY DEF TypeOK
<1>2. queue[w] # <<>> /\ task[w] = None
  BY DEF WorkerPop, WorkerInv
<1>3. \A r : Held(r)' <=> Held(r)
  BY DEF WorkerPop, Held, httpVars
<1>4. /\ task' = [task EXCEPT ![w] = Head(queue[w])]
      /\ queue' = [queue EXCEPT ![w] = Tail(queue[w])]
      /\ UNCHANGED <<finished, submitted>>
  BY DEF WorkerPop, httpVars
<1>5. ASSUME NEW r \in Requests, NEW v \in Threads
      PROVE  In(r, v)' <=> In(r, v)
  <2>1. CASE v = w
    <3> task'[w] = Head(queue[w]) /\ queue'[w] = Tail(queue[w])
      BY <1>4 DEF TypeOK
    <3> r # None
      BY DEF Requests, None
    <3> Queued(r, w) <=> r = Head(queue[w]) \/ Queued(r, w)'
      <4> (\E i \in 1..Len(queue[w]) : queue[w][i] = r)
             <=> (\/ r = Head(queue[w])
                  \/ \E i \in 1..Len(Tail(queue[w])) : Tail(queue[w])[i] = r)
        <5> DEFINE q == queue[w]
        <5> q \in Seq(Requests) /\ q # <<>>
          BY <1>1, <1>2
        <5> HIDE DEF q
        <5> (\E i \in 1..Len(q) : q[i] = r)
              <=> (r = Head(q) \/ \E i \in 1..Len(Tail(q)) : Tail(q)[i] = r)
          BY ONLY QueuedBeforeTail, q \in Seq(Requests), q # <<>>
        <5> QED
          BY DEF q
      <4> QED
        BY DEF Queued
    <3> QED
      BY <1>2, <2>1 DEF In
  <2>2. CASE v # w
    <3> task'[v] = task[v] /\ queue'[v] = queue[v]
      BY <1>4, <2>2 DEF TypeOK
    <3> QED
      BY DEF In, Queued
  <2> QED
    BY <2>1, <2>2
<1>6. NoRequestVanishes'
  <2> \A r \in 1..submitted : r \in Requests
    BY NumRequestsAssumption DEF TypeOK, Requests
  <2> QED
    BY <1>3, <1>4, <1>5 DEF RInv, NoRequestVanishes, In
<1>7. PlaceInv'
  BY <1>3, <1>4, <1>5 DEF RInv, PlaceInv
<1>8. OrderInv'
  <2> SUFFICES ASSUME NEW v \in Threads
               PROVE  /\ wpc'[v] = "unborn" => queue'[v] = <<>>
                      /\ \A i, j \in 1..Len(queue'[v]) :
                            i < j => queue'[v][i] < queue'[v][j]
                      /\ task'[v] # None =>
                            \A i \in 1..Len(queue'[v]) : task'[v] < queue'[v][i]
    BY DEF OrderInv
  <2>1. CASE v = w
    <3> DEFINE q == queue[w]
               t == Tail(queue[w])
    <3>1. /\ Len(q) = Len(t) + 1
          /\ \A i \in 1..Len(t) : t[i] = q[i + 1]
          /\ Head(q) = q[1]
          /\ Len(t) \in Nat
      BY <1>1, <1>2
    <3>2. queue'[w] = t /\ task'[w] = Head(q) /\ wpc'[w] = "lock"
      BY <1>4 DEF WorkerPop, TypeOK
    <3>3. \A i, j \in 1..Len(q) : i < j => q[i] < q[j]
      BY DEF RInv, OrderInv
    <3> HIDE DEF t, q
    <3> QED
      BY <2>1, <3>1, <3>2, <3>3
  <2>2. CASE v # w
    BY <2>2, <1>4 DEF WorkerPop, TypeOK, RInv, OrderInv
  <2> QED
    BY <2>1, <2>2
<1> QED
  BY <1>6, <1>7, <1>8

LEMMA WorkerFinishStep ==
  ASSUME RInv, NEW w \in Threads, WorkerFinish(w)
  PROVE  NoRequestVanishes' /\ PlaceInv' /\ OrderInv'
<1> TypeOK /\ WorkerInv
  BY DEF RInv, IInv
<1>1. /\ finished' = finished \cup {task[w]}
      /\ task' = [task EXCEPT ![w] = None]
      /\ UNCHANGED <<queue, submitted>>
      /\ task[w] \in Requests
  BY DEF WorkerFinish, httpVars, WorkerInv, TypeOK
<1>2. \A r : Held(r)' <=> Held(r)
  BY DEF WorkerFinish, Held, httpVars
<1>3. \A r, v : Queued(r, v)' <=> Queued(r, v)
  BY <1>1 DEF Queued
<1>4. ASSUME NEW i \in 1..Len(queue[w]) PROVE task[w] # queue[w][i]
  <2> queue[w][i] \in Requests
    BY DEF TypeOK
  <2> QED
    BY <1>1 DEF RInv, OrderInv, Requests, None
<1>5. ~Queued(task[w], w)
  BY <1>4 DEF Queued
<1>6. \A r \in Requests, v \in Threads :
        In(r, v)' <=> In(r, v) /\ r # task[w]
  <2> SUFFICES ASSUME NEW r \in Requests, NEW v \in Threads
               PROVE  In(r, v)' <=> In(r, v) /\ r # task[w]
    OBVIOUS
  <2>1. CASE v = w
    BY <2>1, <1>1, <1>3, <1>5 DEF In, TypeOK, Requests, None
  <2>2. CASE v # w
    <3> task'[v] = task[v]
      BY <2>2, <1>1 DEF TypeOK
    <3> r = task[w] => ~In(r, v)
      BY <2>2 DEF RInv, PlaceInv, In
    <3> QED
      BY <1>3 DEF In
  <2> QED
    BY <2>1, <2>2
<1>7. NoRequestVanishes'
  <2> SUFFICES ASSUME NEW r \in 1..submitted
               PROVE  \/ Held(r)'
                      \/ r \in finished'
                      \/ \E v \in Threads : In(r, v)'
    BY <1>1 DEF NoRequestVanishes, In
  <2> r \in Requests
    BY NumRequestsAssumption DEF TypeOK, Requests
  <2> QED
    BY <1>1, <1>2, <1>6 DEF RInv, NoRequestVanishes, In
<1>8. PlaceInv'
  <2> In(task[w], w)
    BY DEF In
  <2> ~Held(task[w]) /\ ~(task[w] > submitted)
    BY <1>1 DEF RInv, PlaceInv
  <2> QED
    BY <1>1, <1>2, <1>6 DEF RInv, PlaceInv
<1>9. OrderInv'
  <2> wpc[w] # "unborn" /\ wpc'[w] # "unborn"
    BY DEF WorkerFinish, TypeOK
  <2> QED
    BY <1>1 DEF RInv, OrderInv, WorkerFinish, TypeOK
<1> QED
  BY <1>7, <1>8, <1>9

LEMMA SubmitStep ==
  RInv /\ Submit => NoRequestVanishes' /\ PlaceInv' /\ OrderInv'
<1> SUFFICES ASSUME RInv, Submit
             PROVE  NoRequestVanishes' /\ PlaceInv' /\ OrderInv'
  OBVIOUS
<1> TypeOK
  BY DEF RInv, IInv
<1>1. /\ submitted' = submitted + 1
      /\ submitted \in Nat
      /\ UNCHANGED <<finished, task, queue, wpc>>
      /\ \A r : ~Held(r)
      /\ \A r : Held(r)' <=> r = submitted + 1
  BY DEF Submit, Held, workerVars, TypeOK
<1>2. \A r, w : (In(r, w)' <=> In(r, w)) /\ (Queued(r, w)' <=> Queued(r, w))
  BY <1>1 DEF In, Queued
<1>3. NoRequestVanishes'
  BY <1>1, <1>2 DEF RInv, NoRequestVanishes
<1>4. PlaceInv'
  BY <1>1, <1>2 DEF RInv, PlaceInv, Requests
<1>5. OrderInv'
  BY <1>1 DEF RInv, OrderInv
<1> QED
  BY <1>3, <1>4, <1>5

LEMMA InitRInv == Init => RInv
<1> SUFFICES ASSUME Init PROVE RInv
  OBVIOUS
<1>1. IInv
  BY InitIInv
<1>2. \A r, w : ~Held(r) /\ (w \in Threads /\ r \in Requests => ~In(r, w))
  BY DEF Init, Held, In, Queued, Requests, None
<1>3. NoRequestVanishes /\ ScanInv /\ BornInv /\ PlaceInv
  BY <1>2 DEF Init, NoRequestVanishes, ScanInv, BornInv, PlaceInv
<1>4. OrderInv
  BY DEF Init, OrderInv
<1> QED
  BY <1>1, <1>3, <1>4 DEF RInv

LEMMA NextRInv == RInv /\ [Next]_vars => RInv'
<1> SUFFICES ASSUME RInv, [Next]_vars PROVE RInv'
  OBVIOUS
<1> IInv /\ IInv'
  BY NextIInv DEF RInv
<1> TypeOK /\ ListInv /\ LockInv /\ CountInv /\ BirthInv /\ WorkerInv
  BY DEF IInv
<1> USE DEF poolVars, httpVars, workerVars, timerVars,
     exceptHpc, exceptWpc, exceptTpc
<1>a. ASSUME MovesNothing, ScanInv', BornInv' PROVE RInv'
  BY <1>a, MovesNothingStep DEF RInv
<1>b. ASSUME Pushes, ScanInv', BornInv' PROVE RInv'
  BY <1>b, PushesStep DEF RInv
<1>1. CASE Submit
  BY <1>1, SubmitStep DEF Submit, RInv, ScanInv, BornInv
<1>2. CASE SpuriousWakeup
  <2>1. MovesNothing
    BY <1>2 DEF SpuriousWakeup, MovesNothing, Held, TypeOK, ListInv
  <2>2. ScanInv' /\ BornInv'
    BY <1>2 DEF SpuriousWakeup, RInv, ScanInv, BornInv, ListInv, TypeOK
  <2> QED
    BY <1>a, <2>1, <2>2
<1>3. CASE ReadSize
  <2>1. MovesNothing
    BY <1>3 DEF ReadSize, MovesNothing, Held, TypeOK, ListInv
  <2>2. ScanInv' /\ BornInv'
    BY <1>3 DEF ReadSize, RInv, ScanInv, BornInv, ListInv, TypeOK
  <2> QED
    BY <1>a, <2>1, <2>2
<1>4. CASE CheckPredicate
  <2>1. MovesNothing
    BY <1>4 DEF CheckPredicate, MovesNothing, Held, TypeOK, ListInv
  <2>2. ScanInv' /\ BornInv'
    BY <1>4 DEF CheckPredicate, RInv, ScanInv, BornInv, ListInv, TypeOK
  <2> QED
    BY <1>a, <2>1, <2>2
<1>5. CASE Block
  <2>1. MovesNothing
    BY <1>5 DEF Block, MovesNothing, Held, TypeOK, ListInv
  <2>2. ScanInv' /\ BornInv'
    BY <1>5 DEF Block, RInv, ScanInv, BornInv, ListInv, TypeOK
  <2> QED
    BY <1>a, <2>1, <2>2
<1>6. CASE LockForScan
  <2>1. MovesNothing
    BY <1>6 DEF LockForScan, MovesNothing, Held, TypeOK, RInv, ScanInv
  <2>2. ScanInv' /\ BornInv'
    BY <1>6 DEF LockForScan, RInv, ScanInv, BornInv, ListInv, TypeOK
  <2> QED
    BY <1>a, <2>1, <2>2
<1>7. CASE ScanThread
  <2> PICK w \in toScan : /\ ~Locked(w)
                          /\ toScan' = toScan \ {w}
                          /\ thread' = w
                          /\ hpc' = IF IsExecuting(w) THEN "scan" ELSE "push"
                          /\ foundIdleThread' = (foundIdleThread \/ ~IsExecuting(w))
    BY <1>7 DEF ScanThread
  <2>1. ~IsExecuting(w) /\ w \in threadList /\ w \in Threads
    BY <1>7 DEF ScanThread, WorkerInv, Locked, IsExecuting, ListInv, TypeOK
  <2>2. ~foundIdleThread /\ toScan = threadList
    BY <1>7 DEF ScanThread, RInv, ScanInv, ListInv
  <2>3. MovesNothing
    BY <1>7, <2>1, <2>2 DEF ScanThread, MovesNothing, Held
  <2>4. ScanInv' /\ BornInv'
    BY <1>7, <2>1, <2>2 DEF ScanThread, RInv, ScanInv, BornInv, ListInv
  <2> QED
    BY <1>a, <2>3, <2>4
<1>8. CASE PushIdle
  <2>1. Pushes
    BY <1>8, NumRequestsAssumption
    DEF PushIdle, Execute, Pushes, Held, RInv, BornInv, ListInv, CountInv,
        TypeOK, Requests, Creating
  <2>2. ScanInv' /\ BornInv'
    BY <1>8 DEF PushIdle, RInv, ScanInv, BornInv, ListInv
  <2> QED
    BY <1>b, <2>1, <2>2
<1>9. CASE RearmIdle
  <2>1. MovesNothing
    BY <1>9 DEF RearmIdle, MovesNothing, Held, TypeOK, ListInv
  <2>2. ScanInv' /\ BornInv'
    BY <1>9 DEF RearmIdle, RInv, ScanInv, BornInv, ListInv, TypeOK
  <2> QED
    BY <1>a, <2>1, <2>2
<1>10. CASE EndScan
  <2>1. MovesNothing
    BY <1>10 DEF EndScan, MovesNothing, Held, TypeOK, ListInv
  <2>2. ScanInv' /\ BornInv'
    BY <1>10 DEF EndScan, RInv, ScanInv, BornInv, ListInv, TypeOK
  <2> QED
    BY <1>a, <2>1, <2>2
<1>11. CASE CreateThread
  <2>1. MovesNothing
    BY <1>11 DEF CreateThread, MovesNothing, Held, TypeOK, ListInv
  <2>2. ScanInv' /\ BornInv'
    <3> lastId' \in Threads
      BY <1>11, NumRequestsAssumption
      DEF CreateThread, CountInv, TypeOK, Threads, Creating, Destroying
    <3> QED
      BY <1>11 DEF CreateThread, RInv, ScanInv, BornInv, ListInv, TypeOK
  <2> QED
    BY <1>a, <2>1, <2>2
<1>12. CASE InsertThread
  <2>1. MovesNothing
    BY <1>12 DEF InsertThread, MovesNothing, Held, TypeOK, ListInv
  <2>2. ScanInv' /\ BornInv'
    BY <1>12
    DEF InsertThread, RInv, ScanInv, BornInv, ListInv, TypeOK, Creating
  <2> QED
    BY <1>a, <2>1, <2>2
<1>13. CASE StartThread
  <2>1. MovesNothing
    BY <1>13 DEF StartThread, MovesNothing, Held, TypeOK, ListInv
  <2>2. ScanInv' /\ BornInv'
    BY <1>13 DEF StartThread, RInv, ScanInv, BornInv, ListInv, TypeOK
  <2> QED
    BY <1>a, <2>1, <2>2
<1>14. CASE PushNew
  <2>1. Pushes
    BY <1>14, NumRequestsAssumption
    DEF PushNew, Execute, Pushes, Held, RInv, BornInv, ListInv, CountInv,
        TypeOK, Requests, Creating
  <2>2. ScanInv' /\ BornInv'
    BY <1>14 DEF PushNew, RInv, ScanInv, BornInv, ListInv
  <2> QED
    BY <1>b, <2>1, <2>2
<1>15. CASE RearmNew
  <2>1. MovesNothing
    BY <1>15 DEF RearmNew, MovesNothing, Held, TypeOK, ListInv
  <2>2. ScanInv' /\ BornInv'
    BY <1>15 DEF RearmNew, RInv, ScanInv, BornInv, ListInv, TypeOK
  <2> QED
    BY <1>a, <2>1, <2>2
<1>16. CASE ReleaseNew
  <2>1. MovesNothing
    BY <1>16 DEF ReleaseNew, MovesNothing, Held, TypeOK, ListInv
  <2>2. ScanInv' /\ BornInv'
    BY <1>16 DEF ReleaseNew, RInv, ScanInv, BornInv, ListInv, TypeOK
  <2> QED
    BY <1>a, <2>1, <2>2
<1>17. CASE HttpStop
  <2>1. MovesNothing
    BY <1>17 DEF HttpStop, StopQueue, MovesNothing, Held, TypeOK, ListInv
  <2>2. ScanInv' /\ BornInv'
    BY <1>17 DEF HttpStop, StopQueue, RInv, ScanInv, BornInv, ListInv, TypeOK
  <2> QED
    BY <1>a, <2>1, <2>2
<1>18. CASE HttpClearFlags
  <2>1. MovesNothing
    BY <1>18 DEF HttpClearFlags, ClearFlags, MovesNothing, Held, TypeOK, ListInv
  <2>2. ScanInv' /\ BornInv'
    BY <1>18 DEF HttpClearFlags, ClearFlags, RInv, ScanInv, BornInv, ListInv, TypeOK
  <2> QED
    BY <1>a, <2>1, <2>2
<1>19. CASE HttpJoin
  <2>1. MovesNothing
    BY <1>19 DEF HttpJoin, MovesNothing, Held, TypeOK, ListInv
  <2>2. ScanInv' /\ BornInv'
    BY <1>19 DEF HttpJoin, RInv, ScanInv, BornInv, ListInv, TypeOK
  <2> QED
    BY <1>a, <2>1, <2>2
<1>20. ASSUME NEW w \in Threads, WorkerLoop(w) PROVE RInv'
  <2>1. MovesNothing
    BY <1>20 DEF WorkerLoop, MovesNothing, Held, TypeOK, ListInv
  <2>2. ScanInv' /\ BornInv'
    BY <1>20 DEF WorkerLoop, RInv, ScanInv, BornInv, ListInv, TypeOK
  <2> QED
    BY <1>a, <2>1, <2>2
<1>21. ASSUME NEW w \in Threads, WorkerWake(w) PROVE RInv'
  <2>1. MovesNothing
    BY <1>21 DEF WorkerWake, MovesNothing, Held, TypeOK, ListInv
  <2>2. ScanInv' /\ BornInv'
    BY <1>21 DEF WorkerWake, RInv, ScanInv, BornInv, ListInv, TypeOK
  <2> QED
    BY <1>a, <2>1, <2>2
<1>22. ASSUME NEW w \in Threads, WorkerStopped(w) PROVE RInv'
  <2>1. MovesNothing
    BY <1>22 DEF WorkerStopped, MovesNothing, Held, TypeOK, ListInv
  <2>2. ScanInv' /\ BornInv'
    BY <1>22 DEF WorkerStopped, RInv, ScanInv, BornInv, ListInv, TypeOK
  <2> QED
    BY <1>a, <2>1, <2>2
<1>23. ASSUME NEW w \in Threads, WorkerPop(w) PROVE RInv'
  <2> ScanInv' /\ BornInv'
    BY <1>23 DEF WorkerPop, RInv, ScanInv, BornInv, TypeOK
  <2> QED
    BY <1>23, WorkerPopStep DEF RInv
<1>24. ASSUME NEW w \in Threads, WorkerBegin(w) PROVE RInv'
  <2>1. MovesNothing
    BY <1>24 DEF WorkerBegin, MovesNothing, Held, TypeOK, ListInv
  <2>2. ScanInv' /\ BornInv'
    BY <1>24 DEF WorkerBegin, RInv, ScanInv, BornInv, ListInv, TypeOK
  <2> QED
    BY <1>a, <2>1, <2>2
<1>25. ASSUME NEW w \in Threads, WorkerFinish(w) PROVE RInv'
  <2> ScanInv' /\ BornInv'
    BY <1>25 DEF WorkerFinish, RInv, ScanInv, BornInv, TypeOK
  <2> QED
    BY <1>25, WorkerFinishStep DEF RInv
<1>26. CASE Expire
  <2>1. MovesNothing
    BY <1>26 DEF Expire, MovesNothing, Held, TypeOK, ListInv
  <2>2. ScanInv' /\ BornInv'
    BY <1>26 DEF Expire, RInv, ScanInv, BornInv, ListInv, TypeOK
  <2> QED
    BY <1>a, <2>1, <2>2
<1>27. CASE TimerLock
  <2>1. MovesNothing
    BY <1>27 DEF TimerLock, MovesNothing, Held, TypeOK, ListInv
  <2>2. ScanInv' /\ BornInv'
    BY <1>27 DEF TimerLock, RInv, ScanInv, BornInv, ListInv, TypeOK
  <2> QED
    BY <1>a, <2>1, <2>2
<1>28. CASE FindThread
  <2>1. MovesNothing
    BY <1>28 DEF FindThread, MovesNothing, Held, TypeOK, ListInv
  <2>2. ScanInv' /\ BornInv'
    BY <1>28 DEF FindThread, RInv, ScanInv, BornInv, ListInv, TypeOK
  <2> QED
    BY <1>a, <2>1, <2>2
<1>29. CASE LockForErase
  <2>1. MovesNothing
    BY <1>29 DEF LockForErase, MovesNothing, Held, TypeOK, ListInv
  <2>2. ScanInv' /\ BornInv'
    BY <1>29 DEF LockForErase, RInv, ScanInv, BornInv, ListInv, TypeOK
  <2> QED
    BY <1>a, <2>1, <2>2
<1>30. CASE EraseEntry
  <2>1. MovesNothing
    BY <1>30 DEF EraseEntry, MovesNothing, Held, TypeOK, ListInv
  <2>2. ScanInv' /\ BornInv'
    BY <1>30 DEF EraseEntry, RInv, ScanInv, BornInv, ListInv, TypeOK
  <2> QED
    BY <1>a, <2>1, <2>2
<1>31. CASE TimerStop
  <2>1. MovesNothing
    BY <1>31 DEF TimerStop, StopQueue, MovesNothing, Held, TypeOK, ListInv
  <2>2. ScanInv' /\ BornInv'
    BY <1>31 DEF TimerStop, StopQueue, RInv, ScanInv, BornInv, ListInv, TypeOK
  <2> QED
    BY <1>a, <2>1, <2>2
<1>32. CASE TimerClearFlags
  <2>1. MovesNothing
    BY <1>32 DEF TimerClearFlags, ClearFlags, MovesNothing, Held, TypeOK, ListInv
  <2>2. ScanInv' /\ BornInv'
    BY <1>32 DEF TimerClearFlags, ClearFlags, RInv, ScanInv, BornInv, ListInv, TypeOK
  <2> QED
    BY <1>a, <2>1, <2>2
<1>33. CASE TimerJoin
  <2>1. MovesNothing
    BY <1>33 DEF TimerJoin, MovesNothing, Held, TypeOK, ListInv
  <2>2. ScanInv' /\ BornInv'
    BY <1>33 DEF TimerJoin, RInv, ScanInv, BornInv, ListInv, TypeOK
  <2> QED
    BY <1>a, <2>1, <2>2
<1>34. CASE UnlockData
  <2>1. MovesNothing
    BY <1>34 DEF UnlockData, MovesNothing, Held, TypeOK, ListInv
  <2>2. ScanInv' /\ BornInv'
    BY <1>34 DEF UnlockData, RInv, ScanInv, BornInv, ListInv, TypeOK
  <2> QED
    BY <1>a, <2>1, <2>2
<1>35. CASE Notify
  <2>1. MovesNothing
    BY <1>35 DEF Notify, MovesNothing, Held, TypeOK, ListInv
  <2>2. ScanInv' /\ BornInv'
    BY <1>35 DEF Notify, RInv, ScanInv, BornInv, ListInv, TypeOK
  <2> QED
    BY <1>a, <2>1, <2>2
<1>36. CASE TimerRelease
  <2>1. MovesNothing
    BY <1>36 DEF TimerRelease, MovesNothing, Held, TypeOK, ListInv
  <2>2. ScanInv' /\ BornInv'
    BY <1>36 DEF TimerRelease, RInv, ScanInv, BornInv, ListInv, TypeOK
  <2> QED
    BY <1>a, <2>1, <2>2
<1>37. CASE UNCHANGED vars
  BY <1>37 DEF vars, RInv, NoRequestVanishes, ScanInv, BornInv, PlaceInv, OrderInv,
     Held, In, Queued
<1> QED
  BY <1>1, <1>2, <1>3, <1>4, <1>5, <1>6, <1>7, <1>8, <1>9, <1>10,
     <1>11, <1>12, <1>13, <1>14, <1>15, <1>16, <1>17, <1>18, <1>19, <1>20,
     <1>21, <1>22, <1>23, <1>24, <1>25, <1>26, <1>27, <1>28, <1>29, <1>30,
     <1>31, <1>32, <1>33, <1>34, <1>35, <1>36, <1>37
  DEF Next, StartNewOperation, Worker, TimeoutOnThread

LEMMA SpecRInv == Spec => []RInv
  BY InitRInv, NextRInv, PTL DEF Spec

\* No request handed to the pool vanishes: at every moment it is in the hands of
\* startNewOperation, of a thread, or it has been handled.
THEOREM NothingVanishes == Spec => []NoRequestVanishes
<1> RInv => NoRequestVanishes
  BY DEF RInv
<1> QED
  BY SpecRInv, PTL
-----------------------------------------------------------------------------
(* The pool implements SerialExecutor: every step of the pool is a step of *)
(* the abstract executor or leaves every request's status alone.          *)

status == [r \in Requests |-> StatusOf(r)]

\* The arms of StatusOf exclude each other.
LEMMA StatusCases ==
  \A r \in Requests :
    /\ Running(r) => status[r] = "running"
    /\ ~Running(r) /\ r \in finished => status[r] = "done"
    /\ ~Running(r) /\ r \notin finished /\ Dropped(r) => status[r] = "dropped"
    /\ ~Running(r) /\ r \notin finished /\ ~Dropped(r) /\ r <= submitted =>
         status[r] = "pending"
    /\ ~Running(r) /\ r \notin finished /\ ~Dropped(r) /\ ~(r <= submitted) =>
         status[r] = "new"
  BY DEF status, StatusOf

\* A request that has not been handed over, or has not been given to a thread,
\* is neither running nor done nor dropped.
LEMMA NotYet ==
  ASSUME RInv, NEW r \in Requests, r > submitted \/ Held(r)
  PROVE  ~Running(r) /\ r \notin finished /\ ~Dropped(r)
  BY DEF RInv, PlaceInv, Running, Dropped, In

\* A request in the queue of a thread that has not left run() is pending, and
\* so is one the thread has popped and not begun.
LEMMA PendingInThread ==
  ASSUME RInv, NEW r \in Requests, NEW w \in Threads, In(r, w), wpc[w] # "exit",
         task[w] = r => wpc[w] # "run"
  PROVE  status[r] = "pending"
<1>1. r <= submitted /\ r \notin finished
  <2> submitted \in Nat /\ r \in Nat
    BY DEF RInv, IInv, TypeOK, Requests
  <2> QED
    BY DEF RInv, PlaceInv
<1>2. \A v \in Threads : In(r, v) => v = w
  BY DEF RInv, PlaceInv
<1>3. ~Running(r) /\ ~Dropped(r)
  BY <1>2 DEF Running, Dropped, In
<1> QED
  BY <1>1, <1>3, StatusCases

\* Only the thread that is running can make a request of its own wait: every
\* request before the one it has popped is over and done with.
LEMMA EarlierIsOver ==
  ASSUME RInv, NEW w \in Threads, wpc[w] \in {"lock", "run"},
         NEW s \in Requests, s < task[w]
  PROVE  status[s] \in {"done", "dropped"}
<1> TypeOK /\ WorkerInv /\ OwnedInv /\ ListInv
  BY DEF RInv, IInv
<1>1. task[w] \in Requests /\ task[w] <= submitted /\ ~Held(task[w])
  <2> task[w] \in Requests
    BY DEF WorkerInv, TypeOK
  <2> QED
    BY DEF RInv, PlaceInv, In, TypeOK, Requests
<1>2. \A v \in Threads : wpc[v] \notin {"unborn", "exit"} => v = w
  BY DEF OwnedInv, ListInv, Live, Creating, Destroying
<1>3. ~In(s, w)
  <2>1. task[w] # s
    BY <1>1 DEF Requests
  <2>2. ASSUME NEW i \in 1..Len(queue[w]) PROVE queue[w][i] # s
    <3> queue[w][i] \in Requests
      BY DEF TypeOK
    <3> task[w] < queue[w][i]
      BY <1>1 DEF RInv, OrderInv, Requests, None
    <3> QED
      BY <1>1 DEF Requests
  <2> QED
    BY <2>1, <2>2 DEF In, Queued
<1>4. ~Running(s)
  BY <1>2, <1>3 DEF Running, In
<1>5. CASE s \in finished
  BY <1>4, <1>5, StatusCases
<1>6. CASE s \notin finished
  <2>1. PICK v \in Threads : In(s, v)
    <3> s \in 1..submitted /\ s # submitted
      BY <1>1 DEF Requests, TypeOK
    <3> QED
      BY <1>6 DEF RInv, NoRequestVanishes, In, Held
  <2>2. wpc[v] \in {"unborn", "exit"}
    BY <1>2, <1>3, <2>1
  <2>3. task[v] = None /\ s # None
    BY <2>2 DEF WorkerInv, Requests, None
  <2>4. Queued(s, v)
    BY <2>1, <2>3 DEF In
  <2>5. wpc[v] # "unborn"
    <3> Len(<<>>) = 0
      OBVIOUS
    <3> QED
      BY <2>4 DEF RInv, OrderInv, Queued
  <2>6. Dropped(s)
    BY <2>2, <2>4, <2>5 DEF Dropped
  <2> QED
    BY <1>4, <1>6, <2>6, StatusCases
<1> QED
  BY <1>5, <1>6

\* A step that moves no request, begins or ends no handler and ends no thread.
KeepsStatus ==
  /\ UNCHANGED <<finished, submitted, queue, task>>
  /\ \A w \in Threads : wpc'[w] = "run" <=> wpc[w] = "run"
  /\ \A w \in Threads : wpc'[w] = "exit" <=> wpc[w] = "exit"

LEMMA KeepsStatusStep == KeepsStatus => status' = status
<1> SUFFICES ASSUME KeepsStatus PROVE status' = status
  OBVIOUS
<1>0. /\ \A w \in Threads : wpc'[w] = "run" <=> wpc[w] = "run"
      /\ \A w \in Threads : wpc'[w] = "exit" <=> wpc[w] = "exit"
      /\ task' = task
  BY DEF KeepsStatus
<1>1. ASSUME NEW r PROVE Running(r)' <=> Running(r)
  BY <1>0 DEF Running
<1>2. ASSUME NEW r PROVE Dropped(r)' <=> Dropped(r)
  <2> \A w : Queued(r, w)' <=> Queued(r, w)
    BY DEF KeepsStatus, Queued
  <2> QED
    BY <1>0 DEF Dropped
<1> QED
  BY <1>1, <1>2 DEF KeepsStatus, status, StatusOf

\* A step is a step of the abstract executor if it changes one status so.
LEMMA ChangesOne ==
  ASSUME NEW r \in Requests, NEW st,
         \A s \in Requests : s # r => status'[s] = status[s],
         status'[r] = st
  PROVE  status' = [status EXCEPT ![r] = st]
  BY DEF status

LEMMA SubmitRefines ==
  RInv /\ Submit => \E r \in Requests : Abstract!Submit(r)
<1> SUFFICES ASSUME RInv, Submit PROVE \E r \in Requests : Abstract!Submit(r)
  OBVIOUS
<1> PICK r : r = submitted + 1
  OBVIOUS
<1>1. /\ r \in Requests
      /\ r > submitted
      /\ submitted \in Nat
  BY NumRequestsAssumption DEF Submit, RInv, IInv, TypeOK, Requests
<1>2. status[r] = "new"
  BY <1>1, NotYet, StatusCases
<1>3. /\ \A s : (Running(s)' <=> Running(s)) /\ (Dropped(s)' <=> Dropped(s))
      /\ submitted' = r /\ finished' = finished
  BY DEF Submit, Running, Dropped, Queued, workerVars
<1>4. \A s \in Requests : s # r => status'[s] = status[s]
  <2> SUFFICES ASSUME NEW s \in Requests, s # r PROVE StatusOf(s)' = StatusOf(s)
    BY DEF status
  <2> s <= submitted <=> s <= submitted'
    BY <1>1, <1>3 DEF Requests
  <2> QED
    BY <1>3 DEF StatusOf
<1>5. status'[r] = "pending"
  <2>1. ~Running(r) /\ r \notin finished /\ ~Dropped(r)
    BY <1>1, NotYet
  <2>2. StatusOf(r)' = "pending"
    BY <1>1, <1>3, <2>1 DEF StatusOf
  <2> QED
    BY <1>1, <2>2 DEF status
<1>6. \A s \in Requests : s < r => status[s] # "new"
  BY <1>1, StatusCases DEF Requests
<1>7. status' = [status EXCEPT ![r] = "pending"]
  BY <1>1, <1>4, <1>5, ChangesOne
<1> QED
  BY <1>1, <1>2, <1>6, <1>7 DEF Abstract!Submit, status

LEMMA BeginRefines ==
  ASSUME RInv, NEW w \in Threads, WorkerBegin(w)
  PROVE  task[w] \in Requests /\ Abstract!Begin(task[w])
<1> TypeOK /\ WorkerInv
  BY DEF RInv, IInv
<1> DEFINE r == task[w]
<1>1. r \in Requests /\ wpc[w] = "lock"
  BY DEF WorkerBegin, WorkerInv, TypeOK
<1>2. status[r] = "pending"
  BY <1>1, PendingInThread DEF In
<1>3. \A s \in Requests : s < r => status[s] \in {"done", "dropped"}
  BY <1>1, EarlierIsOver
<1>4. /\ \A s : Running(s)' <=> Running(s) \/ s = r
      /\ \A s : Dropped(s)' <=> Dropped(s)
      /\ UNCHANGED <<finished, submitted>>
  BY <1>1 DEF WorkerBegin, Running, Dropped, Queued, httpVars, TypeOK
<1>5. \A s \in Requests : s # r => status'[s] = status[s]
  BY <1>4 DEF status, StatusOf
<1>6. status'[r] = "running"
  BY <1>1, <1>4 DEF status, StatusOf
<1>7. status' = [status EXCEPT ![r] = "running"]
  BY <1>1, <1>5, <1>6, ChangesOne
<1> QED
  BY <1>1, <1>2, <1>3, <1>7 DEF Abstract!Begin, status

LEMMA FinishRefines ==
  ASSUME RInv, NEW w \in Threads, WorkerFinish(w)
  PROVE  task[w] \in Requests /\ Abstract!Finish(task[w])
<1> TypeOK /\ WorkerInv
  BY DEF RInv, IInv
<1> DEFINE r == task[w]
<1>1. r \in Requests /\ wpc[w] = "run"
  BY DEF WorkerFinish, WorkerInv, TypeOK
<1>2. status[r] = "running"
  BY <1>1, StatusCases DEF Running
<1>3. \A v \in Threads : task[v] = r => v = w
  BY <1>1 DEF RInv, PlaceInv, In
<1>4. /\ \A s \in Requests : Running(s)' <=> Running(s) /\ s # r
      /\ \A s : Dropped(s)' <=> Dropped(s)
      /\ finished' = finished \cup {r}
      /\ submitted' = submitted
  <2>1. \A s \in Requests : Running(s)' <=> Running(s) /\ s # r
    BY <1>1, <1>3 DEF WorkerFinish, Running, TypeOK, Requests, None
  <2>2. \A s : Dropped(s)' <=> Dropped(s)
    BY <1>1 DEF WorkerFinish, Dropped, Queued, TypeOK
  <2> QED
    BY <2>1, <2>2 DEF WorkerFinish, httpVars
<1>5. \A s \in Requests : s # r => status'[s] = status[s]
  BY <1>4 DEF status, StatusOf
<1>6. status'[r] = "done"
  BY <1>1, <1>4 DEF status, StatusOf
<1>7. status' = [status EXCEPT ![r] = "done"]
  BY <1>1, <1>5, <1>6, ChangesOne
<1> QED
  BY <1>1, <1>2, <1>7 DEF Abstract!Finish, status

\* A thread that leaves run() drops what is in its queue.
LEMMA LoopRefines ==
  ASSUME RInv, NEW w \in Threads, WorkerLoop(w)
  PROVE  (\E S \in SUBSET Requests : Abstract!Drop(S)) \/ status' = status
<1> TypeOK /\ WorkerInv
  BY DEF RInv, IInv
<1>1. CASE running[w]
  <2> KeepsStatus
    BY <1>1 DEF WorkerLoop, KeepsStatus, httpVars, exceptWpc, TypeOK
  <2> QED
    BY KeepsStatusStep
<1>2. CASE ~running[w]
  <2> DEFINE S == {r \in Requests : Queued(r, w)}
  <2>1. \A r \in S : status[r] = "pending"
    <3> \A r \in Requests : task[w] = r => wpc[w] # "run"
      BY DEF WorkerLoop
    <3> QED
      BY PendingInThread DEF WorkerLoop, In
  <2>2. /\ \A r \in Requests : Running(r)' <=> Running(r)
        /\ \A r : Queued(r, w)' <=> Queued(r, w)
        /\ UNCHANGED <<finished, submitted>>
    BY DEF WorkerLoop, Running, Queued, httpVars, exceptWpc, TypeOK
  <2>3. \A r \in Requests : Dropped(r)' <=> Dropped(r) \/ r \in S
    <3> \A r, v : Queued(r, v)' <=> Queued(r, v)
      BY DEF WorkerLoop, Queued, exceptWpc
    <3> \A v \in Threads : wpc'[v] = "exit" <=> wpc[v] = "exit" \/ v = w
      BY <1>2 DEF WorkerLoop, TypeOK
    <3> QED
      BY DEF Dropped
  <2>4. ASSUME NEW r \in Requests, r \notin S PROVE status'[r] = status[r]
    BY <2>2, <2>3, <2>4 DEF status, StatusOf
  <2>5. ASSUME NEW r \in S PROVE status'[r] = "dropped"
    <3>1. In(r, w) /\ wpc[w] = "loop"
      BY DEF In, WorkerLoop
    <3>2. r \notin finished
      BY <3>1 DEF RInv, PlaceInv
    <3>3. ~Running(r)
      BY <3>1 DEF Running, RInv, PlaceInv, In
    <3> QED
      BY <2>2, <2>3, <3>2, <3>3 DEF status, StatusOf
  <2>6. status' = [r \in Requests |-> IF r \in S THEN "dropped" ELSE status[r]]
    BY <2>4, <2>5 DEF status
  <2>7. S \in SUBSET Requests
    OBVIOUS
  <2> HIDE DEF S
  <2>8. Abstract!Drop(S)
    BY <2>1, <2>6, <2>7 DEF Abstract!Drop, status
  <2> QED
    BY <2>7, <2>8
<1> QED
  BY <1>1, <1>2

\* A push leaves the request pending, or drops it should the thread have ended.
LEMMA PushRefines ==
  RInv /\ Pushes =>
    (\E S \in SUBSET Requests : Abstract!Drop(S)) \/ status' = status
<1> SUFFICES ASSUME RInv, Pushes
             PROVE  (\E S \in SUBSET Requests : Abstract!Drop(S)) \/ status' = status
  OBVIOUS
<1> TypeOK
  BY DEF RInv, IInv
<1> PICK r \in Requests : r = submitted
  BY DEF Pushes
<1> PICK w \in Threads : w = thread
  BY DEF Pushes
<1>1. ~Running(r) /\ r \notin finished /\ ~Dropped(r)
  BY NotYet DEF Pushes
<1>2. status[r] = "pending"
  BY <1>1, StatusCases DEF TypeOK, Requests
<1>3. ASSUME NEW x, NEW v \in Threads
      PROVE  Queued(x, v)' <=> Queued(x, v) \/ (v = w /\ x = r)
  <2> queue[v] \in Seq(Requests)
    BY DEF TypeOK
  <2>1. CASE v = w
    <3> queue'[v] = Append(queue[v], submitted)
      BY <2>1 DEF Pushes, TypeOK
    <3> QED
      BY <2>1, QueuedAfterAppend DEF Queued, Pushes
  <2>2. CASE v # w
    <3> queue'[v] = queue[v]
      BY <2>2 DEF Pushes, TypeOK
    <3> QED
      BY <2>2 DEF Queued
  <2> QED
    BY <2>1, <2>2
<1>4. \A x : Running(x)' <=> Running(x)
  BY DEF Pushes, Running
<1>5. CASE wpc[w] # "exit"
  <2> \A x : Dropped(x)' <=> Dropped(x)
    BY <1>3, <1>5 DEF Dropped, Pushes
  <2> QED
    BY <1>4 DEF status, StatusOf, Pushes
<1>6. CASE wpc[w] = "exit"
  <2>1. \A x : Dropped(x)' <=> Dropped(x) \/ x = r
    BY <1>3, <1>6 DEF Dropped, Pushes
  <2>2. \A x \in Requests : x # r => status'[x] = status[x]
    BY <1>4, <2>1 DEF status, StatusOf, Pushes
  <2>3. status'[r] = "dropped"
    BY <1>1, <1>4, <2>1 DEF status, StatusOf, Pushes
  <2>4. status' = [x \in Requests |-> IF x \in {r} THEN "dropped" ELSE status[x]]
    BY <2>2, <2>3 DEF status
  <2>5. Abstract!Drop({r})
    BY <1>2, <2>4 DEF Abstract!Drop, status
  <2> QED
    BY <2>5
<1> QED
  BY <1>5, <1>6

\* A pop moves a request from the queue to the thread: it is pending before and
\* after.
LEMMA PopRefines ==
  ASSUME RInv, NEW w \in Threads, WorkerPop(w)
  PROVE  status' = status
<1> TypeOK
  BY DEF RInv, IInv
<1>1. ASSUME NEW r \in Requests PROVE Running(r)' <=> Running(r)
  BY DEF WorkerPop, Running, TypeOK
<1>2. ASSUME NEW r \in Requests PROVE Dropped(r)' <=> Dropped(r)
  <2> \A v \in Threads : v # w => (Queued(r, v)' <=> Queued(r, v))
    BY DEF WorkerPop, Queued, TypeOK
  <2> \A v \in Threads : wpc'[v] = "exit" <=> wpc[v] = "exit"
    BY DEF WorkerPop, TypeOK
  <2> wpc[w] # "exit"
    BY DEF WorkerPop
  <2> QED
    BY DEF Dropped
<1> QED
  BY <1>1, <1>2 DEF status, StatusOf, WorkerPop, httpVars

LEMMA StepRefines == RInv /\ [Next]_vars => [Abstract!Next]_status
<1> SUFFICES ASSUME RInv, [Next]_vars PROVE [Abstract!Next]_status
  OBVIOUS
<1> IInv /\ TypeOK /\ ListInv /\ CountInv /\ WorkerInv /\ BirthInv
  BY DEF RInv, IInv
<1>a. ASSUME KeepsStatus PROVE [Abstract!Next]_status
  BY <1>a, KeepsStatusStep
<1>b. ASSUME Pushes PROVE [Abstract!Next]_status
  BY <1>b, PushRefines DEF Abstract!Next
<1> USE DEF poolVars, httpVars, workerVars, timerVars,
     exceptHpc, exceptWpc, exceptTpc
<1>1. CASE Submit
  BY <1>1, SubmitRefines DEF Abstract!Next
<1>2. CASE SpuriousWakeup
  BY <1>a, <1>2 DEF SpuriousWakeup, KeepsStatus
<1>3. CASE ReadSize
  BY <1>a, <1>3 DEF ReadSize, KeepsStatus
<1>4. CASE CheckPredicate
  BY <1>a, <1>4 DEF CheckPredicate, KeepsStatus
<1>5. CASE Block
  BY <1>a, <1>5 DEF Block, KeepsStatus
<1>6. CASE LockForScan
  BY <1>a, <1>6 DEF LockForScan, KeepsStatus
<1>7. CASE ScanThread
  BY <1>a, <1>7 DEF ScanThread, KeepsStatus
<1>8. CASE PushIdle
  <2> Pushes
    BY <1>8, NumRequestsAssumption
    DEF PushIdle, Execute, Pushes, Held, RInv, BornInv, ListInv, CountInv,
        TypeOK, Requests, Creating
  <2> QED
    BY <1>b
<1>9. CASE RearmIdle
  BY <1>a, <1>9 DEF RearmIdle, KeepsStatus
<1>10. CASE EndScan
  BY <1>a, <1>10 DEF EndScan, KeepsStatus
<1>11. CASE CreateThread
  <2> wpc[lastId'] = "unborn"
    BY <1>11, NumRequestsAssumption
    DEF CreateThread, CountInv, BirthInv, TypeOK, Threads, Creating, Destroying
  <2> QED
    BY <1>a, <1>11 DEF CreateThread, KeepsStatus, TypeOK
<1>12. CASE InsertThread
  BY <1>a, <1>12 DEF InsertThread, KeepsStatus
<1>13. CASE StartThread
  BY <1>a, <1>13 DEF StartThread, KeepsStatus, TypeOK, BirthInv
<1>14. CASE PushNew
  <2> Pushes
    BY <1>14, NumRequestsAssumption
    DEF PushNew, Execute, Pushes, Held, RInv, BornInv, ListInv, CountInv,
        TypeOK, Requests, Creating
  <2> QED
    BY <1>b
<1>15. CASE RearmNew
  BY <1>a, <1>15 DEF RearmNew, KeepsStatus
<1>16. CASE ReleaseNew
  BY <1>a, <1>16 DEF ReleaseNew, KeepsStatus
<1>17. CASE HttpStop
  BY <1>a, <1>17 DEF HttpStop, StopQueue, KeepsStatus
<1>18. CASE HttpClearFlags
  BY <1>a, <1>18 DEF HttpClearFlags, ClearFlags, KeepsStatus
<1>19. CASE HttpJoin
  BY <1>a, <1>19 DEF HttpJoin, KeepsStatus
<1>20. ASSUME NEW w \in Threads, WorkerLoop(w) PROVE [Abstract!Next]_status
  BY <1>20, LoopRefines DEF Abstract!Next
<1>21. ASSUME NEW w \in Threads, WorkerWake(w) PROVE [Abstract!Next]_status
  BY <1>a, <1>21 DEF WorkerWake, KeepsStatus, TypeOK
<1>22. ASSUME NEW w \in Threads, WorkerStopped(w) PROVE [Abstract!Next]_status
  BY <1>a, <1>22 DEF WorkerStopped, KeepsStatus, TypeOK
<1>23. ASSUME NEW w \in Threads, WorkerPop(w) PROVE [Abstract!Next]_status
  BY <1>23, PopRefines DEF Abstract!Next
<1>24. ASSUME NEW w \in Threads, WorkerBegin(w) PROVE [Abstract!Next]_status
  BY <1>24, BeginRefines DEF Abstract!Next
<1>25. ASSUME NEW w \in Threads, WorkerFinish(w) PROVE [Abstract!Next]_status
  BY <1>25, FinishRefines DEF Abstract!Next
<1>26. CASE Expire
  BY <1>a, <1>26 DEF Expire, KeepsStatus
<1>27. CASE TimerLock
  BY <1>a, <1>27 DEF TimerLock, KeepsStatus
<1>28. CASE FindThread
  BY <1>a, <1>28 DEF FindThread, KeepsStatus
<1>29. CASE LockForErase
  BY <1>a, <1>29 DEF LockForErase, KeepsStatus
<1>30. CASE EraseEntry
  BY <1>a, <1>30 DEF EraseEntry, KeepsStatus
<1>31. CASE TimerStop
  BY <1>a, <1>31 DEF TimerStop, StopQueue, KeepsStatus
<1>32. CASE TimerClearFlags
  BY <1>a, <1>32 DEF TimerClearFlags, ClearFlags, KeepsStatus
<1>33. CASE TimerJoin
  BY <1>a, <1>33 DEF TimerJoin, KeepsStatus
<1>34. CASE UnlockData
  BY <1>a, <1>34 DEF UnlockData, KeepsStatus
<1>35. CASE Notify
  BY <1>a, <1>35 DEF Notify, KeepsStatus
<1>36. CASE TimerRelease
  BY <1>a, <1>36 DEF TimerRelease, KeepsStatus
<1>37. CASE UNCHANGED vars
  BY <1>a, <1>37 DEF vars, KeepsStatus
<1> QED
  BY <1>1, <1>2, <1>3, <1>4, <1>5, <1>6, <1>7, <1>8, <1>9, <1>10,
     <1>11, <1>12, <1>13, <1>14, <1>15, <1>16, <1>17, <1>18, <1>19, <1>20,
     <1>21, <1>22, <1>23, <1>24, <1>25, <1>26, <1>27, <1>28, <1>29, <1>30,
     <1>31, <1>32, <1>33, <1>34, <1>35, <1>36, <1>37
  DEF Next, StartNewOperation, Worker, TimeoutOnThread

LEMMA InitRefines == Init => Abstract!Init
<1> SUFFICES ASSUME Init PROVE Abstract!Init
  OBVIOUS
<1> \A r \in Requests : ~Running(r) /\ r \notin finished /\ ~Dropped(r)
  BY DEF Init, Running, Dropped
<1> \A r \in Requests : ~(r <= submitted)
  BY DEF Init, Requests
<1> QED
  BY DEF Abstract!Init, StatusOf

\* The pool is a serial executor: whatever the number of requests and of threads
\* it may have, it begins handlers in the order startNewOperation was called,
\* one at a time, each at most once, and ends every handler it has begun.
THEOREM PoolIsSerialExecutor == Spec => ImplementsSerialExecutor
<1> [Abstract!Next]_status => [Abstract!Next]_([r \in Requests |-> StatusOf(r)])
  BY DEF status
<1> QED
  BY SpecRInv, InitRefines, StepRefines, PTL
  DEF Spec, ImplementsSerialExecutor, Abstract!Spec, status
=============================================================================
