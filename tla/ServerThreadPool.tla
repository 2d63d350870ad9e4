-------------------------- MODULE ServerThreadPool --------------------------
(***************************************************************************)
(* The thread pool that runs request handlers, with the two things it      *)
(* cannot be understood without: the ServerThread objects it owns and the  *)
(* locking of SimpleTimer, whose thread calls back into the pool.          *)
(*                                                                         *)
(* Three kinds of thread interleave:                                       *)
(*   - the HttpServer thread, the only caller of startNewOperation, takes  *)
(*     requests 1, 2, ... in order (program counter hpc);                  *)
(*   - one worker per ServerThread object, in ServerThread::run (wpc);     *)
(*   - the SimpleTimer thread, which on an expiry emits `timeout' with the *)
(*     timer's mutex held and so runs timeoutOnThread itself (tpc): the    *)
(*     pool's slot has no owner object, hence no thread to be queued to.   *)
(*                                                                         *)
(* A ServerThread and the timer that bounds its idle time are created      *)
(* together; both go by the number the pool gives the thread.              *)
(***************************************************************************)
EXTENDS Naturals, Sequences, FiniteSets

CONSTANTS NumRequests,   \* bound: how many requests are handed to the pool
          PoolSizes      \* values Thread.MaxThreadSize may be configured to

ASSUME NumRequestsAssumption == NumRequests \in Nat
ASSUME PoolSizesAssumption == PoolSizes \subseteq Nat

Requests == 1..NumRequests
Threads == 1..NumRequests   \* a call creates at most one thread
None == 0                   \* no thread, no request

VARIABLES
  \* ServerThreadPool
  maxThreadSize,   \* _maxThreadSize
  lastId,          \* _lastId: threads created so far
  threadList,      \* keys of _threadList
  dataMutex,       \* owner of _dataMutex: "free", "http" or "timer"
  \* startNewOperation, on the HttpServer thread
  hpc,
  submitted,       \* requests handed over so far; the last one is in progress
  foundIdleThread,
  toScan,          \* entries of _threadList the scan has not visited
  thread,          \* the thread visited, or the new one: local `thread'
  \* ServerThread objects
  running, executing, queue,
  stopped,         \* queue_pc::stop was called on _queue
  wpc,
  task,            \* the function popped, as the request it serves
  \* SimpleTimer, as far as the pool sees it
  armed,           \* timers that run and have not expired since (re)started
  timerMutex,      \* owner of SimpleTimer::_mutex: "free" or "timer"
  tpc,
  expired,         \* the timer being reported: item.first
  \* history
  finished         \* requests whose handler returned

poolVars == <<maxThreadSize, lastId, threadList, dataMutex>>
httpVars == <<hpc, submitted, foundIdleThread, toScan, thread>>
workerVars == <<running, executing, queue, stopped, wpc, task>>
timerVars == <<armed, timerMutex, tpc, expired>>
vars == <<poolVars, httpVars, workerVars, timerVars, finished>>

\* All but one program counter.
exceptHpc == <<poolVars, submitted, foundIdleThread, toScan, thread,
               workerVars, timerVars, finished>>
exceptWpc == <<poolVars, httpVars, running, executing, queue, stopped, task,
               timerVars, finished>>
exceptTpc == <<poolVars, httpVars, workerVars, armed, timerMutex, expired,
               finished>>

HttpPCs == {"idle", "size", "wait", "blocking", "blocked", "lock", "scan",
            "push", "rearm", "create", "insert", "start", "pushNew",
            "rearmNew", "release", "stop", "flags", "join"}
WorkerPCs == {"unborn", "created", "loop", "waitPop", "pop", "lock", "run",
              "exit"}
TimerPCs == {"idle", "lock", "find", "data", "erase", "stop", "flags", "join",
             "unlock", "notify", "release"}

TypeOK ==
  /\ maxThreadSize \in PoolSizes
  /\ lastId \in 0..NumRequests
  /\ threadList \subseteq Threads
  /\ dataMutex \in {"free", "http", "timer"}
  /\ hpc \in HttpPCs
  /\ submitted \in 0..NumRequests
  /\ foundIdleThread \in BOOLEAN
  /\ toScan \subseteq Threads
  /\ thread \in Threads \cup {None}
  /\ running \in [Threads -> BOOLEAN]
  /\ executing \in [Threads -> BOOLEAN]
  /\ queue \in [Threads -> Seq(Requests)]
  /\ stopped \in [Threads -> BOOLEAN]
  /\ wpc \in [Threads -> WorkerPCs]
  /\ task \in [Threads -> Requests \cup {None}]
  /\ armed \subseteq Threads
  /\ timerMutex \in {"free", "timer"}
  /\ tpc \in TimerPCs
  /\ expired \in Threads \cup {None}
  /\ finished \subseteq Requests

Init ==
  /\ maxThreadSize \in PoolSizes
  /\ lastId = 0
  /\ threadList = {}
  /\ dataMutex = "free"
  /\ hpc = "idle"
  /\ submitted = 0
  /\ foundIdleThread = FALSE
  /\ toScan = {}
  /\ thread = None
  /\ running = [w \in Threads |-> FALSE]
  /\ executing = [w \in Threads |-> FALSE]
  /\ queue = [w \in Threads |-> <<>>]
  /\ stopped = [w \in Threads |-> FALSE]
  /\ wpc = [w \in Threads |-> "unborn"]
  /\ task = [w \in Threads |-> None]
  /\ armed = {}
  /\ timerMutex = "free"
  /\ tpc = "idle"
  /\ expired = None
  /\ finished = {}
-----------------------------------------------------------------------------
(* ServerThread's operations, on the object of thread w.                   *)

\* Fault: isExecuting and execute do not lock.
LockedNever(w) == FALSE

\* A worker holds its object's _mutex exactly while it runs a function; every
\* other holder locks it, does one thing and unlocks it, in a single step.
Locked(w) == wpc[w] = "run"

\* isExecuting() answers once the mutex is free.
IsExecuting(w) == executing[w]

\* execute(func): push under the mutex.
Execute(w) == /\ ~Locked(w)
              /\ queue' = [queue EXCEPT ![w] = Append(@, submitted)]

\* Fault: ~ServerThread does not wake the worker.
StopNothing(w) == UNCHANGED workerVars

\* ~ServerThread, before the join: first the queue is stopped ...
StopQueue(w) == /\ stopped' = [stopped EXCEPT ![w] = TRUE]
                /\ UNCHANGED <<running, executing, queue, wpc, task>>

\* ... then both flags are cleared, without the mutex.
ClearFlags(w) == /\ running' = [running EXCEPT ![w] = FALSE]
                 /\ executing' = [executing EXCEPT ![w] = FALSE]
                 /\ UNCHANGED <<queue, stopped, wpc, task>>

\* Fault: the thread is detached instead of joined.
JoinableAlways(w) == TRUE

\* The join returns when run() has returned.
Joinable(w) == wpc[w] = "exit"
-----------------------------------------------------------------------------
(* The HttpServer thread in startNewOperation.                             *)

\* The next request is delivered to newRequestReceived, which calls the pool.
Submit ==
  /\ hpc = "idle"
  /\ submitted < NumRequests
  /\ submitted' = submitted + 1
  /\ foundIdleThread' = FALSE
  /\ hpc' = "size"
  /\ UNCHANGED <<poolVars, toScan, thread, workerVars, timerVars, finished>>

\* Fault: a request is turned away when the pool is full.
ReadSizeRejecting ==
  /\ hpc = "size"
  /\ dataMutex = "free"
  /\ hpc' = IF Cardinality(threadList) = maxThreadSize THEN "idle" ELSE "lock"
  /\ UNCHANGED exceptHpc

\* The size is read under _dataMutex and compared with the limit after it.
ReadSize ==
  /\ hpc = "size"
  /\ dataMutex = "free"
  /\ hpc' = IF Cardinality(threadList) = maxThreadSize THEN "wait" ELSE "lock"
  /\ UNCHANGED exceptHpc

\* The wait's predicate reads the size without _dataMutex.
CheckPredicate ==
  /\ hpc = "wait"
  /\ hpc' = IF Cardinality(threadList) # maxThreadSize
            THEN "lock" ELSE "blocking"
  /\ UNCHANGED exceptHpc

\* The caller goes to sleep on _condVar.  The notifier never takes _condMutex,
\* so its notify may fall between CheckPredicate and this step.
Block ==
  /\ hpc = "blocking"
  /\ hpc' = "blocked"
  /\ UNCHANGED exceptHpc

\* A condition variable may wake its waiter for no reason.
SpuriousWakeup ==
  /\ hpc = "blocked"
  /\ hpc' = "wait"
  /\ UNCHANGED exceptHpc

LockForScan ==
  /\ hpc = "lock"
  /\ dataMutex = "free"
  /\ dataMutex' = "http"
  /\ toScan' = threadList
  /\ hpc' = "scan"
  /\ UNCHANGED <<maxThreadSize, lastId, threadList, submitted,
                 foundIdleThread, thread, workerVars, timerVars, finished>>

\* The loop visits the entries in the order of their keys, all of them: it does
\* not stop at the first idle thread.  isExecuting waits for the thread's mutex.
ScanThread ==
  /\ hpc = "scan"
  /\ \E w \in toScan :
       /\ \A v \in toScan : w <= v
       /\ ~Locked(w)
       /\ toScan' = toScan \ {w}
       /\ thread' = w
       /\ hpc' = IF IsExecuting(w) THEN "scan" ELSE "push"
       /\ foundIdleThread' = (foundIdleThread \/ ~IsExecuting(w))
  /\ UNCHANGED <<poolVars, submitted, workerVars, timerVars, finished>>

PushIdle ==
  /\ hpc = "push"
  /\ Execute(thread)
  /\ hpc' = "rearm"
  /\ UNCHANGED <<poolVars, submitted, foundIdleThread, toScan, thread,
                 running, executing, stopped, wpc, task, timerVars, finished>>

\* SimpleTimer::restart needs the timer's mutex while _dataMutex is held.
RearmIdle ==
  /\ hpc = "rearm"
  /\ timerMutex = "free"
  /\ armed' = armed \cup {thread}
  /\ hpc' = "scan"
  /\ UNCHANGED <<poolVars, submitted, foundIdleThread, toScan, thread,
                 workerVars, timerMutex, tpc, expired, finished>>

EndScan ==
  /\ hpc = "scan"
  /\ toScan = {}
  /\ dataMutex' = "free"
  /\ thread' = None
  /\ hpc' = IF foundIdleThread THEN "idle" ELSE "create"
  /\ UNCHANGED <<maxThreadSize, lastId, threadList, submitted,
                 foundIdleThread, toScan, workerVars, timerVars, finished>>

\* make_shared<ServerThread>(_lastId++), then SimpleTimer::start for it.
CreateThread ==
  /\ hpc = "create"
  /\ timerMutex = "free"
  /\ lastId' = lastId + 1
  /\ thread' = lastId'
  /\ wpc' = [wpc EXCEPT ![lastId'] = "created"]
  /\ armed' = armed \cup {lastId'}
  /\ hpc' = "insert"
  /\ UNCHANGED <<maxThreadSize, threadList, dataMutex, submitted,
                 foundIdleThread, toScan, running, executing, queue, stopped,
                 task, timerMutex, tpc, expired, finished>>

InsertThread ==
  /\ hpc = "insert"
  /\ dataMutex = "free"
  /\ threadList' = threadList \cup {thread}
  /\ hpc' = "start"
  /\ UNCHANGED <<maxThreadSize, lastId, dataMutex, submitted, foundIdleThread,
                 toScan, thread, workerVars, timerVars, finished>>

\* ServerThread::start
StartThread ==
  /\ hpc = "start"
  /\ running' = [running EXCEPT ![thread] = TRUE]
  /\ wpc' = [wpc EXCEPT ![thread] = "loop"]
  /\ hpc' = "pushNew"
  /\ UNCHANGED <<poolVars, submitted, foundIdleThread, toScan, thread,
                 executing, queue, stopped, task, timerVars, finished>>

PushNew ==
  /\ hpc = "pushNew"
  /\ Execute(thread)
  /\ hpc' = "rearmNew"
  /\ UNCHANGED <<poolVars, submitted, foundIdleThread, toScan, thread,
                 running, executing, stopped, wpc, task, timerVars, finished>>

RearmNew ==
  /\ hpc = "rearmNew"
  /\ timerMutex = "free"
  /\ armed' = armed \cup {thread}
  /\ hpc' = "release"
  /\ UNCHANGED <<poolVars, submitted, foundIdleThread, toScan, thread,
                 workerVars, timerMutex, tpc, expired, finished>>

\* Fault: a thread that was erased meanwhile is replaced by another one.
ReleaseRetrying ==
  /\ hpc = "release"
  /\ IF thread \in threadList
     THEN hpc' = "idle" /\ thread' = None
     ELSE hpc' = "create" /\ UNCHANGED thread
  /\ UNCHANGED <<poolVars, submitted, foundIdleThread, toScan,
                 workerVars, timerVars, finished>>

\* The local shared_ptr goes out of scope.  If the entry has been erased in the
\* meantime it was the last reference, and the destructor runs here.
ReleaseNew ==
  /\ hpc = "release"
  /\ IF thread \in threadList
     THEN hpc' = "idle" /\ thread' = None
     ELSE hpc' = "stop" /\ UNCHANGED thread
  /\ UNCHANGED <<poolVars, submitted, foundIdleThread, toScan,
                 workerVars, timerVars, finished>>

HttpStop ==
  /\ hpc = "stop"
  /\ StopQueue(thread)
  /\ hpc' = "flags"
  /\ UNCHANGED <<poolVars, submitted, foundIdleThread, toScan, thread,
                 timerVars, finished>>

HttpClearFlags ==
  /\ hpc = "flags"
  /\ ClearFlags(thread)
  /\ hpc' = "join"
  /\ UNCHANGED <<poolVars, submitted, foundIdleThread, toScan, thread,
                 timerVars, finished>>

HttpJoin ==
  /\ hpc = "join"
  /\ Joinable(thread)
  /\ thread' = None
  /\ hpc' = "idle"
  /\ UNCHANGED <<poolVars, submitted, foundIdleThread, toScan, workerVars,
                 timerVars, finished>>
-----------------------------------------------------------------------------
(* A worker in ServerThread::run.                                          *)

\* while (_running)
WorkerLoop(w) ==
  /\ wpc[w] = "loop"
  /\ wpc' = [wpc EXCEPT ![w] = IF running[w] THEN "waitPop" ELSE "exit"]
  /\ UNCHANGED exceptWpc

\* queue_pc::waitPop returns true when there is an element.
WorkerWake(w) ==
  /\ wpc[w] = "waitPop"
  /\ queue[w] # <<>>
  /\ wpc' = [wpc EXCEPT ![w] = "pop"]
  /\ UNCHANGED exceptWpc

\* It returns false once the queue is stopped.  Which of the two it is for a
\* stopped queue that still has elements, the callers do not say: either.
WorkerStopped(w) ==
  /\ wpc[w] = "waitPop"
  /\ stopped[w]
  /\ wpc' = [wpc EXCEPT ![w] = "loop"]
  /\ UNCHANGED exceptWpc

\* The function is popped before the mutex is taken: for a moment the thread
\* has work to do and does not look busy.
WorkerPop(w) ==
  /\ wpc[w] = "pop"
  /\ task' = [task EXCEPT ![w] = Head(queue[w])]
  /\ queue' = [queue EXCEPT ![w] = Tail(@)]
  /\ wpc' = [wpc EXCEPT ![w] = "lock"]
  /\ UNCHANGED <<poolVars, httpVars, running, executing, stopped, timerVars,
                 finished>>

\* The handler begins.
WorkerBegin(w) ==
  /\ wpc[w] = "lock"
  /\ executing' = [executing EXCEPT ![w] = TRUE]
  /\ wpc' = [wpc EXCEPT ![w] = "run"]
  /\ UNCHANGED <<poolVars, httpVars, running, queue, stopped, task, timerVars,
                 finished>>

\* The handler returns; the mutex is released at the end of the loop's body.
WorkerFinish(w) ==
  /\ wpc[w] = "run"
  /\ finished' = finished \cup {task[w]}
  /\ executing' = [executing EXCEPT ![w] = FALSE]
  /\ task' = [task EXCEPT ![w] = None]
  /\ wpc' = [wpc EXCEPT ![w] = "loop"]
  /\ UNCHANGED <<poolVars, httpVars, running, queue, stopped, timerVars>>
-----------------------------------------------------------------------------
(* The SimpleTimer thread: run() and, through the signal, timeoutOnThread.  *)

\* A count reaches zero.  The loop reads and writes it without the mutex.
Expire ==
  /\ tpc = "idle"
  /\ \E w \in armed : armed' = armed \ {w} /\ expired' = w
  /\ tpc' = "lock"
  /\ UNCHANGED <<poolVars, httpVars, workerVars, timerMutex, finished>>

TimerLock ==
  /\ tpc = "lock"
  /\ timerMutex = "free"
  /\ timerMutex' = "timer"
  /\ tpc' = "find"
  /\ UNCHANGED <<poolVars, httpVars, workerVars, armed, expired, finished>>

\* _threadList.find(id), without _dataMutex.  Only this thread erases entries.
FindThread ==
  /\ tpc = "find"
  /\ tpc' = IF expired \in threadList THEN "data" ELSE "release"
  /\ UNCHANGED exceptTpc

LockForErase ==
  /\ tpc = "data"
  /\ dataMutex = "free"
  /\ dataMutex' = "timer"
  /\ tpc' = "erase"
  /\ UNCHANGED <<maxThreadSize, lastId, threadList, httpVars, workerVars,
                 armed, timerMutex, expired, finished>>

\* erase(id).  While startNewOperation still holds the thread it has created,
\* only the entry goes; otherwise the destructor runs first, inside the erase.
EraseEntry ==
  /\ tpc = "erase"
  /\ IF thread = expired
     THEN threadList' = threadList \ {expired} /\ tpc' = "unlock"
     ELSE tpc' = "stop" /\ UNCHANGED threadList
  /\ UNCHANGED <<maxThreadSize, lastId, dataMutex, httpVars, workerVars,
                 armed, timerMutex, expired, finished>>

TimerStop ==
  /\ tpc = "stop"
  /\ StopQueue(expired)
  /\ tpc' = "flags"
  /\ UNCHANGED <<poolVars, httpVars, armed, timerMutex, expired, finished>>

TimerClearFlags ==
  /\ tpc = "flags"
  /\ ClearFlags(expired)
  /\ tpc' = "join"
  /\ UNCHANGED <<poolVars, httpVars, armed, timerMutex, expired, finished>>

\* The map's node is gone, and its size is one less, after the destructor.
TimerJoin ==
  /\ tpc = "join"
  /\ Joinable(expired)
  /\ threadList' = threadList \ {expired}
  /\ tpc' = "unlock"
  /\ UNCHANGED <<maxThreadSize, lastId, dataMutex, httpVars, workerVars,
                 armed, timerMutex, expired, finished>>

UnlockData ==
  /\ tpc = "unlock"
  /\ dataMutex' = "free"
  /\ tpc' = "notify"
  /\ UNCHANGED <<maxThreadSize, lastId, threadList, httpVars, workerVars,
                 armed, timerMutex, expired, finished>>

\* notify_one wakes the caller if it sleeps, and is lost if it does not yet.
Notify ==
  /\ tpc = "notify"
  /\ hpc' = IF hpc = "blocked" THEN "wait" ELSE hpc
  /\ tpc' = "release"
  /\ UNCHANGED <<poolVars, submitted, foundIdleThread, toScan, thread,
                 workerVars, armed, timerMutex, expired, finished>>

TimerRelease ==
  /\ tpc = "release"
  /\ timerMutex' = "free"
  /\ expired' = None
  /\ tpc' = "idle"
  /\ UNCHANGED <<poolVars, httpVars, workerVars, armed, finished>>
-----------------------------------------------------------------------------
StartNewOperation ==
  \/ ReadSize \/ CheckPredicate \/ Block \/ LockForScan \/ ScanThread
  \/ PushIdle \/ RearmIdle \/ EndScan \/ CreateThread \/ InsertThread
  \/ StartThread \/ PushNew \/ RearmNew \/ ReleaseNew
  \/ HttpStop \/ HttpClearFlags \/ HttpJoin

Worker(w) ==
  \/ WorkerLoop(w) \/ WorkerWake(w) \/ WorkerStopped(w) \/ WorkerPop(w)
  \/ WorkerBegin(w) \/ WorkerFinish(w)

TimeoutOnThread ==
  \/ TimerLock \/ FindThread \/ LockForErase \/ EraseEntry \/ TimerStop
  \/ TimerClearFlags \/ TimerJoin \/ UnlockData \/ Notify \/ TimerRelease

Next ==
  \/ Submit \/ SpuriousWakeup \/ StartNewOperation
  \/ \E w \in Threads : Worker(w)
  \/ Expire \/ TimeoutOnThread

Spec == Init /\ [][Next]_vars

\* Every thread that can run does, and a running timer runs out.  No fairness on
\* the arrival of requests and none on spurious wake-ups.
Fairness ==
  /\ WF_vars(StartNewOperation)
  /\ \A w \in Threads : WF_vars(Worker(w))
  /\ WF_vars(Expire)
  /\ WF_vars(TimeoutOnThread)

FairSpec == Spec /\ Fairness
-----------------------------------------------------------------------------
(* Properties.                                                             *)

Live(w) == wpc[w] \notin {"unborn", "exit"}

\* There is never more than one thread in the pool that has not returned from
\* run(), whatever Thread.MaxThreadSize says.  isExecuting waits for a busy
\* thread instead of reporting it, so startNewOperation never finds all threads
\* busy and makes a second one only after the first has been joined.  It is why
\* visiting every thread of the list does not run a request twice.
OneLiveThread ==
  /\ \A v, w \in Threads : Live(v) /\ Live(w) => v = w
  /\ \A v, w \in threadList : v = w

Queued(r, w) == \E i \in 1..Len(queue[w]) : queue[w][i] = r

\* r went to a thread that left run() without popping it.
Dropped(r) == \E w \in Threads : wpc[w] = "exit" /\ Queued(r, w)

Running(r) == \E w \in Threads : wpc[w] = "run" /\ task[w] = r

\* The last request submitted, as long as no thread has been given it.
Held(r) ==
  /\ r = submitted
  /\ \/ hpc \in {"size", "wait", "blocking", "blocked", "lock", "create",
                  "insert", "start", "pushNew", "push"}
     \/ hpc = "scan" /\ ~foundIdleThread

\* No request handed over by newRequestReceived vanishes: it is still held by
\* startNewOperation, waits in the queue of a thread, has been popped, has been
\* handled, or was left behind by a thread that its idle timer ended.
NoRequestVanishes ==
  \A r \in 1..submitted :
    \/ Held(r)
    \/ r \in finished
    \/ \E w \in Threads : Queued(r, w) \/ task[w] = r

StatusOf(r) ==
  CASE Running(r) -> "running"
    [] ~Running(r) /\ r \in finished -> "done"
    [] ~Running(r) /\ r \notin finished /\ Dropped(r) -> "dropped"
    [] ~Running(r) /\ r \notin finished /\ ~Dropped(r) /\ r <= submitted ->
         "pending"
    [] OTHER -> "new"

Abstract == INSTANCE SerialExecutor
              WITH status <- [r \in Requests |-> StatusOf(r)]

\* The pool handles requests one at a time, in order, each at most once, and
\* never abandons a handler: ~ServerThread joins, and the scan that runs every
\* idle thread never meets two of them.
ImplementsSerialExecutor == Abstract!Spec

\* startNewOperation holds _dataMutex and wants the timer's mutex; the timer
\* thread holds the timer's mutex and wants _dataMutex.
LockOrderDeadlock == hpc = "rearm" /\ tpc = "data"

\* startNewOperation sleeps although there is room, and its wake-up is gone.
MissedNotify ==
  hpc = "blocked" /\ Cardinality(threadList) # maxThreadSize /\ tpc = "idle"

\* Every request handed over is handled in the end, unless it is dropped with a
\* thread whose idle time ran out or startNewOperation is stuck for one of the
\* two reasons above: nothing else can keep a request waiting for ever.
ServedUnlessStuck ==
  \A r \in Requests :
    (submitted >= r) ~> (\/ r \in finished \/ Dropped(r)
                        \/ LockOrderDeadlock \/ MissedNotify)

\* "the operations given to this class should not take longer than a second"
\* (SimpleTimer.h): what the pool has the timer thread do comes to an end.
TimerOperationEnds == (tpc # "idle") ~> (tpc = "idle")

\* "Deleting idle thread" (timeoutOnThread): it is not one that runs a handler,
\* with more requests waiting in its queue.
DeletedThreadIsIdle ==
  tpc = "erase" => ~(executing[expired] /\ queue[expired] # <<>>)

\* "Max thread size is reached, waiting for another thread to finish"
\* (startNewOperation): all threads finish, so the wait ends.
WaitEnds == (hpc = "blocked") ~> (hpc # "blocked")
=============================================================================
