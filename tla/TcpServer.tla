------------------------------ MODULE TcpServer ------------------------------
(***************************************************************************)
(* The TCP server: its poll loop, its tables of connections, the TcpSocket *)
(* objects and the idle timeout that closes them.                          *)
(*                                                                         *)
(* Two threads touch the tables.  The TcpServer thread (pc) polls, accepts *)
(* and reads.  timeoutOnSocket is a slot of an object that belongs to the  *)
(* HttpServer, so it runs on the HttpServer thread (hpc), some time after  *)
(* the SimpleTimer thread has emitted the timeout.                         *)
(*                                                                         *)
(* The kernel is modelled as far as the program can tell: a descriptor is  *)
(* free again once it has been closed, accept returns the lowest free one, *)
(* shutdown does not free it, accepted sockets block.  Received data are   *)
(* counted in halves of the INCOMING_DATA_SIZE buffer.                     *)
(*                                                                         *)
(* Two locks of other components make the threads wait.  A pool thread     *)
(* that sends a response holds the socket's mutex until the client has     *)
(* read enough of it (writing).  SimpleTimer's mutex is held while the     *)
(* timer reports, and for ever once the pool's slot waits for ever         *)
(* (timerStuck; ServerThreadPool has the deadlock).  A hold that ends is   *)
(* only a delay and has no step of its own.  A step that takes one of the  *)
(* locks half way waits before its first half instead: what that half has  *)
(* written nobody reads before the rest is done.                           *)
(*                                                                         *)
(* A connection, its TcpSocket object and the timer started for it go by   *)
(* the same number.                                                        *)
(***************************************************************************)
EXTENDS Integers, Sequences, SequencesExt

CONSTANTS NumConns,    \* bound: how many clients ever connect
          MaxSends,    \* bound: how many times they send, in all
          MaxTimeouts, \* bound: how many expiries wait for the HttpServer thread
          Limits       \* what _maxConnSize and the descriptor limit may be

ASSUME NumConnsAssumption == NumConns \in Nat
ASSUME MaxSendsAssumption == MaxSends \in Nat
ASSUME LimitsAssumption == Limits \subseteq Int \X Nat

Conns == 1..NumConns
Fds == 1..NumConns    \* a connection has at most one descriptor
None == 0

VARIABLES
  \* the kernel and the clients
  client,      \* each client: "away", "open", "closed" (FIN) or "reset"
  backlog,     \* connections not yet accepted
  fds,         \* descriptor table: the connection a descriptor stands for
  shut,        \* connections the server has shut down
  rx,          \* unread half buffers
  sends,       \* sends so far
  maxFds,      \* descriptors the process may still open (RLIMIT_NOFILE)
  \* TcpServer
  maxConnSize, \* _maxConnSize
  slots,       \* _socketList without entry 0: [fd, revents]
  serverEvent, \* entry 0 has POLLIN
  active,      \* _activeConnections
  timeoutOf,   \* _socketTimeoutMap
  pc,
  i,           \* the client slot processSockets is at
  conn,        \* the connection being read or removed
  watched,     \* connections the blocked poll has registered with
  \* TcpSocket objects
  sockFd,      \* _socketFd
  state,       \* _connectionState, "none" before the object exists
  \* SimpleTimer: existing timers, running ones, expiries on their way
  timers, armed, timeouts,
  timerStuck,  \* its mutex is held for ever
  \* timeoutOnSocket on the HttpServer thread
  hpc, target,
  \* the handlers on the pool's threads
  owed,        \* connections that have sent something and have no answer yet
  writing,     \* connections on which a send waits, with the socket's mutex
  \* history
  alive,       \* FALSE once an exception, SIGPIPE or a bad access ended the program
  freed        \* TRUE once a timeout has freed a descriptor

kernelVars == <<client, backlog, fds, shut, rx, sends>>
tableVars == <<slots, active, timeoutOf>>
loopVars == <<serverEvent, pc, i, conn, watched>>
socketVars == <<sockFd, state>>
timerVars == <<timers, armed, timeouts, timerStuck>>
httpVars == <<hpc, target>>
handlerVars == <<owed, writing>>
limitVars == <<maxConnSize, maxFds>>
historyVars == <<alive, freed>>
vars == <<limitVars, kernelVars, tableVars, loopVars, socketVars, timerVars,
          httpVars, handlerVars, historyVars>>

Revents == {"none", "IN", "HUP", "NVAL"}

TypeOK ==
  /\ <<maxConnSize, maxFds>> \in Limits
  /\ client \in [Conns -> {"away", "open", "closed", "reset"}]
  /\ backlog \in Seq(Conns)
  /\ fds \in [Fds -> Conns \cup {None}]
  /\ shut \subseteq Conns
  /\ rx \in [Conns -> 0..2]
  /\ sends \in 0..MaxSends
  /\ slots \in Seq([fd : Fds, revents : Revents])
  /\ serverEvent \in BOOLEAN
  /\ active \in [Fds -> Conns \cup {None}]
  /\ timeoutOf \in [Fds -> Conns \cup {None}]
  /\ pc \in {"poll", "blocked", "accept", "clients", "reading", "recv", "closing",
             "ended"}
  /\ i \in 1..(Len(slots) + 2)
  /\ conn \in Conns \cup {None}
  /\ watched \subseteq Conns
  /\ sockFd \in [Conns -> Fds \cup {None}]
  /\ state \in [Conns -> {"none", "CONNECTED", "NOT_CONNECTED"}]
  /\ armed \subseteq timers /\ timers \subseteq Conns
  /\ timeouts \in Seq(Conns)
  /\ timerStuck \in BOOLEAN
  /\ owed \subseteq Conns /\ writing \subseteq Conns
  /\ hpc \in {"idle", "close"}
  /\ target \in Conns \cup {None}
  /\ alive \in BOOLEAN
  /\ freed \in BOOLEAN

\* run() allocates _maxConnSize + 1 entries and writes entry 0.
Allocated == maxConnSize + 1

\* What may be left of the program after an access to entry k of _socketList:
\* beyond the end the behaviour is undefined.
AfterAccess(k) == IF k < Allocated THEN {TRUE} ELSE BOOLEAN

Init ==
  /\ \E l \in Limits : maxConnSize = l[1] /\ maxFds = l[2]
  /\ client = [c \in Conns |-> "away"]
  /\ backlog = <<>>
  /\ fds = [f \in Fds |-> None]
  /\ shut = {}
  /\ rx = [c \in Conns |-> 0]
  /\ sends = 0
  /\ slots = <<>>
  /\ serverEvent = FALSE
  /\ active = [f \in Fds |-> None]
  /\ timeoutOf = [f \in Fds |-> None]
  /\ pc = "poll"
  /\ i = 1
  /\ conn = None
  /\ watched = {}
  /\ sockFd = [c \in Conns |-> None]
  /\ state = [c \in Conns |-> "none"]
  /\ timers = {} /\ armed = {} /\ timeouts = <<>>
  /\ timerStuck = FALSE
  /\ owed = {} /\ writing = {}
  /\ hpc = "idle"
  /\ target = None
  /\ alive \in (IF Allocated < 0 THEN {FALSE} ELSE AfterAccess(0))
  /\ freed = FALSE
-----------------------------------------------------------------------------
(* The clients.                                                            *)

\* Clients are numbered in the order in which they connect.
Connect(c) ==
  /\ client[c] = "away"
  /\ \A b \in Conns : b < c => client[b] # "away"
  /\ client' = [client EXCEPT ![c] = "open"]
  /\ backlog' = Append(backlog, c)
  /\ UNCHANGED <<fds, shut, rx, sends, tableVars, loopVars, socketVars,
                 timerVars, httpVars, handlerVars, historyVars>>

Send(c) ==
  /\ client[c] = "open"
  /\ sends < MaxSends
  /\ rx[c] = 0
  /\ sends' = sends + 1
  /\ \E n \in 1..2 : rx' = [rx EXCEPT ![c] = n]
  /\ UNCHANGED <<client, backlog, fds, shut, tableVars, loopVars, socketVars,
                 timerVars, httpVars, handlerVars, historyVars>>

HangUp(c) ==
  /\ client[c] = "open"
  /\ \E how \in {"closed", "reset"} : client' = [client EXCEPT ![c] = how]
  /\ UNCHANGED <<backlog, fds, shut, rx, sends, tableVars, loopVars,
                 socketVars, timerVars, httpVars, handlerVars, historyVars>>
-----------------------------------------------------------------------------
(* The TcpServer thread: TcpServer::run.                                   *)

\* What poll reports of a connection.
FileEvents(c) ==
  IF c \in shut \/ client[c] = "reset" THEN "HUP"
  ELSE IF rx[c] > 0 \/ client[c] = "closed" THEN "IN" ELSE "none"

FdEvents(f) == IF fds[f] = None THEN "NVAL" ELSE FileEvents(fds[f])

Polled == [k \in DOMAIN slots |->
             [slots[k] EXCEPT !.revents = FdEvents(slots[k].fd)]]

SomeClientEvent == \E k \in DOMAIN slots : FdEvents(slots[k].fd) # "none"

SomeEvent == backlog # <<>> \/ SomeClientEvent

\* poll has something to report ...
Poll ==
  /\ pc = "poll"
  /\ SomeEvent
  /\ slots' = Polled
  /\ serverEvent' = (backlog # <<>>)
  /\ pc' = "accept"
  /\ UNCHANGED <<kernelVars, active, timeoutOf, i, conn, watched, socketVars,
                 timerVars, httpVars, handlerVars, historyVars>>

\* ... or goes to sleep on the connections its descriptors stand for now ...
PollBlock ==
  /\ pc = "poll"
  /\ ~SomeEvent
  /\ watched' = {fds[slots[k].fd] : k \in DOMAIN slots}
  /\ pc' = "blocked"
  /\ UNCHANGED <<kernelVars, tableVars, serverEvent, i, conn, socketVars,
                 timerVars, httpVars, handlerVars, historyVars>>

\* ... until one of them has an event.  A descriptor closed meanwhile by the
\* other thread does not wake it.
PollWake ==
  /\ pc = "blocked"
  /\ backlog # <<>> \/ \E c \in watched : FileEvents(c) # "none"
  /\ pc' = "poll"
  /\ watched' = {}
  /\ UNCHANGED <<kernelVars, tableVars, serverEvent, i, conn, socketVars,
                 timerVars, httpVars, handlerVars, historyVars>>

\* poll fails (a signal, no memory): run() returns, and with it the thread.
PollError ==
  /\ pc \in {"poll", "blocked"}
  /\ pc' = "ended"
  /\ UNCHANGED <<kernelVars, tableVars, serverEvent, i, conn, watched,
                 socketVars, timerVars, httpVars, handlerVars, historyVars>>

\* accept returns the lowest descriptor that is free ...
Free(f) == f <= maxFds /\ fds[f] = None

LowestFree(f) == Free(f) /\ \A g \in Fds : Free(g) => f <= g

\* ... or -1 when there is none; the connection stays in the backlog.
NoDescriptor == \A f \in Fds : ~Free(f)

\* std::map::insert leaves an entry that is there alone.
Inserted(map, f, c) == IF map[f] = None THEN [map EXCEPT ![f] = c] ELSE map

\* Fault: the listening socket is not counted.
FullWithoutServer == Len(slots) = maxConnSize

\* _socketListSize == _maxConnSize: entry 0 counts.
Full == Len(slots) + 1 = maxConnSize

\* getpeername fails for a connection that is gone.
OpenState(c) == IF client[c] = "reset" THEN "NOT_CONNECTED" ELSE "CONNECTED"

Accept ==
  /\ pc = "accept" /\ serverEvent
  /\ backlog # <<>>
  /\ ~Full
  /\ ~timerStuck   \* start
  /\ \E f \in Fds : LET c == Head(backlog) IN
        /\ LowestFree(f)
        /\ fds' = [fds EXCEPT ![f] = c]
        /\ slots' = Append(slots, [fd |-> f, revents |-> "none"])
        /\ sockFd' = [sockFd EXCEPT ![c] = f]
        /\ state' = [state EXCEPT ![c] = OpenState(c)]
        /\ active' = Inserted(active, f, c)
        /\ timers' = timers \cup {c}
        /\ armed' = armed \cup {c}
        /\ timeoutOf' = Inserted(timeoutOf, f, c)
  /\ backlog' = Tail(backlog)
  /\ alive' \in AfterAccess(Len(slots) + 1)
  /\ UNCHANGED <<client, shut, rx, sends, loopVars, timeouts, timerStuck,
                 httpVars, handlerVars, freed>>

\* The new connection is closed, by the thread that is not its own: shut down.
AcceptAndReject ==
  /\ pc = "accept" /\ serverEvent
  /\ backlog # <<>>
  /\ Full
  /\ \E f \in Fds : LET c == Head(backlog) IN
        /\ LowestFree(f)
        /\ fds' = [fds EXCEPT ![f] = c]
        /\ sockFd' = [sockFd EXCEPT ![c] = f]
        /\ state' = [state EXCEPT ![c] = "NOT_CONNECTED"]
        /\ shut' = shut \cup {c}
  /\ backlog' = Tail(backlog)
  /\ UNCHANGED <<client, rx, sends, tableVars, loopVars, timerVars, httpVars,
                 handlerVars, historyVars>>

AcceptEnd ==
  /\ pc = "accept"
  /\ serverEvent => backlog = <<>> \/ NoDescriptor
  /\ serverEvent' = FALSE
  /\ pc' = "clients"
  /\ UNCHANGED <<kernelVars, tableVars, i, conn, watched, socketVars,
                 timerVars, httpVars, handlerVars, historyVars>>

NextSlot == pc' = "clients" /\ i' = i + 1 /\ conn' = None

\* Nothing reported for the slot.
SkipSlot ==
  /\ pc = "clients" /\ i <= Len(slots)
  /\ slots[i].revents = "none"
  /\ NextSlot
  /\ UNCHANGED <<kernelVars, tableVars, serverEvent, watched, socketVars,
                 timerVars, httpVars, handlerVars, historyVars>>

\* The end of the list.  The next poll overwrites revents: they are forgotten.
EndOfSlots ==
  /\ pc = "clients" /\ i > Len(slots)
  /\ slots' = [k \in DOMAIN slots |-> [slots[k] EXCEPT !.revents = "none"]]
  /\ i' = 1
  /\ pc' = "poll"
  /\ UNCHANGED <<kernelVars, active, timeoutOf, serverEvent, conn, watched,
                 socketVars, timerVars, httpVars, handlerVars, historyVars>>

\* _activeConnections.at throws: std::out_of_range leaves run().
UnknownDescriptor ==
  /\ pc = "clients" /\ i <= Len(slots)
  /\ slots[i].revents # "none"
  /\ active[slots[i].fd] = None
  /\ alive' = FALSE
  /\ UNCHANGED <<kernelVars, tableVars, loopVars, socketVars, timerVars,
                 httpVars, handlerVars, freed>>

\* The first entry with the descriptor.
FirstWith(k, f) == slots[k].fd = f /\ \A l \in 1..(k - 1) : slots[l].fd # f

\* Fault: the move starts one entry too late.
RemovedNext(k) ==
  [j \in 1..(Len(slots) - 1) |->
     IF j <= k THEN slots[j] ELSE [fd |-> slots[j + 1].fd, revents |-> "none"]]

\* removeFromSocketList: the entries after entry k move up and lose the events
\* poll has reported for them.
Removed(k) ==
  [j \in 1..(Len(slots) - 1) |->
     IF j < k THEN slots[j] ELSE [fd |-> slots[j + 1].fd, revents |-> "none"]]

\* connectionClosed and socketError: removeConnection, as far as the tables.
\* _socketTimeoutMap keeps its entry.  getSocketFd locks the socket's mutex.
RemoveFromTables ==
  /\ pc = "clients" /\ i <= Len(slots)
  /\ slots[i].revents \in {"HUP", "NVAL"}
  /\ ~timerStuck   \* remove
  /\ LET f == slots[i].fd
     IN /\ active[f] # None
        /\ active[f] \notin writing
        /\ conn' = active[f]
        /\ \E k \in DOMAIN slots : FirstWith(k, f) /\ slots' = Removed(k)
        /\ timers' = timers \ {timeoutOf[f]}
        /\ armed' = armed \ {timeoutOf[f]}
        /\ active' = [active EXCEPT ![f] = None]
  /\ pc' = "closing"
  /\ alive' \in AfterAccess(Len(slots) + 1)
  /\ UNCHANGED <<kernelVars, timeoutOf, serverEvent, i, watched, socketVars,
                 timeouts, timerStuck, httpVars, handlerVars, freed>>

\* Fault: only the socket's state is changed.
ForgetOnly(c) ==
  state' = [state EXCEPT ![c] = "NOT_CONNECTED"] /\ UNCHANGED shut

\* TcpSocket::close on any thread but the HttpServer's: the descriptor stays.
Shutdown(c) ==
  /\ shut' = shut \cup ({fds[sockFd[c]]} \ {None})
  /\ state' = [state EXCEPT ![c] = "NOT_CONNECTED"]

CloseRemoved ==
  /\ pc = "closing"
  /\ conn \notin writing
  /\ Shutdown(conn)
  /\ NextSlot
  /\ UNCHANGED <<client, backlog, fds, rx, sends, tableVars, serverEvent,
                 watched, sockFd, timerVars, httpVars, handlerVars, historyVars>>

\* Fault: a timer that has been removed runs again.
RestartedBlindly(f) == armed \cup {timeoutOf[f]}

\* SimpleTimer::restart finds the timer, unless it has been removed.
Restarted(f) == armed \cup ({timeoutOf[f]} \cap timers)

\* newIncomingData: the timer is restarted ...
IncomingData ==
  /\ pc = "clients" /\ i <= Len(slots)
  /\ slots[i].revents = "IN"
  /\ ~timerStuck   \* restart
  /\ LET f == slots[i].fd
     IN /\ active[f] # None
        /\ armed' = Restarted(f)
        /\ conn' = active[f]
  /\ pc' = "reading"
  /\ UNCHANGED <<kernelVars, tableVars, serverEvent, i, watched, socketVars,
                 timers, timeouts, timerStuck, httpVars, handlerVars,
                 historyVars>>

\* ... and the socket is read unless it has been closed.  The read waits for the
\* socket's mutex, and holds it.
ReadFromSocket ==
  /\ pc = "reading"
  /\ conn \notin writing
  /\ IF state[conn] = "CONNECTED" THEN pc' = "recv" /\ UNCHANGED <<i, conn>>
     ELSE NextSlot
  /\ UNCHANGED <<kernelVars, tableVars, serverEvent, watched, socketVars,
                 timerVars, httpVars, handlerVars, historyVars>>

\* Fault: the place in the list is taken for the descriptor.
PeerAt == fds[i]

\* The connection behind the descriptor of the socket being read.
Peer == fds[sockFd[conn]]

\* A full buffer makes readFromSocket call recv again.  Without data recv waits:
\* the sockets accept returns are blocking.
Receive ==
  /\ pc = "recv"
  /\ Peer # None /\ rx[Peer] > 0
  /\ rx' = [rx EXCEPT ![Peer] = 0]
  /\ IF rx[Peer] = 2 THEN UNCHANGED <<pc, i, conn>> ELSE NextSlot
  /\ owed' = owed \cup {conn}
  /\ UNCHANGED <<client, backlog, fds, shut, sends, tableVars, serverEvent,
                 watched, socketVars, timerVars, httpVars, writing, historyVars>>

\* Fault: an orderly close is taken for "no incoming data".
ReceiveNothing ==
  /\ pc = "recv"
  /\ Peer # None /\ rx[Peer] = 0 /\ client[Peer] = "closed"
  /\ NextSlot
  /\ UNCHANGED <<kernelVars, tableVars, serverEvent, watched, socketVars,
                 timerVars, httpVars, handlerVars, historyVars>>

ReceiveClosed ==
  /\ pc = "recv"
  /\ Peer # None /\ rx[Peer] = 0
  /\ client[Peer] = "closed" \/ Peer \in shut
  /\ Shutdown(conn)
  /\ NextSlot
  /\ UNCHANGED <<client, backlog, fds, rx, sends, tableVars, serverEvent,
                 watched, sockFd, timerVars, httpVars, handlerVars, historyVars>>

ReceiveError ==
  /\ pc = "recv"
  /\ Peer # None => rx[Peer] = 0 /\ client[Peer] = "reset"
  /\ NextSlot
  /\ UNCHANGED <<kernelVars, tableVars, serverEvent, watched, socketVars,
                 timerVars, httpVars, handlerVars, historyVars>>
-----------------------------------------------------------------------------
(* The idle timeout.                                                       *)

\* The timer thread reports with the mutex held, to the pool as well, whose slot
\* may never return while a request is handed to the pool or answered there.
TimerSticks ==
  /\ owed # {} \/ writing # {}
  /\ timerStuck' = TRUE
  /\ UNCHANGED <<kernelVars, tableVars, loopVars, socketVars, timers, armed,
                 timeouts, httpVars, handlerVars, historyVars>>

\* SimpleTimer emits; the slot is queued for the HttpServer thread.
Expire(c) ==
  /\ c \in armed
  /\ ~timerStuck
  /\ Len(timeouts) < MaxTimeouts
  /\ armed' = armed \ {c}
  /\ timeouts' = Append(timeouts, c)
  /\ UNCHANGED <<kernelVars, tableVars, loopVars, socketVars, timers,
                 timerStuck, httpVars, handlerVars, historyVars>>

\* timeoutOnSocket looks for the timer in the values of _socketTimeoutMap.
LookUpTimeout ==
  /\ hpc = "idle" /\ timeouts # <<>>
  /\ timeouts' = Tail(timeouts)
  /\ LET found == {f \in Fds : timeoutOf[f] = Head(timeouts)}
     IN \/ /\ found = {}
           /\ UNCHANGED <<httpVars, alive>>
        \/ \E f \in found :
             IF active[f] = None   \* .at throws
             THEN alive' = FALSE /\ UNCHANGED httpVars
             ELSE hpc' = "close" /\ target' = active[f] /\ UNCHANGED alive
  /\ UNCHANGED <<kernelVars, tableVars, loopVars, socketVars, timers, armed,
                 timerStuck, handlerVars, freed>>

\* TcpSocket::close on the socket's own thread: the descriptor is freed.  It
\* waits for a read or a send in progress.
CloseTimedOut ==
  /\ hpc = "close"
  /\ ~(pc = "recv" /\ conn = target)
  /\ target \notin writing
  /\ fds' = [fds EXCEPT ![sockFd[target]] = None]
  /\ freed' = TRUE
  /\ state' = [state EXCEPT ![target] = "NOT_CONNECTED"]
  /\ hpc' = "idle" /\ target' = None
  /\ UNCHANGED <<client, backlog, shut, rx, sends, tableVars, loopVars, sockFd,
                 timerVars, handlerVars, alive>>
-----------------------------------------------------------------------------
(* The handlers that answer, on the pool's threads: TcpSocket::write.      *)

\* A handler writes.  It takes the socket's mutex, unless the connection has
\* been closed.
Write(c) ==
  /\ c \in owed \ writing
  /\ ~(pc = "recv" /\ conn = c)
  /\ owed' = owed \ {c}
  /\ writing' = IF state[c] = "CONNECTED" THEN writing \cup {c} ELSE writing
  /\ UNCHANGED <<kernelVars, tableVars, loopVars, socketVars, timerVars,
                 httpVars, historyVars>>

\* How the client is to whom c's descriptor leads; it is another's, or nobody's,
\* once a timeout has freed it.
Receiver(c) == IF fds[sockFd[c]] = c THEN client[c] ELSE "unknown"

\* send returns.  Nothing ignores SIGPIPE: one to a client that has gone may end
\* the program.
WriteEnds(c) ==
  /\ c \in writing
  /\ writing' = writing \ {c}
  /\ alive' \in (IF Receiver(c) = "open" THEN {TRUE} ELSE BOOLEAN)
  /\ UNCHANGED <<kernelVars, tableVars, loopVars, socketVars, timerVars,
                 httpVars, owed, freed>>
-----------------------------------------------------------------------------
Server ==
  /\ alive
  /\ \/ Poll \/ PollBlock \/ PollWake \/ Accept \/ AcceptAndReject \/ AcceptEnd
     \/ SkipSlot \/ EndOfSlots \/ UnknownDescriptor \/ RemoveFromTables
     \/ CloseRemoved \/ IncomingData \/ ReadFromSocket \/ Receive
     \/ ReceiveClosed \/ ReceiveError
  /\ UNCHANGED limitVars

PollFails == alive /\ PollError /\ UNCHANGED limitVars

Http == alive /\ (LookUpTimeout \/ CloseTimedOut) /\ UNCHANGED limitVars

Handler ==
  /\ alive
  /\ \E c \in Conns : Write(c) \/ WriteEnds(c)
  /\ UNCHANGED limitVars

Client ==
  /\ alive
  /\ \E c \in Conns : Connect(c) \/ Send(c) \/ HangUp(c)
  /\ UNCHANGED limitVars

Timer ==
  /\ alive
  /\ TimerSticks \/ \E c \in Conns : Expire(c)
  /\ UNCHANGED limitVars

Next == Server \/ PollFails \/ Http \/ Handler \/ Timer \/ Client

Spec == Init /\ [][Next]_vars

\* A send to a client that has reset the connection returns.
ResetWriteEnds(c) ==
  alive /\ WriteEnds(c) /\ Receiver(c) = "reset" /\ UNCHANGED limitVars

\* The TcpServer thread runs when no lock and no client keeps it waiting.
\* Nothing is assumed of the other threads, and the clients owe the server
\* nothing: a send waits as long as its client likes.
Fairness == WF_vars(Server) /\ \A c \in Conns : WF_vars(ResetWriteEnds(c))

FairSpec == Spec /\ Fairness
-----------------------------------------------------------------------------
(* Properties.                                                             *)

SlotFds == {slots[k].fd : k \in DOMAIN slots}

\* With a limit of at least 1, _socketList, allocated once with _maxConnSize + 1
\* entries, is never overrun, also not by removeFromSocketList, which reads one
\* entry past the last one in use.  A limit of 0 or less, which nothing rules
\* out, is never reached and the list overrun by the first clients.
SocketListFits == maxConnSize > 0 => Len(slots) + 1 <= maxConnSize

\* Until a timeout frees a descriptor the three tables speak of the same
\* connections: no lookup on the TcpServer thread can fail, no connection is
\* polled twice, and each is timed out by its own timer.
TablesAgree ==
  ~freed =>
    /\ \A j, k \in DOMAIN slots : slots[j].fd = slots[k].fd => j = k
    /\ SlotFds = {f \in Fds : active[f] # None}
    /\ \A f \in SlotFds : /\ fds[f] = active[f]
                          /\ timeoutOf[f] = active[f]
                          /\ timeoutOf[f] \in timers

\* A connection that has a descriptor is polled, has been shut down, or is about
\* to be: removeConnection leaves none behind that is open and unattended.
NoConnectionForgotten ==
  \A f \in Fds : fds[f] # None =>
    \/ f \in SlotFds
    \/ fds[f] \in shut
    \/ pc = "closing" /\ sockFd[conn] = f

\* Until a timeout frees a descriptor no connection is closed for what happened
\* to another: the TcpServer thread closes one whose client has gone, and a
\* timeout closes the one whose timer ran out.
ClosedForItsOwnReason ==
  [][~freed =>
       /\ \A c \in Conns :
            state[c] = "CONNECTED" /\ state'[c] = "NOT_CONNECTED" =>
              client[c] # "open" \/ (hpc = "close" /\ target = c)
       /\ hpc = "idle" /\ hpc' = "close" => target' = Head(timeouts)]_vars

\* What the server does with its clients, all tables aside.
Phase(c) ==
  IF client[c] = "away" THEN "away"
  ELSE IF c \in ToSet(backlog) THEN "waiting"
  ELSE IF state[c] = "CONNECTED" THEN "served" ELSE "over"

Admitted == INSTANCE Admission WITH
  Clients <- Conns, limit <- maxConnSize, phase <- [c \in Conns |-> Phase(c)]

\* Clients are taken in order, within the limit, and none twice, also when a
\* descriptor is used again and the tables disagree.
ServerAdmits == Admitted!Spec

\* The TcpServer thread waits in recv for a client that sends nothing.
ReadStuck ==
  pc = "recv" /\ Peer # None /\ rx[Peer] = 0 /\ client[Peer] = "open"

\* It waits for SimpleTimer's mutex, which is held for ever.
TimerWait ==
  /\ timerStuck
  /\ \/ pc = "accept" /\ serverEvent /\ backlog # <<>> /\ ~Full
     \/ pc = "clients" /\ i <= Len(slots) /\ slots[i].revents # "none"

\* It waits for a handler that sends to a client which does not read.
WriterWait ==
  LET Sending(c) == c \in writing /\ Receiver(c) # "reset"
  IN \/ pc \in {"reading", "closing"} /\ Sending(conn)
     \/ /\ pc = "clients" /\ i <= Len(slots) /\ slots[i].revents # "none"
        /\ Sending(active[slots[i].fd])

ServerWaits == ReadStuck \/ TimerWait \/ WriterWait

\* A client that hangs up is noticed, unless the program or the thread has
\* ended, the thread waits for ever, or a timeout has freed a descriptor.
HangUpNoticed ==
  \/ \A c \in Conns :
       (client[c] # "open" /\ state[c] = "CONNECTED")
         ~> (state[c] = "NOT_CONNECTED" \/ ~alive \/ pc = "ended" \/ freed)
  \/ <>[]ServerWaits

\* A client that connects is accepted or turned away, unless the program or the
\* thread has ended, the thread waits for ever, or it never gets a descriptor.
ConnectionAccepted ==
  \/ \A c \in Conns :
       (c \in ToSet(backlog))
         ~> (c \notin ToSet(backlog) \/ ~alive \/ pc = "ended")
  \/ <>[](ServerWaits \/ NoDescriptor)

\* "no incoming data" (readFromSocket, at EAGAIN): a read that finds no more
\* data ends.
ReadEnds == (pc = "recv") ~> (pc # "recv" \/ ~alive)
=============================================================================
