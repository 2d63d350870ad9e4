--------------------------- MODULE TcpServerProofs ---------------------------
(***************************************************************************)
(* Proofs about TcpServer for any number of clients, sends and expiries    *)
(* and any limits on connections and descriptors.                          *)
(*                                                                         *)
(* The argument: a socket object keeps the descriptor it was made with, so *)
(* a connection has at most one descriptor; and as long as no timeout has  *)
(* freed one, a descriptor is given out once, so that the entries that     *)
(* _socketTimeoutMap never loses do no harm.                               *)
(***************************************************************************)
EXTENDS TcpServer, FiniteSetTheorems, TLAPS

Slots == [fd : Fds, revents : Revents]

\* The list fits, and the loop is not past the entry after its end.
SizeInv ==
  /\ SocketListFits
  /\ pc \in {"reading", "recv"} => i <= Len(slots)
  /\ pc = "closing" => i <= Len(slots) + 1

\* Only a connection that has been accepted has a socket object; a socket, the
\* map and the descriptor table agree on its descriptor.
SocketInv ==
  /\ \A f \in Fds : active[f] # None => sockFd[active[f]] = f
  /\ \A f \in Fds : fds[f] # None => sockFd[fds[f]] = f
  /\ pc \in {"reading", "recv", "closing"} => conn # None /\ sockFd[conn] \in Fds
  /\ hpc = "close" => target # None /\ sockFd[target] \in Fds

\* A client waits once in the backlog, and has no socket before it leaves it.
BacklogInv ==
  /\ \A c \in Conns : client[c] = "away" => sockFd[c] = None
  /\ \A j \in DOMAIN backlog :
       sockFd[backlog[j]] = None /\ client[backlog[j]] # "away"
  /\ \A j, k \in DOMAIN backlog : backlog[j] = backlog[k] => j = k

\* An entry of _socketTimeoutMap stays as long as its descriptor.
TimeoutInv ==
  ~freed => \A f \in Fds : timeoutOf[f] # None => fds[f] # None

IInv == /\ TypeOK
        /\ SizeInv
        /\ SocketInv
        /\ BacklogInv
        /\ TimeoutInv
        /\ TablesAgree
        /\ NoConnectionForgotten

USE DEF Conns, Fds, None, kernelVars, tableVars, loopVars, socketVars,
        timerVars, httpVars, handlerVars, limitVars, historyVars
-----------------------------------------------------------------------------
\* poll fills in revents and nothing else; so does forgetting them.
LEMMA SameFds ==
  ASSUME slots \in Seq(Slots), NEW r, \A k \in DOMAIN slots : r[k] \in Revents,
         slots' = [k \in DOMAIN slots |-> [slots[k] EXCEPT !.revents = r[k]]]
  PROVE  /\ slots' \in Seq(Slots) /\ Len(slots') = Len(slots)
         /\ DOMAIN slots' = DOMAIN slots
         /\ \A k \in DOMAIN slots : slots'[k].fd = slots[k].fd
         /\ SlotFds' = SlotFds
<1>1. Len(slots) \in Nat /\ DOMAIN slots = 1..Len(slots)
  OBVIOUS
<1>2. \A k \in DOMAIN slots : slots[k] \in Slots
  OBVIOUS
<1>3. \A k \in DOMAIN slots : /\ slots'[k] \in Slots
                              /\ slots'[k].fd = slots[k].fd
  BY <1>2 DEF Slots
<1>4. slots' \in [1..Len(slots) -> Slots]
  BY <1>1, <1>3
<1>5. slots' \in Seq(Slots) /\ Len(slots') = Len(slots)
  BY <1>1, <1>4
<1>6. DOMAIN slots' = DOMAIN slots
  OBVIOUS
<1> QED
  BY <1>3, <1>5, <1>6 DEF SlotFds

\* The limits are configured once.
LEMMA LimitStays ==
  ASSUME TypeOK, Next
  PROVE  /\ maxConnSize \in Int /\ maxConnSize' = maxConnSize
         /\ maxFds' = maxFds
<1>1. maxConnSize \in Int
  BY LimitsAssumption DEF TypeOK
<1>2. UNCHANGED limitVars
  BY DEF Next, Server, PollFails, Http, Handler, Client, Timer
<1> QED
  BY <1>1, <1>2

\* What is left when entry k is taken out.
LEMMA RemovedSlots ==
  ASSUME slots \in Seq(Slots), NEW k \in DOMAIN slots, slots' = Removed(k)
  PROVE  /\ slots' \in Seq(Slots) /\ Len(slots') = Len(slots) - 1
         /\ \A j \in DOMAIN slots' :
              /\ j \in DOMAIN slots /\ j + 1 \in DOMAIN slots
              /\ slots'[j].fd = IF j < k THEN slots[j].fd ELSE slots[j + 1].fd
         /\ \A j \in DOMAIN slots : j # k => slots[j].fd \in SlotFds'
<1> DEFINE n == Len(slots)
<1>1. n \in Nat /\ DOMAIN slots = 1..n /\ k \in 1..n /\ n # 0
  OBVIOUS
<1>2. \A j \in 1..n : slots[j] \in Slots
  OBVIOUS
<1>3. slots' = [j \in 1..(n - 1) |->
                  IF j < k THEN slots[j]
                  ELSE [fd |-> slots[j + 1].fd, revents |-> "none"]]
  BY DEF Removed
<1>4. \A j \in 1..(n - 1) :
        /\ j \in 1..n /\ j + 1 \in 1..n
        /\ slots'[j] \in Slots
        /\ slots'[j].fd = IF j < k THEN slots[j].fd ELSE slots[j + 1].fd
  BY <1>1, <1>2, <1>3 DEF Slots, Revents
<1>5. slots' \in [1..(n - 1) -> Slots]
  BY <1>3, <1>4
<1>6. slots' \in Seq(Slots) /\ Len(slots') = n - 1 /\ DOMAIN slots' = 1..(n - 1)
  <2>1. n - 1 \in Nat
    BY <1>1
  <2> HIDE DEF n
  <2> QED
    BY <1>5, <2>1
<1>7. ASSUME NEW j \in 1..n, j # k PROVE slots[j].fd \in SlotFds'
  <2>1. CASE j < k
    <3> j \in 1..(n - 1) /\ slots'[j].fd = slots[j].fd
      BY <1>1, <1>4, <2>1
    <3> QED
      BY <1>6 DEF SlotFds
  <2>2. CASE k < j
    <3> DEFINE l == j - 1
    <3>1. l \in 1..(n - 1) /\ ~(l < k) /\ l + 1 = j
      BY <1>1, <2>2
    <3>2. slots'[l].fd = slots[j].fd
      BY <1>4, <3>1
    <3> QED
      BY <1>6, <3>1, <3>2 DEF SlotFds
  <2> QED
    BY <1>1, <1>7, <2>1, <2>2
<1> QED
  BY <1>1, <1>4, <1>6, <1>7

LEMMA InitIInv == Init => IInv
<1> SUFFICES ASSUME Init PROVE IInv
  OBVIOUS
<1> USE LimitsAssumption, MaxSendsAssumption DEF Init
<1>1. TypeOK
  <2>1. <<>> \in Seq(Conns) /\ <<>> \in Seq(Slots)
    OBVIOUS
  <2>2. 1 \in 1..(Len(slots) + 2) /\ 0 \in 0..MaxSends
    OBVIOUS
  <2>3. /\ rx \in [Conns -> 0..2]
        /\ client \in [Conns -> {"away", "open", "closed", "reset"}]
        /\ fds \in [Fds -> Conns \cup {None}]
    OBVIOUS
  <2>4. /\ active \in [Fds -> Conns \cup {None}]
        /\ timeoutOf \in [Fds -> Conns \cup {None}]
        /\ sockFd \in [Conns -> Fds \cup {None}]
        /\ state \in [Conns -> {"none", "CONNECTED", "NOT_CONNECTED"}]
    OBVIOUS
  <2>5. alive \in BOOLEAN
    BY DEF AfterAccess
  <2>6. <<maxConnSize, maxFds>> \in Limits
    <3>1. PICK l \in Limits : maxConnSize = l[1] /\ maxFds = l[2]
      OBVIOUS
    <3>2. l \in Int \X Nat
      BY <3>1
    <3>3. l = <<l[1], l[2]>>
      BY ONLY <3>2
    <3> QED
      BY <3>1, <3>3
  <2> QED
    BY <2>1, <2>2, <2>3, <2>4, <2>5, <2>6 DEF TypeOK, Slots
<1>2. SizeInv
  <2>1. Len(slots) = 0
    OBVIOUS
  <2>2. maxConnSize > 0 => 0 + 1 <= maxConnSize
    BY <1>1 DEF TypeOK
  <2> QED
    BY <2>1, <2>2 DEF SizeInv, SocketListFits
<1>3. SocketInv /\ BacklogInv /\ TimeoutInv
  BY DEF SocketInv, BacklogInv, TimeoutInv
<1>4. TablesAgree /\ NoConnectionForgotten
  BY DEF TablesAgree, NoConnectionForgotten, SlotFds
<1> QED
  BY <1>1, <1>2, <1>3, <1>4 DEF IInv
-----------------------------------------------------------------------------
\* The types.  A step of the loop leads to the next slot only from a slot that
\* exists, or from the place of one just removed.
LEMMA TypeNext == IInv /\ Next => TypeOK'
<1> SUFFICES ASSUME TypeOK, SizeInv, SocketInv, Next PROVE TypeOK'
  BY DEF IInv
<1> USE MaxSendsAssumption, NumConnsAssumption
<1> UNCHANGED <<maxConnSize, maxFds>>
  BY LimitStays
<1>0. TypeOK /\ UNCHANGED <<maxConnSize, maxFds>>
  OBVIOUS
<1>1. slots \in Seq(Slots) /\ Len(slots) \in Nat
  BY DEF TypeOK, Slots
<1>2. i <= Len(slots) + 1 => i + 1 \in 1..(Len(slots) + 2)
  BY <1>1 DEF TypeOK
<1>3. i <= Len(slots) => i + 1 \in 1..(Len(slots) + 2)
  BY <1>1 DEF TypeOK
<1>4. \A k \in DOMAIN slots : slots[k] \in Slots
  BY <1>1
<1>5. \A f \in Fds : FdEvents(f) \in Revents
  BY DEF FdEvents, FileEvents, Revents
<1>6. CASE Poll
  <2> DEFINE r == [k \in DOMAIN slots |-> FdEvents(slots[k].fd)]
  <2>1. \A k \in DOMAIN slots : r[k] \in Revents
    BY <1>4, <1>5 DEF Slots
  <2>2. slots' = [k \in DOMAIN slots |-> [slots[k] EXCEPT !.revents = r[k]]]
    BY <1>6 DEF Poll, Polled
  <2> HIDE DEF r
  <2>3. slots' \in Seq(Slots) /\ Len(slots') = Len(slots)
    BY <1>1, <2>1, <2>2, SameFds
  <2>4. i' \in 1..(Len(slots') + 2)
    BY <1>6, <2>3 DEF Poll, TypeOK
  <2>5. /\ serverEvent' \in BOOLEAN /\ pc' = "accept"
        /\ UNCHANGED <<kernelVars, active, timeoutOf, conn, watched, socketVars,
                       timerVars, httpVars, handlerVars, historyVars>>
    BY <1>6 DEF Poll
  <2> QED
    BY <2>3, <2>4, <2>5 DEF TypeOK, Slots
<1>7. CASE PollBlock
  <2>1. watched' \subseteq Conns \cup {None}
    BY <1>4, <1>7 DEF PollBlock, TypeOK, Slots
  <2>2. \A k \in DOMAIN slots : fds[slots[k].fd] # None
    BY <1>4, <1>7 DEF PollBlock, SomeEvent, SomeClientEvent, FdEvents
  <2>3. watched' \subseteq Conns
    BY <1>7, <2>1, <2>2 DEF PollBlock
  <2> QED
    BY <1>7, <2>3 DEF PollBlock, TypeOK
<1>8. CASE PollWake
  BY <1>8 DEF PollWake, TypeOK
<1>9. CASE Accept
  <2> DEFINE c == Head(backlog)
  <2>1. c \in Conns /\ Tail(backlog) \in Seq(Conns)
    BY <1>9 DEF Accept, TypeOK
  <2>2. PICK f \in Fds :
          /\ fds' = [fds EXCEPT ![f] = c]
          /\ slots' = Append(slots, [fd |-> f, revents |-> "none"])
          /\ sockFd' = [sockFd EXCEPT ![c] = f]
          /\ state' = [state EXCEPT ![c] = OpenState(c)]
          /\ active' = Inserted(active, f, c)
          /\ timers' = timers \cup {c}
          /\ armed' = armed \cup {c}
          /\ timeoutOf' = Inserted(timeoutOf, f, c)
    BY <1>9 DEF Accept
  <2> HIDE DEF c
  <2>3. slots' \in Seq(Slots) /\ Len(slots') = Len(slots) + 1
    <3>1. [fd |-> f, revents |-> "none"] \in Slots
      BY DEF Slots, Revents
    <3> HIDE DEF Slots
    <3> QED
      BY <1>1, <2>2, <3>1
  <2>4. /\ fds' \in [Fds -> Conns \cup {None}]
        /\ sockFd' \in [Conns -> Fds \cup {None}]
        /\ active' \in [Fds -> Conns \cup {None}]
        /\ timeoutOf' \in [Fds -> Conns \cup {None}]
    BY <2>1, <2>2 DEF TypeOK, Inserted
  <2>5. state' \in [Conns -> {"none", "CONNECTED", "NOT_CONNECTED"}]
    BY <2>1, <2>2 DEF TypeOK, OpenState
  <2>6. armed' \subseteq timers' /\ timers' \subseteq Conns
    BY ONLY <1>0, <2>1, <2>2 DEF TypeOK
  <2>7. backlog' \in Seq(Conns)
    BY <1>9, <2>1 DEF Accept
  <2>8. i' \in 1..(Len(slots') + 2)
    BY <1>1, <1>9, <2>3 DEF Accept, TypeOK
  <2>9. alive' \in BOOLEAN
    BY <1>9 DEF Accept, AfterAccess
  <2>10. UNCHANGED <<client, shut, rx, sends, serverEvent, pc, conn, watched,
                     timeouts, timerStuck, hpc, target, owed, writing, freed>>
    BY <1>9 DEF Accept
  <2> QED
    BY <2>3, <2>4, <2>5, <2>6, <2>7, <2>8, <2>9, <2>10 DEF TypeOK, Slots
<1>10. CASE AcceptAndReject
  <2> DEFINE c == Head(backlog)
  <2>1. c \in Conns /\ Tail(backlog) \in Seq(Conns)
    BY <1>10 DEF AcceptAndReject, TypeOK
  <2>2. PICK f \in Fds :
          /\ fds' = [fds EXCEPT ![f] = c]
          /\ sockFd' = [sockFd EXCEPT ![c] = f]
          /\ state' = [state EXCEPT ![c] = "NOT_CONNECTED"]
          /\ shut' = shut \cup {c}
    BY <1>10 DEF AcceptAndReject
  <2> HIDE DEF c
  <2>3. /\ fds' \in [Fds -> Conns \cup {None}]
        /\ sockFd' \in [Conns -> Fds \cup {None}]
        /\ state' \in [Conns -> {"none", "CONNECTED", "NOT_CONNECTED"}]
        /\ shut' \subseteq Conns
    BY ONLY <1>0, <2>1, <2>2 DEF TypeOK
  <2>4. backlog' \in Seq(Conns)
    BY <1>10, <2>1 DEF AcceptAndReject
  <2> QED
    BY <1>10, <2>3, <2>4 DEF AcceptAndReject, TypeOK
<1>11. CASE AcceptEnd
  BY <1>11 DEF AcceptEnd, TypeOK
<1>12. CASE SkipSlot
  BY <1>3, <1>12 DEF SkipSlot, NextSlot, TypeOK
<1>13. CASE EndOfSlots
  <2> DEFINE r == [k \in DOMAIN slots |-> "none"]
  <2>1. slots' = [k \in DOMAIN slots |-> [slots[k] EXCEPT !.revents = r[k]]]
    BY <1>13 DEF EndOfSlots
  <2>2. \A k \in DOMAIN slots : r[k] \in Revents
    BY DEF Revents
  <2> HIDE DEF r
  <2>3. slots' \in Seq(Slots) /\ Len(slots') = Len(slots)
    BY <1>1, <2>1, <2>2, SameFds
  <2>4. i' \in 1..(Len(slots') + 2)
    BY <1>1, <1>13, <2>3 DEF EndOfSlots
  <2> QED
    BY <1>13, <2>3, <2>4 DEF EndOfSlots, TypeOK, Slots
<1>14. CASE UnknownDescriptor
  BY <1>14 DEF UnknownDescriptor, TypeOK
<1>15. CASE RemoveFromTables
  <2>1. slots[i].fd \in Fds
    <3>1. i \in Nat \ {0} /\ i <= Len(slots)
      BY <1>15 DEF RemoveFromTables, TypeOK
    <3>2. slots[i] \in Slots
      BY ONLY <1>1, <3>1
    <3> QED
      BY ONLY <3>2 DEF Slots
  <2>2. slots' \in Seq(Slots) /\ Len(slots') = Len(slots) - 1
    <3>1. PICK k \in DOMAIN slots : slots' = Removed(k)
      BY <1>15 DEF RemoveFromTables
    <3> QED
      BY <1>1, <3>1, RemovedSlots
  <2>3. i' \in 1..(Len(slots') + 2)
    BY <1>1, <1>15, <2>2 DEF RemoveFromTables, TypeOK
  <2>4. alive' \in BOOLEAN
    BY <1>15 DEF RemoveFromTables, AfterAccess
  <2>5. /\ active' \in [Fds -> Conns \cup {None}]
        /\ conn' \in Conns \cup {None}
        /\ armed' \subseteq timers' /\ timers' \subseteq Conns
    BY <1>15, <2>1 DEF RemoveFromTables, TypeOK
  <2>6. /\ pc' = "closing"
        /\ UNCHANGED <<client, backlog, fds, shut, rx, sends, serverEvent,
                       timeoutOf, watched, sockFd, state, timeouts, timerStuck,
                       hpc, target, owed, writing, freed>>
    BY <1>15 DEF RemoveFromTables
  <2> QED
    BY <2>2, <2>3, <2>4, <2>5, <2>6 DEF TypeOK, Slots
<1>16. CASE CloseRemoved
  <2>1. i' \in 1..(Len(slots) + 2) /\ pc' = "clients" /\ conn' = None
    BY <1>2, <1>16 DEF CloseRemoved, NextSlot, TypeOK, SizeInv
  <2>2. shut' \subseteq Conns /\ state' \in [Conns -> {"none", "CONNECTED", "NOT_CONNECTED"}]
    <3>1. conn \in Conns /\ sockFd[conn] \in Fds
      BY <1>16 DEF CloseRemoved, TypeOK, SizeInv, SocketInv
    <3>2. shut' = shut \cup ({fds[sockFd[conn]]} \ {None})
          /\ state' = [state EXCEPT ![conn] = "NOT_CONNECTED"]
      BY <1>16 DEF CloseRemoved, Shutdown
    <3>3. /\ fds[sockFd[conn]] \in Conns \cup {None} /\ shut \subseteq Conns
          /\ state \in [Conns -> {"none", "CONNECTED", "NOT_CONNECTED"}]
      BY <3>1 DEF TypeOK
    <3> QED
      BY ONLY <3>1, <3>2, <3>3
  <2> QED
    BY <1>16, <2>1, <2>2 DEF CloseRemoved, TypeOK
<1>17. CASE IncomingData
  <2>1. slots[i].fd \in Fds
    BY <1>1, <1>4, <1>17 DEF IncomingData, TypeOK, Slots
  <2>2. /\ armed' \subseteq timers'
        /\ conn' \in Conns \cup {None}
        /\ pc' = "reading"
    BY <1>17, <2>1 DEF IncomingData, Restarted, TypeOK
  <2>3. UNCHANGED <<client, backlog, fds, shut, rx, sends, slots, active,
                    timeoutOf, serverEvent, i, watched, sockFd, state, timers,
                    timeouts, timerStuck, hpc, target, owed, writing, alive,
                    freed>>
    BY <1>17 DEF IncomingData
  <2> HIDE DEF Conns, Fds, None
  <2> QED
    BY ONLY <1>0, <2>2, <2>3 DEF TypeOK
<1>18. CASE Receive
  <2>1. i' \in 1..(Len(slots) + 2)
    BY <1>3, <1>18 DEF Receive, NextSlot, TypeOK, SizeInv
  <2>2. conn' \in Conns \cup {None} /\ pc' \in {"recv", "clients"}
    BY <1>18 DEF Receive, NextSlot, TypeOK
  <2>3. rx' \in [Conns -> 0..2]
    <3>1. Peer \in Conns
      BY <1>18 DEF Receive, Peer, TypeOK, SocketInv
    <3> QED
      BY <1>18, <3>1 DEF Receive, TypeOK
  <2>4. owed' \subseteq Conns
    BY <1>18 DEF Receive, TypeOK, SocketInv
  <2> QED
    BY <1>18, <2>1, <2>2, <2>3, <2>4 DEF Receive, TypeOK
<1>19. CASE ReceiveClosed
  <2>1. i' \in 1..(Len(slots) + 2)
    BY <1>3, <1>19 DEF ReceiveClosed, NextSlot, SizeInv
  <2>2. /\ state' \in [Conns -> {"none", "CONNECTED", "NOT_CONNECTED"}]
        /\ shut' \subseteq Conns
    <3>1. conn \in Conns /\ sockFd[conn] \in Fds
      BY <1>19 DEF ReceiveClosed, TypeOK, SocketInv
    <3>2. Shutdown(conn)
      BY <1>19 DEF ReceiveClosed
    <3>3. /\ fds[sockFd[conn]] \in Conns \cup {None} /\ shut \subseteq Conns
          /\ state \in [Conns -> {"none", "CONNECTED", "NOT_CONNECTED"}]
      BY <3>1 DEF TypeOK
    <3> QED
      BY ONLY <3>1, <3>2, <3>3 DEF Shutdown
  <2> QED
    BY <1>19, <2>1, <2>2 DEF ReceiveClosed, NextSlot, TypeOK
<1>20. CASE ReceiveError
  BY <1>3, <1>20 DEF ReceiveError, NextSlot, TypeOK, SizeInv
<1>21. CASE LookUpTimeout
  <2>1. timeouts' \in Seq(Conns)
    BY <1>21 DEF LookUpTimeout, TypeOK
  <2>2. /\ hpc' \in {"idle", "close"}
        /\ target' \in Conns \cup {None}
        /\ alive' \in BOOLEAN
    BY <1>21 DEF LookUpTimeout, TypeOK
  <2> QED
    BY <1>21, <2>1, <2>2 DEF LookUpTimeout, TypeOK
<1>22. CASE CloseTimedOut
  BY <1>22 DEF CloseTimedOut, TypeOK, SocketInv
<1>23. ASSUME NEW c \in Conns, Connect(c) PROVE TypeOK'
  <2>1. backlog' \in Seq(Conns)
    BY <1>23 DEF Connect, TypeOK
  <2>2. client' \in [Conns -> {"away", "open", "closed", "reset"}]
    BY <1>23 DEF Connect, TypeOK
  <2>3. UNCHANGED <<fds, shut, rx, sends, tableVars, loopVars, socketVars,
                    timerVars, httpVars, handlerVars, historyVars>>
    BY <1>23 DEF Connect
  <2> HIDE DEF Conns, Fds, None
  <2> QED
    BY ONLY <1>0, <2>1, <2>2, <2>3
    DEF TypeOK, tableVars, loopVars, socketVars, timerVars, httpVars,
        handlerVars, historyVars
<1>24. ASSUME NEW c \in Conns, Send(c) PROVE TypeOK'
  <2>1. sends' \in 0..MaxSends
    BY <1>24 DEF Send, TypeOK
  <2>2. rx' \in [Conns -> 0..2]
    BY <1>24 DEF Send, TypeOK
  <2>3. UNCHANGED <<client, backlog, fds, shut, tableVars, loopVars, socketVars,
                    timerVars, httpVars, handlerVars, historyVars>>
    BY <1>24 DEF Send
  <2> HIDE DEF Conns, Fds, None
  <2> QED
    BY ONLY <1>0, <2>1, <2>2, <2>3
    DEF TypeOK, tableVars, loopVars, socketVars, timerVars, httpVars,
        handlerVars, historyVars
<1>25. ASSUME NEW c \in Conns, HangUp(c) PROVE TypeOK'
  <2>1. client' \in [Conns -> {"away", "open", "closed", "reset"}]
    BY <1>25 DEF HangUp, TypeOK
  <2>2. UNCHANGED <<backlog, fds, shut, rx, sends, tableVars, loopVars,
                    socketVars, timerVars, httpVars, handlerVars, historyVars>>
    BY <1>25 DEF HangUp
  <2> HIDE DEF Conns, Fds, None
  <2> QED
    BY ONLY <1>0, <2>1, <2>2
    DEF TypeOK, tableVars, loopVars, socketVars, timerVars, httpVars,
        handlerVars, historyVars
<1>26. ASSUME NEW c \in Conns, Expire(c) PROVE TypeOK'
  <2>1. timeouts' \in Seq(Conns)
    BY <1>26 DEF Expire, TypeOK
  <2>2. armed' \subseteq timers'
    BY <1>26 DEF Expire, TypeOK
  <2>3. UNCHANGED <<kernelVars, tableVars, loopVars, socketVars, timers,
                    timerStuck, httpVars, handlerVars, historyVars>>
    BY <1>26 DEF Expire
  <2> HIDE DEF Conns, Fds, None
  <2> QED
    BY ONLY <1>0, <2>1, <2>2, <2>3
    DEF TypeOK, kernelVars, tableVars, loopVars, socketVars, httpVars,
        handlerVars, historyVars
<1>27. CASE ReadFromSocket
  <2>1. i' \in 1..(Len(slots) + 2)
    BY <1>3, <1>27 DEF ReadFromSocket, NextSlot, TypeOK, SizeInv
  <2>2. conn' \in Conns \cup {None} /\ pc' \in {"recv", "clients"}
    BY <1>27 DEF ReadFromSocket, NextSlot, TypeOK
  <2> QED
    BY <1>27, <2>1, <2>2 DEF ReadFromSocket, TypeOK
<1>28. CASE PollError \/ TimerSticks
  BY <1>28 DEF PollError, TimerSticks, TypeOK
<1>29. ASSUME NEW c \in Conns, Write(c) \/ WriteEnds(c) PROVE TypeOK'
  <2>1. owed' \subseteq Conns /\ writing' \subseteq Conns /\ alive' \in BOOLEAN
    BY <1>29 DEF Write, WriteEnds, TypeOK
  <2>2. UNCHANGED <<kernelVars, tableVars, loopVars, socketVars, timerVars,
                    httpVars, freed>>
    BY <1>29 DEF Write, WriteEnds
  <2> HIDE DEF Conns, Fds, None
  <2> QED
    BY ONLY <1>0, <2>1, <2>2
    DEF TypeOK, kernelVars, tableVars, loopVars, socketVars, timerVars,
        httpVars
<1> QED
  BY <1>6, <1>7, <1>8, <1>9, <1>10, <1>11, <1>12, <1>13, <1>14, <1>15, <1>16,
     <1>17, <1>18, <1>19, <1>20, <1>21, <1>22, <1>23, <1>24, <1>25, <1>26,
     <1>27, <1>28, <1>29
  DEF Next, Server, PollFails, Http, Handler, Client, Timer
-----------------------------------------------------------------------------
\* What Poll and EndOfSlots leave alone.
LEMMA SameList ==
  ASSUME IInv, Poll \/ EndOfSlots
  PROVE  /\ Len(slots') = Len(slots) /\ DOMAIN slots' = DOMAIN slots
         /\ \A k \in DOMAIN slots : slots'[k].fd = slots[k].fd
         /\ SlotFds' = SlotFds
         /\ pc' \in {"accept", "poll"} /\ pc \in {"poll", "clients"}
         /\ UNCHANGED <<client, backlog, fds, shut, sockFd, active, timeoutOf,
                        timers, hpc, target, freed, conn>>
<1>1. slots \in Seq(Slots)
  BY DEF IInv, TypeOK, Slots
<1>2. \A f \in Fds : FdEvents(f) \in Revents
  BY DEF FdEvents, FileEvents, Revents
<1>3. /\ Len(slots') = Len(slots) /\ DOMAIN slots' = DOMAIN slots
      /\ \A k \in DOMAIN slots : slots'[k].fd = slots[k].fd
      /\ SlotFds' = SlotFds
  <2>1. CASE Poll
    <3> DEFINE r == [k \in DOMAIN slots |-> FdEvents(slots[k].fd)]
    <3>1. \A k \in DOMAIN slots : slots[k] \in Slots
      BY <1>1
    <3>2. \A k \in DOMAIN slots : r[k] \in Revents
      BY <1>2, <3>1 DEF Slots
    <3>3. slots' = [k \in DOMAIN slots |-> [slots[k] EXCEPT !.revents = r[k]]]
      BY <2>1 DEF Poll, Polled
    <3> HIDE DEF r
    <3> QED
      BY <1>1, <3>2, <3>3, SameFds
  <2>2. CASE EndOfSlots
    <3> DEFINE r == [k \in DOMAIN slots |-> "none"]
    <3>1. slots' = [k \in DOMAIN slots |-> [slots[k] EXCEPT !.revents = r[k]]]
      BY <2>2 DEF EndOfSlots
    <3>2. \A k \in DOMAIN slots : r[k] \in Revents
      BY DEF Revents
    <3> HIDE DEF r
    <3> QED
      BY <1>1, <3>1, <3>2, SameFds
  <2> QED
    BY <2>1, <2>2
<1> QED
  BY <1>3 DEF Poll, EndOfSlots

\* The first element of a sequence that has one.
LEMMA FirstOfSeq ==
  ASSUME NEW S, NEW s \in Seq(S), s # <<>>
  PROVE  /\ Len(s) \in Nat \ {0} /\ DOMAIN s = 1..Len(s)
         /\ 1 \in DOMAIN s /\ Head(s) = s[1] /\ Head(s) \in S
  OBVIOUS

\* The elements of a sequence.
LEMMA ElementsOfSeq ==
  ASSUME NEW S, NEW s \in Seq(S)
  PROVE  \A j \in DOMAIN s : s[j] \in S
  OBVIOUS

\* The client at the head of the backlog gets a descriptor nobody has; it has
\* had none before, and waits nowhere else.
LEMMA Welcomed ==
  ASSUME IInv, Accept \/ AcceptAndReject
  PROVE  \E c \in Conns, f \in Fds :
           /\ c = Head(backlog) /\ client[c] # "away" /\ sockFd[c] = None
           /\ fds[f] = None
           /\ fds' = [fds EXCEPT ![f] = c]
           /\ sockFd' = [sockFd EXCEPT ![c] = f]
           /\ Accept => /\ slots' = Append(slots, [fd |-> f, revents |-> "none"])
                        /\ active' = Inserted(active, f, c)
                        /\ timers' = timers \cup {c}
                        /\ timeoutOf' = Inserted(timeoutOf, f, c)
           /\ AcceptAndReject => shut' = shut \cup {c}
           /\ Len(backlog) \in Nat \ {0}
           /\ Len(backlog') = Len(backlog) - 1
           /\ \A j \in DOMAIN backlog' :
                /\ j + 1 \in DOMAIN backlog
                /\ backlog'[j] = backlog[j + 1]
                /\ backlog'[j] # c
<1> DEFINE c == Head(backlog)
<1>1. backlog \in Seq(Conns) /\ backlog # <<>> /\ backlog' = Tail(backlog)
  BY DEF IInv, TypeOK, Accept, AcceptAndReject
<1>2. /\ Len(backlog) \in Nat \ {0} /\ DOMAIN backlog = 1..Len(backlog)
      /\ c \in Conns /\ c = backlog[1] /\ 1 \in DOMAIN backlog
  BY <1>1, FirstOfSeq, Zenon
<1>3. client[c] # "away" /\ sockFd[c] = None
  BY <1>2 DEF IInv, BacklogInv
<1>4. /\ Len(backlog') = Len(backlog) - 1
      /\ DOMAIN backlog' = 1..(Len(backlog) - 1)
      /\ \A j \in DOMAIN backlog' : backlog'[j] = backlog[j + 1]
  BY <1>1, <1>2
<1>5. \A j \in DOMAIN backlog' : j + 1 \in DOMAIN backlog /\ j + 1 # 1
  BY <1>2, <1>4
<1>6. \A j \in DOMAIN backlog' : backlog'[j] # c
  BY <1>2, <1>4, <1>5 DEF IInv, BacklogInv
<1>7. PICK f \in Fds :
        /\ fds[f] = None
        /\ fds' = [fds EXCEPT ![f] = c]
        /\ sockFd' = [sockFd EXCEPT ![c] = f]
        /\ Accept => /\ slots' = Append(slots, [fd |-> f, revents |-> "none"])
                     /\ active' = Inserted(active, f, c)
                     /\ timers' = timers \cup {c}
                     /\ timeoutOf' = Inserted(timeoutOf, f, c)
        /\ AcceptAndReject => shut' = shut \cup {c}
  <2>1. CASE Accept
    <3>1. ~AcceptAndReject
      BY <2>1 DEF Accept, AcceptAndReject
    <3> QED
      BY <2>1, <3>1 DEF Accept, LowestFree, Free
  <2>2. CASE AcceptAndReject
    <3>1. ~Accept
      BY <2>2 DEF Accept, AcceptAndReject
    <3> QED
      BY <2>2, <3>1 DEF AcceptAndReject, LowestFree, Free
  <2> QED
    BY <2>1, <2>2
<1> HIDE DEF c
<1>8. c = Head(backlog)
  BY DEF c
<1> QED
  BY <1>2, <1>3, <1>4, <1>5, <1>6, <1>7, <1>8

\* The list fits: a removal makes it shorter, and accept stops at the limit.
LEMMA SizeNext == IInv /\ Next => SizeInv'
<1> SUFFICES ASSUME IInv, Next PROVE SizeInv'
  OBVIOUS
<1> maxConnSize \in Int /\ maxConnSize' = maxConnSize
  BY LimitStays DEF IInv
<1>1. slots \in Seq(Slots) /\ Len(slots) \in Nat
  BY DEF IInv, TypeOK, Slots
<1>2. (maxConnSize > 0 => Len(slots) + 1 <= maxConnSize) /\ i \in Nat
  BY DEF IInv, SizeInv, SocketListFits, TypeOK
<1>3. CASE Poll \/ EndOfSlots
  BY <1>1, <1>2, <1>3, SameList DEF SizeInv, SocketListFits
<1>4. CASE Accept
  <2>1. Len(slots') = Len(slots) + 1
    BY <1>1, <1>4 DEF Accept
  <2> QED
    BY <1>1, <1>2, <1>4, <2>1 DEF Accept, Full, SizeInv, SocketListFits
<1>5. CASE RemoveFromTables
  <2>1. PICK k \in DOMAIN slots : slots' = Removed(k)
    BY <1>5 DEF RemoveFromTables
  <2>2. Len(slots') = Len(slots) - 1
    BY <1>1, <2>1, RemovedSlots
  <2> QED
    BY <1>1, <1>2, <1>5, <2>2 DEF RemoveFromTables, SizeInv, SocketListFits
<1>6. CASE /\ UNCHANGED slots
           /\ \/ UNCHANGED <<pc, i>>
              \/ pc' \notin {"reading", "recv", "closing"}
              \/ pc' = "reading" /\ UNCHANGED i /\ i <= Len(slots)
              \/ pc = "reading" /\ pc' = "recv" /\ UNCHANGED i
  BY <1>1, <1>2, <1>6 DEF IInv, SizeInv, SocketListFits
<1>7. CASE \/ PollBlock \/ PollWake \/ AcceptAndReject \/ AcceptEnd
           \/ SkipSlot \/ UnknownDescriptor \/ CloseRemoved \/ IncomingData
           \/ ReadFromSocket \/ Receive \/ ReceiveClosed \/ ReceiveError
  BY <1>6, <1>7
  DEF PollBlock, PollWake, AcceptAndReject, AcceptEnd, SkipSlot,
      UnknownDescriptor, CloseRemoved, IncomingData, ReadFromSocket, Receive,
      ReceiveClosed, ReceiveError, NextSlot
<1>8. CASE \/ Http \/ Timer \/ Client \/ Handler \/ PollFails
  BY <1>6, <1>8
  DEF Http, LookUpTimeout, CloseTimedOut, Timer, TimerSticks, Expire, Handler,
      Write, WriteEnds, PollFails, PollError, Client, Connect, Send, HangUp
<1> QED
  BY <1>3, <1>4, <1>5, <1>7, <1>8 DEF Next, Server

\* A socket keeps its descriptor for good, so no two descriptors stand for the
\* same connection.
LEMMA SocketNext == IInv /\ Next => SocketInv'
<1> SUFFICES ASSUME IInv, Next PROVE SocketInv'
  OBVIOUS
<1>1. /\ fds \in [Fds -> Conns \cup {None}]
      /\ active \in [Fds -> Conns \cup {None}]
      /\ sockFd \in [Conns -> Fds \cup {None}]
  BY DEF IInv, TypeOK
<1>2. SocketInv
  BY DEF IInv
<1>3. ASSUME pc = "clients", i <= Len(slots) PROVE slots[i].fd \in Fds
  <2>1. slots \in Seq(Slots) /\ i \in 1..Len(slots)
    BY <1>3 DEF IInv, TypeOK, Slots
  <2>2. slots[i] \in Slots
    BY <2>1
  <2> QED
    BY <2>2 DEF Slots
<1>4. CASE /\ UNCHANGED <<active, fds, sockFd, hpc, target>>
           /\ \/ UNCHANGED <<pc, conn>>
              \/ pc' \notin {"reading", "recv", "closing"}
              \/ pc = "reading" /\ UNCHANGED conn
  BY <1>2, <1>4 DEF SocketInv
<1>5. CASE Accept \/ AcceptAndReject
  <2>1. PICK c \in Conns, f \in Fds :
          /\ sockFd[c] = None /\ fds[f] = None
          /\ fds' = [fds EXCEPT ![f] = c]
          /\ sockFd' = [sockFd EXCEPT ![c] = f]
          /\ Accept => active' = Inserted(active, f, c)
    BY <1>5, Welcomed
  <2>2. /\ pc' = "accept" /\ UNCHANGED <<hpc, target>>
        /\ active' = active \/ active' = Inserted(active, f, c)
    BY <1>5, <2>1 DEF Accept, AcceptAndReject
  <2>3. \A g \in Fds : fds'[g] # None => sockFd'[fds'[g]] = g
    BY <1>1, <1>2, <2>1 DEF SocketInv
  <2>4. \A g \in Fds : active'[g] # None => sockFd'[active'[g]] = g
    <3>1. \A g \in Fds : active[g] # None => active[g] # c
      BY <1>1, <1>2, <2>1 DEF SocketInv
    <3>2. \A g \in Fds : active[g] # None => sockFd'[active[g]] = g
      BY <1>1, <1>2, <2>1, <3>1 DEF SocketInv
    <3>3. CASE active' = active
      BY <3>2, <3>3
    <3>4. CASE active' = Inserted(active, f, c)
      BY <1>1, <2>1, <3>2, <3>4 DEF Inserted
    <3> QED
      BY <2>2, <3>3, <3>4
  <2>5. hpc = "close" => sockFd'[target] \in Fds
    BY <1>1, <1>2, <2>1 DEF SocketInv, IInv, TypeOK
  <2> QED
    BY <1>2, <2>2, <2>3, <2>4, <2>5 DEF SocketInv
<1>6. CASE RemoveFromTables
  <2> DEFINE f == slots[i].fd
  <2>1. f \in Fds
    BY <1>3, <1>6 DEF RemoveFromTables
  <2>2. /\ active[f] # None /\ conn' = active[f]
        /\ active' = [active EXCEPT ![f] = None]
        /\ UNCHANGED <<fds, sockFd, hpc, target>>
    BY <1>6 DEF RemoveFromTables
  <2> HIDE DEF f
  <2> QED
    BY <1>1, <1>2, <2>1, <2>2 DEF SocketInv
<1>7. CASE IncomingData
  <2>1. slots[i].fd \in Fds
    BY <1>3, <1>7 DEF IncomingData
  <2> QED
    BY <1>2, <1>7, <2>1 DEF IncomingData, SocketInv
<1>8. CASE LookUpTimeout
  BY <1>2, <1>8 DEF LookUpTimeout, SocketInv
<1>9. CASE CloseTimedOut
  BY <1>1, <1>2, <1>9 DEF CloseTimedOut, SocketInv
<1>10. CASE Poll \/ EndOfSlots
  BY <1>4, <1>10, SameList
<1>11. CASE \/ PollBlock \/ PollWake \/ AcceptEnd \/ SkipSlot
            \/ UnknownDescriptor \/ CloseRemoved \/ ReadFromSocket \/ Receive
            \/ ReceiveClosed \/ ReceiveError
  BY <1>4, <1>11
  DEF PollBlock, PollWake, AcceptEnd, SkipSlot, UnknownDescriptor, CloseRemoved,
      ReadFromSocket, Receive, ReceiveClosed, ReceiveError, NextSlot
<1>12. CASE Timer \/ Client \/ Handler \/ PollFails
  BY <1>4, <1>12
  DEF Timer, TimerSticks, Expire, Handler, Write, WriteEnds, PollFails,
      PollError, Client, Connect, Send, HangUp
<1> QED
  BY <1>5, <1>6, <1>7, <1>8, <1>9, <1>10, <1>11, <1>12 DEF Next, Server, Http

\* Clients enter the backlog once, and get their socket when they leave it.
LEMMA BacklogNext == IInv /\ Next => BacklogInv'
<1> SUFFICES ASSUME IInv, Next PROVE BacklogInv'
  OBVIOUS
<1>1. /\ client \in [Conns -> {"away", "open", "closed", "reset"}]
      /\ sockFd \in [Conns -> Fds \cup {None}]
  BY DEF IInv, TypeOK
<1>2. BacklogInv
  BY DEF IInv
<1>3. backlog \in Seq(Conns)
  BY DEF IInv, TypeOK
<1>4. \A j \in DOMAIN backlog : backlog[j] \in Conns
  BY ONLY <1>3, ElementsOfSeq, Zenon
<1>5. CASE UNCHANGED <<client, backlog, sockFd>>
  BY <1>2, <1>5 DEF BacklogInv
<1>6. CASE Accept \/ AcceptAndReject
  <2>1. PICK c \in Conns, f \in Fds :
          /\ client[c] # "away"
          /\ sockFd' = [sockFd EXCEPT ![c] = f]
          /\ \A j \in DOMAIN backlog' : /\ j + 1 \in DOMAIN backlog
                                        /\ backlog'[j] = backlog[j + 1]
                                        /\ backlog'[j] # c
    BY <1>6, Welcomed
  <2>2. UNCHANGED client
    BY <1>6 DEF Accept, AcceptAndReject
  <2>3. \A j \in DOMAIN backlog' : sockFd'[backlog'[j]] = None
    BY <1>1, <1>2, <1>4, <2>1 DEF BacklogInv
  <2>4. DOMAIN backlog' = 1..Len(backlog')
    <3>1. backlog # <<>> /\ backlog' = Tail(backlog)
      BY <1>6 DEF Accept, AcceptAndReject
    <3> QED
      BY ONLY <1>3, <3>1
  <2>5. \A j, k \in DOMAIN backlog' : backlog'[j] = backlog'[k] => j = k
    BY <1>2, <2>1, <2>4 DEF BacklogInv
  <2> QED
    BY <1>1, <1>2, <2>1, <2>2, <2>3, <2>5 DEF BacklogInv
<1>7. ASSUME NEW c \in Conns, Connect(c) PROVE BacklogInv'
  <2>1. /\ client[c] = "away" /\ client' = [client EXCEPT ![c] = "open"]
        /\ backlog' = Append(backlog, c) /\ UNCHANGED sockFd
    BY <1>7 DEF Connect
  <2>2. /\ DOMAIN backlog = 1..Len(backlog) /\ Len(backlog) \in Nat
        /\ DOMAIN backlog' = 1..(Len(backlog) + 1)
        /\ backlog'[Len(backlog) + 1] = c
        /\ \A j \in 1..Len(backlog) : backlog'[j] = backlog[j]
    BY ONLY <1>3, <1>7, <2>1
  <2>3. \A j \in DOMAIN backlog : backlog[j] # c
    BY <1>2, <2>1 DEF BacklogInv
  <2> QED
    BY <1>1, <1>2, <1>4, <2>1, <2>2, <2>3 DEF BacklogInv
<1>8. ASSUME NEW c \in Conns, HangUp(c) PROVE BacklogInv'
  BY <1>1, <1>2, <1>4, <1>8 DEF HangUp, BacklogInv
<1>9. ASSUME NEW c \in Conns, Send(c) PROVE BacklogInv'
  BY <1>5, <1>9 DEF Send
<1>10. CASE Poll \/ EndOfSlots
  BY <1>5, <1>10, SameList
<1>11. CASE \/ PollBlock \/ PollWake \/ AcceptEnd \/ SkipSlot
            \/ UnknownDescriptor \/ RemoveFromTables \/ CloseRemoved
            \/ IncomingData \/ ReadFromSocket \/ Receive \/ ReceiveClosed
            \/ ReceiveError
  BY <1>5, <1>11
  DEF PollBlock, PollWake, AcceptEnd, SkipSlot, UnknownDescriptor,
      RemoveFromTables, CloseRemoved, IncomingData, ReadFromSocket, Receive,
      ReceiveClosed, ReceiveError
<1>12. CASE Http \/ Timer \/ Handler \/ PollFails
  BY <1>5, <1>12
  DEF Http, LookUpTimeout, CloseTimedOut, Timer, TimerSticks, Expire, Handler,
      Write, WriteEnds, PollFails, PollError
<1> QED
  BY <1>6, <1>7, <1>8, <1>9, <1>10, <1>11, <1>12 DEF Next, Server, Client

\* Until a timeout frees a descriptor, descriptors are given out once, and so
\* the entries of _socketTimeoutMap that outlive their connection do no harm.
LEMMA TimeoutNext == IInv /\ Next => TimeoutInv'
<1> SUFFICES ASSUME IInv, Next PROVE TimeoutInv'
  OBVIOUS
<1>1. /\ fds \in [Fds -> Conns \cup {None}]
      /\ timeoutOf \in [Fds -> Conns \cup {None}]
  BY DEF IInv, TypeOK
<1>2. TimeoutInv
  BY DEF IInv
<1>3. CASE UNCHANGED <<fds, timeoutOf, freed>>
  BY <1>2, <1>3 DEF TimeoutInv
<1>4. CASE Accept \/ AcceptAndReject
  <2>1. PICK c \in Conns, f \in Fds :
          /\ fds[f] = None
          /\ fds' = [fds EXCEPT ![f] = c]
          /\ Accept => timeoutOf' = Inserted(timeoutOf, f, c)
    BY <1>4, Welcomed
  <2>2. /\ UNCHANGED freed
        /\ timeoutOf' = timeoutOf \/ timeoutOf' = Inserted(timeoutOf, f, c)
    BY <1>4, <2>1 DEF Accept, AcceptAndReject
  <2> QED
    BY <1>1, <1>2, <2>1, <2>2 DEF TimeoutInv, Inserted
<1>5. CASE CloseTimedOut
  BY <1>5 DEF CloseTimedOut, TimeoutInv
<1>6. CASE Poll \/ EndOfSlots
  BY <1>3, <1>6, SameList
<1>7. CASE \/ PollBlock \/ PollWake \/ AcceptEnd \/ SkipSlot
           \/ UnknownDescriptor \/ RemoveFromTables \/ CloseRemoved
           \/ IncomingData \/ ReadFromSocket \/ Receive \/ ReceiveClosed
           \/ ReceiveError
  BY <1>3, <1>7
  DEF PollBlock, PollWake, AcceptEnd, SkipSlot, UnknownDescriptor,
      RemoveFromTables, CloseRemoved, IncomingData, ReadFromSocket, Receive,
      ReceiveClosed, ReceiveError
<1>8. CASE LookUpTimeout \/ Timer \/ Client \/ Handler \/ PollFails
  BY <1>3, <1>8
  DEF LookUpTimeout, Timer, TimerSticks, Expire, Handler, Write, WriteEnds,
      PollFails, PollError, Client, Connect, Send, HangUp
<1> QED
  BY <1>4, <1>5, <1>6, <1>7, <1>8 DEF Next, Server, Http

\* The list after an accept.
LEMMA AppendedSlots ==
  ASSUME slots \in Seq(Slots), NEW f \in Fds,
         slots' = Append(slots, [fd |-> f, revents |-> "none"])
  PROVE  /\ Len(slots) \in Nat /\ DOMAIN slots = 1..Len(slots)
         /\ DOMAIN slots' = 1..(Len(slots) + 1)
         /\ slots'[Len(slots) + 1].fd = f
         /\ \A j \in DOMAIN slots : slots'[j] = slots[j]
         /\ SlotFds' = SlotFds \cup {f}
<1> DEFINE e == [fd |-> f, revents |-> "none"]
<1>1. e \in Slots /\ e.fd = f
  BY DEF Slots, Revents
<1> HIDE DEF e, Slots
<1>2. slots' = Append(slots, e)
  BY DEF e
<1>3. /\ Len(slots) \in Nat /\ DOMAIN slots = 1..Len(slots)
      /\ DOMAIN slots' = 1..(Len(slots) + 1)
      /\ slots'[Len(slots) + 1] = e
      /\ \A j \in DOMAIN slots : slots'[j] = slots[j]
  BY <1>1, <1>2
<1>4. DOMAIN slots' = DOMAIN slots \cup {Len(slots) + 1}
  BY <1>3
<1>5. SlotFds' = SlotFds \cup {f}
  BY <1>1, <1>3, <1>4 DEF SlotFds
<1> QED
  BY <1>1, <1>3, <1>5

LEMMA TablesNext == IInv /\ Next => TablesAgree'
<1> SUFFICES ASSUME IInv, Next, ~freed' PROVE TablesAgree'
  BY DEF TablesAgree
<1>1. /\ fds \in [Fds -> Conns \cup {None}]
      /\ active \in [Fds -> Conns \cup {None}]
      /\ timeoutOf \in [Fds -> Conns \cup {None}]
      /\ slots \in Seq(Slots)
  BY DEF IInv, TypeOK, Slots
<1>2. ~freed
  BY DEF Next, Server, PollFails, PollError, Http, Handler, Write, WriteEnds,
         Timer, TimerSticks, Client, Poll, PollBlock, PollWake, Accept,
         AcceptAndReject, AcceptEnd, SkipSlot, EndOfSlots, UnknownDescriptor,
         RemoveFromTables, CloseRemoved, IncomingData, ReadFromSocket, Receive,
         ReceiveClosed, ReceiveError, LookUpTimeout, CloseTimedOut, Expire,
         Connect, Send, HangUp
<1>3. /\ \A j, k \in DOMAIN slots : slots[j].fd = slots[k].fd => j = k
      /\ SlotFds = {f \in Fds : active[f] # None}
      /\ \A f \in SlotFds : /\ fds[f] = active[f]
                            /\ timeoutOf[f] = active[f]
                            /\ timeoutOf[f] \in timers
  BY <1>2 DEF IInv, TablesAgree
<1>4. \A f \in Fds : timeoutOf[f] # None => fds[f] # None
  BY <1>2 DEF IInv, TimeoutInv
<1>5. CASE UNCHANGED <<slots, active, fds, timeoutOf, timers>>
  BY <1>3, <1>5 DEF TablesAgree, SlotFds
<1>6. CASE Accept
  <2>1. PICK c \in Conns, f \in Fds :
          /\ fds[f] = None
          /\ fds' = [fds EXCEPT ![f] = c]
          /\ slots' = Append(slots, [fd |-> f, revents |-> "none"])
          /\ active' = Inserted(active, f, c)
          /\ timers' = timers \cup {c}
          /\ timeoutOf' = Inserted(timeoutOf, f, c)
    BY <1>6, Welcomed
  <2>2. active[f] = None /\ f \notin SlotFds /\ timeoutOf[f] = None
    BY <1>1, <1>3, <1>4, <2>1
  <2>3. /\ active' = [active EXCEPT ![f] = c]
        /\ timeoutOf' = [timeoutOf EXCEPT ![f] = c]
    BY <2>1, <2>2 DEF Inserted
  <2>4. /\ Len(slots) \in Nat /\ DOMAIN slots = 1..Len(slots)
        /\ DOMAIN slots' = 1..(Len(slots) + 1)
        /\ slots'[Len(slots) + 1].fd = f
        /\ \A j \in DOMAIN slots : slots'[j] = slots[j]
        /\ SlotFds' = SlotFds \cup {f}
    BY <1>1, <2>1, AppendedSlots
  <2>5. \A j, k \in DOMAIN slots' : slots'[j].fd = slots'[k].fd => j = k
    <3>1. \A j \in DOMAIN slots : slots[j].fd # f
      BY <2>2 DEF SlotFds
    <3>2. \A j \in DOMAIN slots' : j \in DOMAIN slots \/ j = Len(slots) + 1
      BY <2>4
    <3> QED
      BY <1>3, <2>4, <3>1, <3>2
  <2>6. SlotFds' = {g \in Fds : active'[g] # None}
    BY <1>1, <1>3, <2>1, <2>3, <2>4
  <2>7. \A g \in SlotFds' : /\ fds'[g] = active'[g]
                            /\ timeoutOf'[g] = active'[g]
                            /\ timeoutOf'[g] \in timers'
    BY <1>1, <1>3, <2>1, <2>3, <2>4
  <2> QED
    BY <2>5, <2>6, <2>7 DEF TablesAgree
<1>7. CASE AcceptAndReject
  <2>1. PICK c \in Conns, f \in Fds :
          fds[f] = None /\ fds' = [fds EXCEPT ![f] = c]
    BY <1>7, Welcomed
  <2>2. UNCHANGED <<slots, active, timeoutOf, timers>> /\ SlotFds' = SlotFds
    BY <1>7 DEF AcceptAndReject, SlotFds
  <2>3. \A g \in SlotFds : g # f /\ fds'[g] = fds[g]
    BY <1>1, <1>3, <2>1
  <2> QED
    BY <1>3, <2>2, <2>3 DEF TablesAgree
<1>8. CASE RemoveFromTables
  <2> DEFINE f == slots[i].fd
  <2>1. /\ active[f] # None
        /\ active' = [active EXCEPT ![f] = None]
        /\ timers' = timers \ {timeoutOf[f]}
        /\ UNCHANGED <<fds, timeoutOf>>
    BY <1>8 DEF RemoveFromTables
  <2>2. PICK k \in DOMAIN slots : slots[k].fd = f /\ slots' = Removed(k)
    BY <1>8 DEF RemoveFromTables, FirstWith
  <2> HIDE DEF f
  <2>3. f \in SlotFds
    BY <2>2 DEF SlotFds
  <2>4. /\ slots' \in Seq(Slots)
        /\ \A j \in DOMAIN slots' :
             /\ j \in DOMAIN slots /\ j + 1 \in DOMAIN slots
             /\ slots'[j].fd = IF j < k THEN slots[j].fd ELSE slots[j + 1].fd
        /\ \A j \in DOMAIN slots : j # k => slots[j].fd \in SlotFds'
    BY <1>1, <2>2, RemovedSlots
  <2>5. DOMAIN slots \subseteq Nat
    BY <1>1
  <2>6. SlotFds' = SlotFds \ {f}
    <3>1. \A j \in DOMAIN slots' : slots'[j].fd \in SlotFds \ {f}
      <4> SUFFICES ASSUME NEW j \in DOMAIN slots'
                   PROVE  slots'[j].fd \in SlotFds \ {f}
        OBVIOUS
      <4> DEFINE l == IF j < k THEN j ELSE j + 1
      <4>1. l \in DOMAIN slots /\ l # k /\ slots'[j].fd = slots[l].fd
        BY <2>4, <2>5
      <4>2. slots[l].fd # f
        BY <1>3, <2>2, <4>1
      <4> QED
        BY <4>1, <4>2 DEF SlotFds
    <3>2. \A j \in DOMAIN slots : slots[j].fd # f => slots[j].fd \in SlotFds'
      BY <2>2, <2>4
    <3> QED
      BY <3>1, <3>2 DEF SlotFds
  <2>7. \A j, l \in DOMAIN slots' : slots'[j].fd = slots'[l].fd => j = l
    <3> SUFFICES ASSUME NEW j \in DOMAIN slots', NEW l \in DOMAIN slots',
                        slots'[j].fd = slots'[l].fd
                 PROVE  j = l
      OBVIOUS
    <3> DEFINE old(m) == IF m < k THEN m ELSE m + 1
    <3>1. /\ old(j) \in DOMAIN slots /\ slots'[j].fd = slots[old(j)].fd
          /\ old(l) \in DOMAIN slots /\ slots'[l].fd = slots[old(l)].fd
      BY <2>4
    <3>2. old(j) = old(l)
      BY <1>3, <3>1
    <3>3. j \in Nat /\ l \in Nat /\ k \in Nat
      BY <2>4, <2>5
    <3> QED
      BY <3>2, <3>3
  <2>8. SlotFds' = {g \in Fds : active'[g] # None}
    BY <1>1, <1>3, <2>1, <2>3, <2>6
  <2>9. \A g \in SlotFds' : /\ fds'[g] = active'[g]
                            /\ timeoutOf'[g] = active'[g]
                            /\ timeoutOf'[g] \in timers'
    <3> SUFFICES ASSUME NEW g \in SlotFds, g # f
                 PROVE  /\ fds[g] = active'[g]
                        /\ timeoutOf[g] = active'[g]
                        /\ timeoutOf[g] \in timers'
      BY <2>1, <2>6
    <3>1. f \in Fds /\ g \in Fds /\ active[g] # None /\ active'[g] = active[g]
      BY <1>1, <1>3, <2>1, <2>3
    <3>2. active[g] # active[f]
      BY <2>1, <3>1 DEF IInv, SocketInv
    <3> QED
      BY <1>3, <2>1, <2>3, <3>1, <3>2
  <2> QED
    BY <2>7, <2>8, <2>9 DEF TablesAgree
<1>9. CASE CloseTimedOut
  BY <1>9 DEF CloseTimedOut
<1>10. CASE Poll \/ EndOfSlots
  BY <1>3, <1>10, SameList DEF TablesAgree
<1>11. CASE \/ PollBlock \/ PollWake \/ AcceptEnd \/ SkipSlot
            \/ UnknownDescriptor \/ CloseRemoved \/ IncomingData
            \/ ReadFromSocket \/ Receive \/ ReceiveClosed \/ ReceiveError
  BY <1>5, <1>11
  DEF PollBlock, PollWake, AcceptEnd, SkipSlot, UnknownDescriptor,
      CloseRemoved, IncomingData, ReadFromSocket, Receive, ReceiveClosed,
      ReceiveError
<1>12. CASE LookUpTimeout \/ Timer \/ Client \/ Handler \/ PollFails
  BY <1>5, <1>12
  DEF LookUpTimeout, Timer, TimerSticks, Expire, Handler, Write, WriteEnds,
      PollFails, PollError, Client, Connect, Send, HangUp
<1> QED
  BY <1>6, <1>7, <1>8, <1>9, <1>10, <1>11, <1>12 DEF Next, Server, Http

LEMMA ForgottenNext == IInv /\ Next => NoConnectionForgotten'
<1> SUFFICES ASSUME IInv, Next PROVE NoConnectionForgotten'
  OBVIOUS
<1>1. /\ fds \in [Fds -> Conns \cup {None}]
      /\ sockFd \in [Conns -> Fds \cup {None}]
      /\ slots \in Seq(Slots)
  BY DEF IInv, TypeOK, Slots
<1>2. \A f \in Fds : fds[f] # None =>
        f \in SlotFds \/ fds[f] \in shut \/ (pc = "closing" /\ sockFd[conn] = f)
  BY DEF IInv, NoConnectionForgotten
<1>3. CASE /\ UNCHANGED <<slots, fds, sockFd>> /\ shut \subseteq shut'
           /\ pc # "closing" \/ UNCHANGED <<pc, conn>>
  BY <1>2, <1>3 DEF NoConnectionForgotten, SlotFds
<1>4. CASE Accept
  <2>1. PICK c \in Conns, f \in Fds :
          /\ fds' = [fds EXCEPT ![f] = c]
          /\ slots' = Append(slots, [fd |-> f, revents |-> "none"])
    BY <1>4, Welcomed
  <2>2. SlotFds' = SlotFds \cup {f}
    BY <1>1, <2>1, AppendedSlots
  <2>3. pc = "accept" /\ UNCHANGED shut
    BY <1>4 DEF Accept
  <2> QED
    BY <1>1, <1>2, <2>1, <2>2, <2>3 DEF NoConnectionForgotten
<1>5. CASE AcceptAndReject
  <2>1. PICK c \in Conns, f \in Fds :
          /\ fds' = [fds EXCEPT ![f] = c]
          /\ shut' = shut \cup {c}
    BY <1>5, Welcomed
  <2>2. pc = "accept" /\ SlotFds' = SlotFds
    BY <1>5 DEF AcceptAndReject, SlotFds
  <2> QED
    BY <1>1, <1>2, <2>1, <2>2 DEF NoConnectionForgotten
<1>6. CASE RemoveFromTables
  <2> DEFINE f == slots[i].fd
  <2>1. /\ active[f] # None /\ conn' = active[f] /\ pc' = "closing"
        /\ pc = "clients" /\ UNCHANGED <<fds, sockFd, shut>>
    BY <1>6 DEF RemoveFromTables
  <2>2. PICK k \in DOMAIN slots : slots[k].fd = f /\ slots' = Removed(k)
    BY <1>6 DEF RemoveFromTables, FirstWith
  <2> HIDE DEF f
  <2>3. f \in Fds
    <3>1. slots[k] \in Slots
      BY <1>1
    <3> QED
      BY <2>2, <3>1 DEF Slots
  <2>4. sockFd[conn'] = f
    BY <2>1, <2>3 DEF IInv, SocketInv
  <2>5. \A j \in DOMAIN slots : j # k => slots[j].fd \in SlotFds'
    BY <1>1, <2>2, RemovedSlots
  <2>6. \A g \in SlotFds : g = f \/ g \in SlotFds'
    BY <2>2, <2>5 DEF SlotFds
  <2> QED
    BY <1>2, <2>1, <2>4, <2>6 DEF NoConnectionForgotten
<1>7. CASE CloseRemoved
  <2>1. conn \in Conns /\ sockFd[conn] \in Fds
    BY <1>7 DEF CloseRemoved, IInv, TypeOK, SocketInv
  <2>2. /\ shut' = shut \cup ({fds[sockFd[conn]]} \ {None})
        /\ UNCHANGED <<fds, slots>>
    BY <1>7 DEF CloseRemoved, Shutdown
  <2>3. SlotFds' = SlotFds
    BY <2>2 DEF SlotFds
  <2> QED
    BY <1>2, <2>1, <2>2, <2>3 DEF NoConnectionForgotten
<1>8. CASE CloseTimedOut
  <2>1. /\ fds' = [fds EXCEPT ![sockFd[target]] = None]
        /\ UNCHANGED <<shut, pc, conn, sockFd>>
    BY <1>8 DEF CloseTimedOut
  <2>2. SlotFds' = SlotFds
    BY <1>8 DEF CloseTimedOut, SlotFds
  <2>3. \A f \in Fds : fds'[f] # None => fds'[f] = fds[f]
    BY <1>1, <2>1
  <2> QED
    BY <1>2, <2>1, <2>2, <2>3 DEF NoConnectionForgotten
<1>9. CASE Poll \/ EndOfSlots
  BY <1>2, <1>9, SameList DEF NoConnectionForgotten
<1>10. CASE \/ PollBlock \/ PollWake \/ AcceptEnd \/ SkipSlot
            \/ UnknownDescriptor \/ IncomingData \/ ReadFromSocket \/ Receive
            \/ ReceiveClosed \/ ReceiveError
  BY <1>3, <1>10
  DEF PollBlock, PollWake, AcceptEnd, SkipSlot, UnknownDescriptor,
      IncomingData, ReadFromSocket, Receive, ReceiveClosed, ReceiveError,
      Shutdown
<1>11. CASE LookUpTimeout \/ Timer \/ Client \/ Handler \/ PollFails
  BY <1>3, <1>11
  DEF LookUpTimeout, Timer, TimerSticks, Expire, Handler, Write, WriteEnds,
      PollFails, PollError, Client, Connect, Send, HangUp
<1> QED
  BY <1>4, <1>5, <1>6, <1>7, <1>8, <1>9, <1>10, <1>11 DEF Next, Server, Http
-----------------------------------------------------------------------------
LEMMA Inductive == Spec => []IInv
<1>1. IInv /\ [Next]_vars => IInv'
  <2> SUFFICES ASSUME IInv, [Next]_vars PROVE IInv'
    OBVIOUS
  <2>1. CASE Next
    BY <2>1, TypeNext, SizeNext, SocketNext, BacklogNext, TimeoutNext,
       TablesNext, ForgottenNext
    DEF IInv
  <2>2. CASE UNCHANGED vars
    <3> USE <2>2 DEF vars, IInv
    <3>1. TypeOK' /\ SizeInv'
      <4> HIDE DEF Conns, Fds, None
      <4>1. TypeOK /\ UNCHANGED vars
        BY <2>2
      <4>2. TypeOK'
        BY ONLY <4>1
        DEF TypeOK, vars, limitVars, kernelVars, tableVars, loopVars, socketVars,
            timerVars, httpVars, handlerVars, historyVars
      <4>3. SizeInv'
        BY DEF SizeInv, SocketListFits
      <4> QED
        BY <4>2, <4>3
    <3>2. SocketInv' /\ BacklogInv' /\ TimeoutInv'
      BY DEF SocketInv, BacklogInv, TimeoutInv
    <3>3. TablesAgree'
      BY DEF TablesAgree, SlotFds
    <3>4. NoConnectionForgotten'
      BY DEF NoConnectionForgotten, SlotFds
    <3> QED
      BY <3>1, <3>2, <3>3, <3>4
  <2> QED
    BY <2>1, <2>2
<1> QED
  BY <1>1, InitIInv, PTL DEF Spec

\* Every variable of the server, its clients and its timers keeps its type,
\* whatever the limits; the loop's index is never more than two past the clients
\* in the list, also when a removal has just shortened it.
THEOREM TypeCorrect == Spec => []TypeOK
<1>1. IInv => TypeOK
  BY DEF IInv
<1> QED
  BY <1>1, Inductive, PTL

\* Under every limit of at least 1 TcpServer never writes past the end of
\* _socketList, however many clients connect and however few descriptors there
\* are: `==' is enough of a comparison, as no step skips the limit.  The code
\* does not check that the limit is at least 1; under any other it is no bound.
THEOREM SocketListNotOverrun == Spec => []SocketListFits
<1>1. IInv => SocketListFits
  BY DEF IInv, SizeInv
<1> QED
  BY <1>1, Inductive, PTL

\* Until timeoutOnSocket has freed a descriptor, _socketList,
\* _activeConnections, _socketTimeoutMap and the kernel agree.
THEOREM TablesStayInStep == Spec => []TablesAgree
<1>1. IInv => TablesAgree
  BY DEF IInv
<1> QED
  BY <1>1, Inductive, PTL

\* No accepted connection is left open without being polled.
THEOREM EveryConnectionAttended == Spec => []NoConnectionForgotten
<1>1. IInv => NoConnectionForgotten
  BY DEF IInv
<1> QED
  BY <1>1, Inductive, PTL
-----------------------------------------------------------------------------
\* What holds of closing a connection until a timeout frees a descriptor: a
\* socket's descriptor is its own, a connection shut down is closed, and an
\* event that makes the server remove a connection is the connection's.
ReasonInv ==
  ~freed =>
    /\ \A c \in Conns : sockFd[c] = None => state[c] = "none"
    /\ \A c \in Conns : sockFd[c] # None => fds[sockFd[c]] = c
    /\ \A c \in shut : state[c] = "NOT_CONNECTED"
    /\ \A k \in DOMAIN slots :
         /\ slots[k].revents # "NVAL"
         /\ slots[k].revents = "HUP" =>
              \/ fds[slots[k].fd] \in shut
              \/ client[fds[slots[k].fd]] = "reset"
    /\ pc = "closing" =>
         state[conn] = "NOT_CONNECTED" \/ client[conn] # "open"

\* A connection reported as gone is closed, or its client has gone.
LEMMA GoneInSlots ==
  ASSUME IInv, ReasonInv, ~freed, NEW k \in DOMAIN slots,
         slots[k].revents \in {"HUP", "NVAL"}
  PROVE  LET c == active[slots[k].fd]
         IN c \in Conns /\ (state[c] = "NOT_CONNECTED" \/ client[c] # "open")
<1>1. slots \in Seq(Slots) /\ active \in [Fds -> Conns \cup {None}]
  BY DEF IInv, TypeOK, Slots
<1>2. slots[k] \in Slots
  BY <1>1
<1>3. slots[k].fd \in Fds /\ slots[k].fd \in SlotFds
  BY <1>2 DEF Slots, SlotFds
<1>4. active[slots[k].fd] # None /\ fds[slots[k].fd] = active[slots[k].fd]
  BY <1>3 DEF IInv, TablesAgree
<1>5. \/ fds[slots[k].fd] \in shut
      \/ client[fds[slots[k].fd]] = "reset"
  BY DEF ReasonInv
<1>6. active[slots[k].fd] \in Conns
  BY <1>1, <1>3, <1>4
<1> QED
  BY <1>4, <1>5, <1>6 DEF ReasonInv

\* The descriptor of the socket being read or removed is its connection's.
LEMMA OwnPeer ==
  ASSUME IInv, ReasonInv, ~freed, pc \in {"recv", "closing"}
  PROVE  conn \in Conns /\ fds[sockFd[conn]] = conn
<1>1. conn \in Conns /\ sockFd[conn] \in Fds
  BY DEF IInv, TypeOK, SocketInv
<1> QED
  BY <1>1, NumConnsAssumption DEF ReasonInv

LEMMA ReasonInit == Init => ReasonInv
BY DEF Init, ReasonInv

LEMMA ReasonNext == IInv /\ ReasonInv /\ Next => ReasonInv'
<1> SUFFICES ASSUME IInv, ReasonInv, Next, ~freed' PROVE ReasonInv'
  BY DEF ReasonInv
<1>1. /\ fds \in [Fds -> Conns \cup {None}]
      /\ sockFd \in [Conns -> Fds \cup {None}]
      /\ state \in [Conns -> {"none", "CONNECTED", "NOT_CONNECTED"}]
      /\ client \in [Conns -> {"away", "open", "closed", "reset"}]
      /\ shut \subseteq Conns
      /\ slots \in Seq(Slots)
  BY DEF IInv, TypeOK, Slots
<1>2. ~freed
  BY DEF Next, Server, PollFails, PollError, Http, Handler, Write, WriteEnds,
         Timer, TimerSticks, Client, Poll, PollBlock, PollWake, Accept,
         AcceptAndReject, AcceptEnd, SkipSlot, EndOfSlots, UnknownDescriptor,
         RemoveFromTables, CloseRemoved, IncomingData, ReadFromSocket, Receive,
         ReceiveClosed, ReceiveError, LookUpTimeout, CloseTimedOut, Expire,
         Connect, Send, HangUp
<1>3. \A k \in DOMAIN slots : slots[k] \in Slots
  BY <1>1
<1>4. CASE /\ UNCHANGED <<slots, fds, shut, sockFd, state, client>>
           /\ pc' # "closing" \/ UNCHANGED <<pc, conn>>
  BY <1>2, <1>4 DEF ReasonInv
<1>5. CASE Poll
  <2>1. \A k \in DOMAIN slots :
          slots[k].fd \in Fds /\ slots[k].fd \in SlotFds
    BY <1>3 DEF Slots, SlotFds
  <2>2. \A k \in DOMAIN slots : fds[slots[k].fd] # None
    BY <1>2, <2>1 DEF IInv, TablesAgree
  <2>3. \A k \in DOMAIN slots :
          slots'[k].revents = FdEvents(slots[k].fd)
    <3>1. \A k \in DOMAIN slots :
            [slots[k] EXCEPT !.revents = FdEvents(slots[k].fd)].revents
              = FdEvents(slots[k].fd)
      BY <1>3 DEF Slots
    <3>2. slots' = [k \in DOMAIN slots |->
                      [slots[k] EXCEPT !.revents = FdEvents(slots[k].fd)]]
      BY <1>5 DEF Poll, Polled
    <3> QED
      BY <3>1, <3>2
  <2>4. /\ DOMAIN slots' = DOMAIN slots
        /\ \A k \in DOMAIN slots : slots'[k].fd = slots[k].fd
    BY <1>5, SameList
  <2>5. \A k \in DOMAIN slots' :
          /\ slots'[k].revents # "NVAL"
          /\ slots'[k].revents = "HUP" =>
               \/ fds[slots'[k].fd] \in shut
               \/ client[fds[slots'[k].fd]] = "reset"
    BY <2>2, <2>3, <2>4 DEF FdEvents, FileEvents
  <2>6. UNCHANGED <<fds, shut, sockFd, state, client>> /\ pc' = "accept"
    BY <1>5 DEF Poll
  <2> QED
    BY <1>2, <2>5, <2>6 DEF ReasonInv
<1>6. CASE EndOfSlots
  <2>1. \A k \in DOMAIN slots' : slots'[k].revents = "none"
    <3>1. \A k \in DOMAIN slots :
            [slots[k] EXCEPT !.revents = "none"].revents = "none"
      BY <1>3 DEF Slots
    <3> QED
      BY <1>6, <3>1 DEF EndOfSlots
  <2>2. UNCHANGED <<fds, shut, sockFd, state, client>> /\ pc' = "poll"
    BY <1>6 DEF EndOfSlots
  <2> QED
    BY <1>2, <2>1, <2>2 DEF ReasonInv
<1>7. CASE Accept
  <2>1. PICK c \in Conns, f \in Fds :
          /\ c = Head(backlog) /\ sockFd[c] = None
          /\ fds[f] = None
          /\ fds' = [fds EXCEPT ![f] = c]
          /\ sockFd' = [sockFd EXCEPT ![c] = f]
          /\ slots' = Append(slots, [fd |-> f, revents |-> "none"])
    BY <1>7, Welcomed
  <2>2. state' = [state EXCEPT ![c] = OpenState(c)]
    BY <1>7, <2>1 DEF Accept
  <2>3. UNCHANGED <<client, shut, pc>> /\ pc = "accept"
    BY <1>7 DEF Accept, loopVars
  <2>4. /\ \A j \in DOMAIN slots : slots'[j] = slots[j]
        /\ DOMAIN slots' = 1..(Len(slots) + 1) /\ DOMAIN slots = 1..Len(slots)
        /\ Len(slots) \in Nat
    BY <1>1, <2>1, AppendedSlots
  <2>5. slots'[Len(slots) + 1].revents = "none"
    <3> DEFINE e == [fd |-> f, revents |-> "none"]
    <3>1. e \in Slots /\ e.revents = "none"
      BY DEF Slots, Revents
    <3> HIDE DEF e, Slots
    <3>2. slots'[Len(slots) + 1] = e
      BY <1>1, <2>1, <3>1 DEF e
    <3> QED
      BY <3>1, <3>2
  <2>6. \A k \in DOMAIN slots : slots[k].fd # f
    <3>1. \A k \in DOMAIN slots :
            slots[k].fd \in SlotFds /\ slots[k].fd \in Fds
      BY <1>3 DEF SlotFds, Slots
    <3>2. f \notin SlotFds
      BY <1>2, <2>1 DEF IInv, TablesAgree
    <3> QED
      BY <3>1, <3>2
  <2>7. \A k \in DOMAIN slots' :
          /\ slots'[k].revents # "NVAL"
          /\ slots'[k].revents = "HUP" =>
               \/ fds'[slots'[k].fd] \in shut
               \/ client[fds'[slots'[k].fd]] = "reset"
    <3>1. \A k \in DOMAIN slots' : k \in DOMAIN slots \/ k = Len(slots) + 1
      BY <2>4
    <3>2. \A k \in DOMAIN slots : fds'[slots[k].fd] = fds[slots[k].fd]
      BY <1>1, <1>3, <2>1, <2>6 DEF Slots
    <3> QED
      BY <1>2, <2>4, <2>5, <3>1, <3>2 DEF ReasonInv
  <2>8. /\ \A d \in Conns : sockFd'[d] = None => state'[d] = "none"
        /\ \A d \in Conns : sockFd'[d] # None => fds'[sockFd'[d]] = d
    BY <1>1, <1>2, <2>1, <2>2 DEF ReasonInv
  <2>9. c \notin shut
    BY <1>1, <1>2, <2>1 DEF ReasonInv
  <2> QED
    BY <1>1, <1>2, <2>2, <2>3, <2>7, <2>8, <2>9 DEF ReasonInv
<1>8. CASE AcceptAndReject
  <2>1. PICK c \in Conns, f \in Fds :
          /\ c = Head(backlog) /\ sockFd[c] = None
          /\ fds[f] = None
          /\ fds' = [fds EXCEPT ![f] = c]
          /\ sockFd' = [sockFd EXCEPT ![c] = f]
          /\ shut' = shut \cup {c}
    BY <1>8, Welcomed
  <2>2. state' = [state EXCEPT ![c] = "NOT_CONNECTED"]
    BY <1>8, <2>1 DEF AcceptAndReject
  <2>3. UNCHANGED <<client, slots, pc>> /\ pc = "accept"
    BY <1>8 DEF AcceptAndReject, loopVars
  <2>4. \A k \in DOMAIN slots : fds'[slots[k].fd] = fds[slots[k].fd]
    <3>1. \A k \in DOMAIN slots :
            slots[k].fd \in SlotFds /\ slots[k].fd \in Fds
      BY <1>3 DEF SlotFds, Slots
    <3>2. f \notin SlotFds
      BY <1>2, <2>1 DEF IInv, TablesAgree
    <3> QED
      BY <1>1, <2>1, <3>1, <3>2
  <2>5. /\ \A d \in Conns : sockFd'[d] = None => state'[d] = "none"
        /\ \A d \in Conns : sockFd'[d] # None => fds'[sockFd'[d]] = d
        /\ \A d \in shut' : state'[d] = "NOT_CONNECTED"
    BY <1>1, <1>2, <2>1, <2>2 DEF ReasonInv
  <2> QED
    BY <1>2, <2>1, <2>3, <2>4, <2>5 DEF ReasonInv
<1>9. CASE RemoveFromTables
  <2>1. /\ conn' = active[slots[i].fd] /\ pc' = "closing"
        /\ slots[i].revents \in {"HUP", "NVAL"}
        /\ UNCHANGED <<fds, shut, sockFd, state, client>>
    BY <1>9 DEF RemoveFromTables
  <2>2. i \in DOMAIN slots
    BY <1>1, <1>9 DEF RemoveFromTables, IInv, TypeOK
  <2>3. state[conn'] = "NOT_CONNECTED" \/ client[conn'] # "open"
    BY <1>2, <2>1, <2>2, GoneInSlots
  <2>4. PICK k \in DOMAIN slots : slots' = Removed(k)
    BY <1>9 DEF RemoveFromTables
  <2>5. /\ DOMAIN slots' = 1..(Len(slots) - 1)
        /\ \A j \in DOMAIN slots' :
             \/ j \in DOMAIN slots /\ slots'[j] = slots[j]
             \/ slots'[j].revents = "none"
    BY <1>1, <2>4 DEF Removed
  <2>6. \A j \in DOMAIN slots' :
          /\ slots'[j].revents # "NVAL"
          /\ slots'[j].revents = "HUP" =>
               \/ fds[slots'[j].fd] \in shut
               \/ client[fds[slots'[j].fd]] = "reset"
    BY <1>2, <2>5 DEF ReasonInv
  <2> QED
    BY <1>2, <2>1, <2>3, <2>6 DEF ReasonInv
<1>10. CASE CloseRemoved \/ ReceiveClosed
  <2>1. conn \in Conns /\ fds[sockFd[conn]] = conn
    BY <1>2, <1>10, OwnPeer DEF CloseRemoved, ReceiveClosed
  <2>2. /\ shut' = shut \cup {conn}
        /\ state' = [state EXCEPT ![conn] = "NOT_CONNECTED"]
    BY <1>10, <2>1 DEF CloseRemoved, ReceiveClosed, Shutdown
  <2>3. UNCHANGED <<fds, slots, sockFd, client>> /\ pc' = "clients"
    BY <1>10 DEF CloseRemoved, ReceiveClosed, NextSlot
  <2>4. sockFd[conn] # None
    BY <1>10, NumConnsAssumption
    DEF CloseRemoved, ReceiveClosed, IInv, SocketInv
  <2> QED
    BY <1>1, <1>2, <2>1, <2>2, <2>3, <2>4 DEF ReasonInv
<1>11. CASE \/ PollBlock \/ PollWake \/ AcceptEnd \/ SkipSlot
            \/ UnknownDescriptor \/ IncomingData \/ ReadFromSocket \/ Receive
            \/ ReceiveError
  BY <1>4, <1>11
  DEF PollBlock, PollWake, AcceptEnd, SkipSlot, UnknownDescriptor,
      IncomingData, ReadFromSocket, Receive, ReceiveError, NextSlot
<1>12. CASE LookUpTimeout \/ Timer \/ Handler \/ PollFails
  BY <1>4, <1>12
  DEF LookUpTimeout, Timer, TimerSticks, Expire, Handler, Write, WriteEnds,
      PollFails, PollError
<1>13. CASE CloseTimedOut
  BY <1>13 DEF CloseTimedOut
<1>14. CASE Client
  <2>1. UNCHANGED <<fds, shut, sockFd, state, slots, pc, conn>>
    BY <1>14 DEF Client, Connect, Send, HangUp
  <2>2. \A c \in Conns :
          /\ client[c] = "reset" => client'[c] = "reset"
          /\ sockFd[c] # None /\ client[c] # "open" => client'[c] # "open"
    BY <1>1, <1>14 DEF Client, Connect, Send, HangUp, IInv, BacklogInv
  <2>3. \A k \in DOMAIN slots : fds[slots[k].fd] \in Conns
    <3>1. \A k \in DOMAIN slots :
            slots[k].fd \in SlotFds /\ slots[k].fd \in Fds
      BY <1>3 DEF SlotFds, Slots
    <3>2. \A k \in DOMAIN slots : fds[slots[k].fd] # None
      BY <1>2, <3>1 DEF IInv, TablesAgree
    <3> QED
      BY <1>1, <3>1, <3>2
  <2>4. pc = "closing" => conn \in Conns /\ sockFd[conn] # None
    BY NumConnsAssumption DEF IInv, TypeOK, SocketInv
  <2> QED
    BY <1>2, <2>1, <2>2, <2>3, <2>4 DEF ReasonInv
<1> QED
  BY <1>5, <1>6, <1>7, <1>8, <1>9, <1>10, <1>11, <1>12, <1>13, <1>14
  DEF Next, Server, Http

\* What a step may close: a connection whose client has gone, or the one
\* timeoutOnSocket was about.
LEMMA ReasonStep ==
  ASSUME IInv, ReasonInv, Next, ~freed
  PROVE  /\ \A c \in Conns :
              state[c] = "CONNECTED" /\ state'[c] = "NOT_CONNECTED" =>
                client[c] # "open" \/ (hpc = "close" /\ target = c)
         /\ hpc = "idle" /\ hpc' = "close" => target' = Head(timeouts)
<1>1. /\ fds \in [Fds -> Conns \cup {None}]
      /\ active \in [Fds -> Conns \cup {None}]
      /\ state \in [Conns -> {"none", "CONNECTED", "NOT_CONNECTED"}]
  BY DEF IInv, TypeOK
<1>2. CASE UNCHANGED <<state, hpc>>
  BY <1>2
<1>3. CASE Accept
  <2>1. PICK c \in Conns : c = Head(backlog) /\ sockFd[c] = None
    BY <1>3, Welcomed
  <2>2. state[c] # "CONNECTED"
    BY <2>1 DEF ReasonInv
  <2>3. state' = [state EXCEPT ![c] = OpenState(c)] /\ UNCHANGED hpc
    BY <1>3, <2>1 DEF Accept
  <2> QED
    BY <1>1, <2>2, <2>3
<1>4. CASE AcceptAndReject
  <2>1. PICK c \in Conns : c = Head(backlog) /\ sockFd[c] = None
    BY <1>4, Welcomed
  <2>2. state[c] # "CONNECTED"
    BY <2>1 DEF ReasonInv
  <2>3. state' = [state EXCEPT ![c] = "NOT_CONNECTED"] /\ UNCHANGED hpc
    BY <1>4, <2>1 DEF AcceptAndReject
  <2> QED
    BY <1>1, <2>2, <2>3
<1>5. CASE CloseRemoved
  <2>1. conn \in Conns
    BY <1>5, OwnPeer DEF CloseRemoved
  <2>2. state[conn] = "NOT_CONNECTED" \/ client[conn] # "open"
    BY <1>5 DEF CloseRemoved, ReasonInv
  <2>3. state' = [state EXCEPT ![conn] = "NOT_CONNECTED"] /\ UNCHANGED hpc
    BY <1>5 DEF CloseRemoved, Shutdown
  <2> QED
    BY <1>1, <2>1, <2>2, <2>3
<1>6. CASE ReceiveClosed
  <2>1. conn \in Conns /\ Peer = conn
    BY <1>6, OwnPeer DEF ReceiveClosed, Peer
  <2>2. client[conn] = "closed" \/ conn \in shut
    BY <1>6, <2>1 DEF ReceiveClosed
  <2>3. state[conn] = "NOT_CONNECTED" \/ client[conn] # "open"
    BY <2>2 DEF ReasonInv
  <2>4. state' = [state EXCEPT ![conn] = "NOT_CONNECTED"] /\ UNCHANGED hpc
    BY <1>6 DEF ReceiveClosed, Shutdown
  <2> QED
    BY <1>1, <2>1, <2>3, <2>4
<1>7. CASE CloseTimedOut
  <2>1. /\ hpc = "close" /\ hpc' = "idle"
        /\ state' = [state EXCEPT ![target] = "NOT_CONNECTED"]
    BY <1>7 DEF CloseTimedOut
  <2> QED
    BY <1>1, <2>1
<1>8. CASE LookUpTimeout
  <2>1. UNCHANGED state
    BY <1>8 DEF LookUpTimeout
  <2>2. ASSUME hpc = "idle", hpc' = "close" PROVE target' = Head(timeouts)
    <3>1. PICK f \in Fds : /\ timeoutOf[f] = Head(timeouts)
                           /\ active[f] # None
                           /\ target' = active[f]
      BY <1>8, <2>2 DEF LookUpTimeout
    <3>2. f \in SlotFds
      BY <3>1 DEF IInv, TablesAgree
    <3> QED
      BY <3>1, <3>2 DEF IInv, TablesAgree
  <2> QED
    BY <2>1, <2>2
<1>9. CASE \/ Poll \/ PollBlock \/ PollWake \/ AcceptEnd \/ SkipSlot
           \/ EndOfSlots \/ UnknownDescriptor \/ RemoveFromTables
           \/ IncomingData \/ ReadFromSocket \/ Receive \/ ReceiveError
  BY <1>2, <1>9
  DEF Poll, PollBlock, PollWake, AcceptEnd, SkipSlot, EndOfSlots,
      UnknownDescriptor, RemoveFromTables, IncomingData, ReadFromSocket,
      Receive, ReceiveError
<1>10. CASE Timer \/ Client \/ Handler \/ PollFails
  BY <1>2, <1>10
  DEF Timer, TimerSticks, Expire, Handler, Write, WriteEnds, PollFails,
      PollError, Client, Connect, Send, HangUp
<1> QED
  BY <1>3, <1>4, <1>5, <1>6, <1>7, <1>8, <1>9, <1>10 DEF Next, Server, Http

\* Until timeoutOnSocket has freed a descriptor, no connection is closed for
\* what happened to another: not by the events of a list that shifts while the
\* loop walks it, nor by a timeout that is looked up late.
THEOREM NobodyElseIsClosed == Spec => ClosedForItsOwnReason
<1>1. IInv /\ ReasonInv /\ [Next]_vars => ReasonInv'
  <2>1. CASE UNCHANGED vars
    BY <2>1 DEF vars, ReasonInv
  <2> QED
    BY <2>1, ReasonNext
<1>2. IInv /\ ReasonInv /\ [Next]_vars =>
        [~freed =>
           /\ \A c \in Conns :
                state[c] = "CONNECTED" /\ state'[c] = "NOT_CONNECTED" =>
                  client[c] # "open" \/ (hpc = "close" /\ target = c)
           /\ hpc = "idle" /\ hpc' = "close" => target' = Head(timeouts)]_vars
  BY ReasonStep
<1> QED
  BY <1>1, <1>2, ReasonInit, Inductive, PTL DEF Spec, ClosedForItsOwnReason
-----------------------------------------------------------------------------
(* The server implements Admission, also when its tables disagree.         *)

\* Clients wait in the order in which they come, and those who have not come are
\* the last ones.
QueueInv ==
  /\ \A j, k \in DOMAIN backlog : j < k => backlog[j] < backlog[k]
  /\ \A b, c \in Conns : b < c /\ client[b] = "away" => client[c] = "away"
  /\ \A c \in Conns : state[c] # "none" => sockFd[c] # None

\* One connection of R for each entry of the list: those in the map, and those that
\* are connected, but the one that has been taken from the tables to be closed.
Seated(R) ==
  /\ Cardinality(R) = Len(slots)
  /\ \A c \in R : sockFd[c] # None
  /\ \A f \in Fds : active[f] # None => active[f] \in R
  /\ \A c \in Conns :
       state[c] = "CONNECTED" => c \in R \/ (pc = "closing" /\ c = conn)

\* A descriptor may be used again while the list and the map still have the earlier
\* connection's entries, so that neither tells who is connected.
SeatInv == \E R \in SUBSET Conns : Seated(R)

AInv == IInv /\ QueueInv /\ SeatInv

LEMMA AInit == Init => QueueInv /\ SeatInv
<1> SUFFICES ASSUME Init PROVE QueueInv /\ SeatInv
  OBVIOUS
<1>1. QueueInv
  BY DEF QueueInv, Init
<1>2. Seated({})
  <2>1. Cardinality({}) = 0 /\ Len(slots) = 0
    BY FS_EmptySet DEF Init
  <2> QED
    BY <2>1 DEF Seated, Init
<1> QED
  BY <1>1, <1>2 DEF SeatInv

\* What Accept and AcceptAndReject make of the client's state.
LEMMA WelcomedState ==
  ASSUME IInv, Accept \/ AcceptAndReject
  PROVE  \E c \in Conns, f \in Fds :
           /\ c = Head(backlog) /\ client[c] # "away" /\ sockFd[c] = None
           /\ sockFd' = [sockFd EXCEPT ![c] = f]
           /\ state' = [state EXCEPT ![c] = IF Accept THEN OpenState(c)
                                            ELSE "NOT_CONNECTED"]
           /\ Accept => /\ slots' = Append(slots, [fd |-> f, revents |-> "none"])
                        /\ active' = Inserted(active, f, c)
           /\ AcceptAndReject => UNCHANGED <<slots, active>>
           /\ pc = "accept" /\ pc' = "accept"
           /\ UNCHANGED client
           /\ Len(backlog) \in Nat \ {0}
           /\ Len(backlog') = Len(backlog) - 1
           /\ \A j \in DOMAIN backlog' :
                /\ j + 1 \in DOMAIN backlog
                /\ backlog'[j] = backlog[j + 1]
                /\ backlog'[j] # c
<1>1. PICK c \in Conns, f \in Fds :
           /\ c = Head(backlog) /\ client[c] # "away" /\ sockFd[c] = None
           /\ sockFd' = [sockFd EXCEPT ![c] = f]
           /\ Accept => /\ slots' = Append(slots, [fd |-> f, revents |-> "none"])
                        /\ active' = Inserted(active, f, c)
           /\ Len(backlog) \in Nat \ {0}
           /\ Len(backlog') = Len(backlog) - 1
           /\ \A j \in DOMAIN backlog' :
                /\ j + 1 \in DOMAIN backlog
                /\ backlog'[j] = backlog[j + 1]
                /\ backlog'[j] # c
  BY Welcomed
<1>2. CASE Accept
  <2>1. ~AcceptAndReject
    BY <1>2 DEF Accept, AcceptAndReject
  <2>2. /\ state' = [state EXCEPT ![c] = OpenState(c)]
        /\ pc = "accept" /\ pc' = "accept" /\ UNCHANGED client
    BY <1>1, <1>2 DEF Accept
  <2> QED
    BY <1>1, <1>2, <2>1, <2>2, Zenon
<1>3. CASE AcceptAndReject
  <2>1. ~Accept
    BY <1>3 DEF Accept, AcceptAndReject
  <2>2. /\ state' = [state EXCEPT ![c] = "NOT_CONNECTED"]
        /\ UNCHANGED <<slots, active>>
        /\ pc = "accept" /\ pc' = "accept" /\ UNCHANGED client
    BY <1>1, <1>3 DEF AcceptAndReject
  <2> QED
    BY <1>1, <1>3, <2>1, <2>2, Zenon
<1> QED
  BY <1>2, <1>3

\* What the other actions do with the sockets: one is closed at most.
Closing(c) == c \in Conns /\ state' = [state EXCEPT ![c] = "NOT_CONNECTED"]

LEMMA OthersClose ==
  ASSUME IInv, Next, ~Accept, ~AcceptAndReject
  PROVE  /\ UNCHANGED sockFd
         /\ state' = state \/ \E c \in Conns : Closing(c) /\ sockFd[c] # None
<1>1. CASE CloseRemoved \/ ReceiveClosed
  <2>1. conn \in Conns /\ sockFd[conn] # None
    BY <1>1 DEF CloseRemoved, ReceiveClosed, IInv, TypeOK, SocketInv
  <2>2. state' = [state EXCEPT ![conn] = "NOT_CONNECTED"] /\ UNCHANGED sockFd
    BY <1>1 DEF CloseRemoved, ReceiveClosed, Shutdown
  <2> QED
    BY <2>1, <2>2 DEF Closing
<1>2. CASE CloseTimedOut
  <2>1. target \in Conns /\ sockFd[target] # None
    BY <1>2 DEF CloseTimedOut, IInv, TypeOK, SocketInv
  <2>2. state' = [state EXCEPT ![target] = "NOT_CONNECTED"] /\ UNCHANGED sockFd
    BY <1>2 DEF CloseTimedOut
  <2> QED
    BY <2>1, <2>2 DEF Closing
<1>3. CASE \/ Poll \/ PollBlock \/ PollWake \/ AcceptEnd \/ SkipSlot
           \/ EndOfSlots \/ UnknownDescriptor \/ RemoveFromTables
           \/ IncomingData \/ ReadFromSocket \/ Receive \/ ReceiveError
           \/ LookUpTimeout
  BY <1>3
  DEF Poll, PollBlock, PollWake, AcceptEnd, SkipSlot, EndOfSlots,
      UnknownDescriptor, RemoveFromTables, IncomingData, ReadFromSocket,
      Receive, ReceiveError, LookUpTimeout
<1>4. CASE Timer \/ Client \/ Handler \/ PollFails
  BY <1>4
  DEF Timer, TimerSticks, Expire, Handler, Write, WriteEnds, PollFails,
      PollError, Client, Connect, Send, HangUp
<1> QED
  BY <1>1, <1>2, <1>3, <1>4 DEF Next, Server, Http

\* Only Connect and accept move the backlog, and only clients change theirs.
LEMMA OthersQueue ==
  ASSUME IInv, Next, ~Accept, ~AcceptAndReject, \A c \in Conns : ~Connect(c)
  PROVE  /\ UNCHANGED backlog
         /\ \A c \in Conns : client'[c] = "away" <=> client[c] = "away"
<1>1. client \in [Conns -> {"away", "open", "closed", "reset"}]
  BY DEF IInv, TypeOK
<1>2. CASE Server
  BY <1>2
  DEF Server, Poll, PollBlock, PollWake, AcceptEnd, SkipSlot, EndOfSlots,
      UnknownDescriptor, RemoveFromTables, CloseRemoved, IncomingData,
      ReadFromSocket, Receive, ReceiveClosed, ReceiveError
<1>3. CASE Http \/ Timer \/ Handler \/ PollFails
  BY <1>3
  DEF Http, LookUpTimeout, CloseTimedOut, Timer, TimerSticks, Expire, Handler,
      Write, WriteEnds, PollFails, PollError
<1>4. CASE Client
  BY <1>1, <1>4 DEF Client, Send, HangUp
<1> QED
  BY <1>2, <1>3, <1>4 DEF Next

\* What Connect does.
LEMMA Connected ==
  ASSUME IInv, NEW c \in Conns, Connect(c)
  PROVE  /\ client[c] = "away" /\ client' = [client EXCEPT ![c] = "open"]
         /\ \A b \in Conns : b < c => client[b] # "away"
         /\ UNCHANGED <<sockFd, state>>
         /\ DOMAIN backlog = 1..Len(backlog) /\ Len(backlog) \in Nat
         /\ DOMAIN backlog' = 1..(Len(backlog) + 1)
         /\ backlog'[Len(backlog) + 1] = c
         /\ \A j \in 1..Len(backlog) : backlog'[j] = backlog[j]
<1>1. /\ client[c] = "away" /\ client' = [client EXCEPT ![c] = "open"]
      /\ \A b \in Conns : b < c => client[b] # "away"
      /\ backlog' = Append(backlog, c) /\ UNCHANGED <<sockFd, state>>
  BY DEF Connect
<1>2. backlog \in Seq(Conns)
  BY DEF IInv, TypeOK
<1>3. /\ DOMAIN backlog = 1..Len(backlog) /\ Len(backlog) \in Nat
      /\ DOMAIN backlog' = 1..(Len(backlog) + 1)
      /\ backlog'[Len(backlog) + 1] = c
      /\ \A j \in 1..Len(backlog) : backlog'[j] = backlog[j]
  BY ONLY <1>1, <1>2
<1> QED
  BY <1>1, <1>3

LEMMA QueueNext == IInv /\ QueueInv /\ Next => QueueInv'
<1> SUFFICES ASSUME IInv, QueueInv, Next PROVE QueueInv'
  OBVIOUS
<1>1. /\ client \in [Conns -> {"away", "open", "closed", "reset"}]
      /\ sockFd \in [Conns -> Fds \cup {None}]
      /\ state \in [Conns -> {"none", "CONNECTED", "NOT_CONNECTED"}]
      /\ backlog \in Seq(Conns)
  BY DEF IInv, TypeOK
<1>2. \A j \in DOMAIN backlog : backlog[j] \in Conns /\ client[backlog[j]] # "away"
  BY <1>1, ElementsOfSeq DEF IInv, BacklogInv
<1>3. CASE Accept \/ AcceptAndReject
  <2>1. PICK c \in Conns, f \in Fds :
           /\ sockFd' = [sockFd EXCEPT ![c] = f]
           /\ state' = [state EXCEPT ![c] = IF Accept THEN OpenState(c)
                                            ELSE "NOT_CONNECTED"]
           /\ UNCHANGED client
           /\ \A j \in DOMAIN backlog' :
                /\ j + 1 \in DOMAIN backlog
                /\ backlog'[j] = backlog[j + 1]
    BY <1>3, WelcomedState
  <2>2. \A b \in Conns : state'[b] # "none" => sockFd'[b] # None
    BY <1>1, <2>1, NumConnsAssumption DEF QueueInv
  <2>3. \A j \in DOMAIN backlog' : j \in Nat
    <3>1. backlog # <<>> /\ backlog' = Tail(backlog)
      BY <1>3 DEF Accept, AcceptAndReject
    <3> QED
      BY ONLY <1>1, <3>1
  <2>4. ASSUME NEW j \in DOMAIN backlog', NEW k \in DOMAIN backlog', j < k
        PROVE  backlog'[j] < backlog'[k]
    <3>1. j + 1 < k + 1
      BY <2>3, <2>4
    <3> QED
      BY <2>1, <3>1 DEF QueueInv
  <2> QED
    BY <2>1, <2>2, <2>4 DEF QueueInv
<1>4. ASSUME NEW c \in Conns, Connect(c) PROVE QueueInv'
  <2>1. /\ client[c] = "away" /\ client' = [client EXCEPT ![c] = "open"]
        /\ \A b \in Conns : b < c => client[b] # "away"
        /\ UNCHANGED <<sockFd, state>>
    BY <1>4, Connected
  <2>2. /\ DOMAIN backlog = 1..Len(backlog) /\ Len(backlog) \in Nat
        /\ DOMAIN backlog' = 1..(Len(backlog) + 1)
        /\ backlog'[Len(backlog) + 1] = c
        /\ \A j \in 1..Len(backlog) : backlog'[j] = backlog[j]
    BY <1>4, Connected
  <2>3. \A j \in DOMAIN backlog : backlog[j] < c
    <3> SUFFICES ASSUME NEW j \in DOMAIN backlog PROVE backlog[j] < c
      OBVIOUS
    <3>1. PICK b \in Conns : b = backlog[j] /\ client[b] # "away"
      BY <1>2
    <3>2. ~(c < b) /\ b # c
      BY <2>1, <3>1 DEF QueueInv
    <3>3. b \in Nat /\ c \in Nat
      BY NumConnsAssumption
    <3> QED
      BY <3>1, <3>2, <3>3
  <2>4. ASSUME NEW j \in DOMAIN backlog', NEW k \in DOMAIN backlog', j < k
        PROVE  backlog'[j] < backlog'[k]
    <3>1. j \in 1..Len(backlog)
      BY <2>2, <2>4
    <3>2. CASE k \in 1..Len(backlog)
      BY <2>2, <2>4, <3>1, <3>2 DEF QueueInv
    <3>3. CASE k = Len(backlog) + 1
      BY <2>2, <2>3, <3>1, <3>3
    <3> QED
      BY <2>2, <3>2, <3>3
  <2>5. \A a, b \in Conns : a < b /\ client'[a] = "away" => client'[b] = "away"
    <3> SUFFICES ASSUME NEW a \in Conns, NEW b \in Conns, a < b, client'[a] = "away"
                 PROVE  client'[b] = "away"
      OBVIOUS
    <3>1. a # c /\ client[a] = "away"
      BY <1>1, <2>1
    <3>2. b # c
      BY <2>1, <3>1
    <3>3. client[b] = "away"
      BY <3>1 DEF QueueInv
    <3> QED
      BY <1>1, <2>1, <3>2, <3>3
  <2> QED
    BY <2>1, <2>4, <2>5 DEF QueueInv
<1>5. CASE /\ ~Accept /\ ~AcceptAndReject
           /\ \A c \in Conns : ~Connect(c)
  <2>1. /\ UNCHANGED <<backlog, sockFd>>
        /\ \A c \in Conns : client'[c] = "away" <=> client[c] = "away"
    BY <1>5, OthersClose, OthersQueue
  <2>2. state' = state \/ \E c \in Conns : Closing(c) /\ sockFd[c] # None
    BY <1>5, OthersClose
  <2>3. \A c \in Conns : state'[c] # "none" => sockFd'[c] # None
    BY <1>1, <2>1, <2>2 DEF QueueInv, Closing
  <2> QED
    BY <2>1, <2>3 DEF QueueInv
<1> QED
  BY <1>3, <1>4, <1>5
-----------------------------------------------------------------------------
\* Who is seated stays so when nobody is seated or taken from a seat.
LEMMA SeatKept ==
  ASSUME NEW R, Seated(R), Len(slots') = Len(slots), UNCHANGED <<sockFd, active>>,
         \A c \in Conns : state'[c] = "CONNECTED" =>
           /\ state[c] = "CONNECTED"
           /\ pc = "closing" /\ c = conn => pc' = "closing" /\ c = conn'
  PROVE  Seated(R)'
BY DEF Seated

LEMMA SeatNext == IInv /\ QueueInv /\ SeatInv /\ Next => SeatInv'
<1> SUFFICES ASSUME IInv, QueueInv, SeatInv, Next PROVE SeatInv'
  OBVIOUS
<1>1. /\ sockFd \in [Conns -> Fds \cup {None}]
      /\ active \in [Fds -> Conns \cup {None}]
      /\ state \in [Conns -> {"none", "CONNECTED", "NOT_CONNECTED"}]
      /\ slots \in Seq(Slots) /\ Len(slots) \in Nat
  BY DEF IInv, TypeOK, Slots
<1>2. PICK R \in SUBSET Conns : Seated(R)
  BY DEF SeatInv
<1>3. IsFiniteSet(R)
  <2>1. IsFiniteSet(1..NumConns)
    BY FS_Interval, NumConnsAssumption
  <2> QED
    BY <2>1, FS_Subset
<1>4. CASE Accept
  <2>1. PICK c \in Conns, f \in Fds :
           /\ sockFd[c] = None
           /\ sockFd' = [sockFd EXCEPT ![c] = f]
           /\ state' = [state EXCEPT ![c] = OpenState(c)]
           /\ slots' = Append(slots, [fd |-> f, revents |-> "none"])
           /\ active' = Inserted(active, f, c)
           /\ pc = "accept"
    BY <1>4, WelcomedState
  <2>2. c \notin R
    BY <1>2, <2>1 DEF Seated
  <2>3. Cardinality(R \cup {c}) = Len(slots')
    <3>1. Cardinality(R \cup {c}) = Cardinality(R) + 1
      BY <1>3, <2>2, FS_AddElement
    <3>2. Len(slots') = Len(slots) + 1
      BY <1>1, <2>1
    <3> QED
      BY <1>2, <3>1, <3>2 DEF Seated
  <2>4. \A b \in R \cup {c} : sockFd'[b] # None
    BY <1>1, <1>2, <2>1, NumConnsAssumption DEF Seated
  <2>5. \A g \in Fds : active'[g] # None => active'[g] \in R \cup {c}
    BY <1>1, <1>2, <2>1 DEF Seated, Inserted
  <2>6. \A b \in Conns : state'[b] = "CONNECTED" => b \in R \cup {c}
    BY <1>1, <1>2, <2>1 DEF Seated
  <2>7. Seated(R \cup {c})'
    BY <2>3, <2>4, <2>5, <2>6 DEF Seated
  <2> QED
    BY <2>7 DEF SeatInv
<1>5. CASE AcceptAndReject
  <2>1. ~Accept
    BY <1>5 DEF Accept, AcceptAndReject
  <2>2. PICK c \in Conns, f \in Fds :
           /\ sockFd' = [sockFd EXCEPT ![c] = f]
           /\ state' = [state EXCEPT ![c] = "NOT_CONNECTED"]
           /\ UNCHANGED <<slots, active>>
           /\ pc = "accept"
    BY <1>5, <2>1, WelcomedState
  <2>3. \A b \in R : sockFd'[b] # None
    BY <1>1, <1>2, <2>2, NumConnsAssumption DEF Seated
  <2>4. \A b \in Conns : state'[b] = "CONNECTED" => b \in R
    BY <1>1, <1>2, <2>2 DEF Seated
  <2>5. Seated(R)'
    BY <1>2, <2>2, <2>3, <2>4 DEF Seated
  <2> QED
    BY <2>5 DEF SeatInv
<1>6. CASE RemoveFromTables
  <2>1. PICK f \in Fds, c \in Conns \cup {None} : f = slots[i].fd /\ c = active[f]
    <3>1. i \in 1..Len(slots)
      BY <1>6 DEF RemoveFromTables, IInv, TypeOK
    <3>2. slots[i] \in Slots
      BY <1>1, <3>1
    <3> QED
      BY <1>1, <3>2 DEF Slots
  <2>2. PICK k \in DOMAIN slots : slots' = Removed(k)
    BY <1>6 DEF RemoveFromTables
  <2>3. /\ c # None /\ conn' = c /\ pc = "clients" /\ pc' = "closing"
        /\ active' = [active EXCEPT ![f] = None]
        /\ UNCHANGED <<sockFd, state>>
    BY <1>6, <2>1 DEF RemoveFromTables
  <2>4. c \in R
    BY <1>2, <2>1, <2>3 DEF Seated
  <2>5. \A g \in Fds : g # f /\ active[g] # None => active[g] # c
    BY <2>1, <2>3 DEF IInv, SocketInv
  <2>6. Cardinality(R \ {c}) = Len(slots')
    <3>1. Cardinality(R \ {c}) = Cardinality(R) - 1
      BY <1>3, <2>4, FS_RemoveElement
    <3>2. Len(slots') = Len(slots) - 1
      BY <1>1, <2>2, RemovedSlots
    <3> QED
      BY <1>2, <3>1, <3>2 DEF Seated
  <2>7. \A b \in R \ {c} : sockFd'[b] # None
    BY <1>2, <2>3 DEF Seated
  <2>8. \A g \in Fds : active'[g] # None => active'[g] \in R \ {c}
    BY <1>1, <1>2, <2>1, <2>3, <2>5 DEF Seated
  <2>9. \A b \in Conns : state'[b] = "CONNECTED" => b \in R \ {c} \/ b = conn'
    BY <1>2, <2>3 DEF Seated
  <2>10. Seated(R \ {c})'
    BY <2>3, <2>6, <2>7, <2>8, <2>9 DEF Seated
  <2> QED
    BY <2>10 DEF SeatInv
<1>7. CASE ~Accept /\ ~AcceptAndReject /\ ~RemoveFromTables
  <2>1. UNCHANGED <<sockFd, active>> /\ Len(slots') = Len(slots)
    <3>1. CASE Poll \/ EndOfSlots
      BY <3>1, SameList
    <3>2. CASE \/ PollBlock \/ PollWake \/ AcceptEnd \/ SkipSlot
               \/ UnknownDescriptor \/ CloseRemoved \/ IncomingData
               \/ ReadFromSocket \/ Receive \/ ReceiveClosed \/ ReceiveError
      BY <3>2
      DEF PollBlock, PollWake, AcceptEnd, SkipSlot, UnknownDescriptor,
          CloseRemoved, IncomingData, ReadFromSocket, Receive, ReceiveClosed,
          ReceiveError
    <3>3. CASE Http \/ Timer \/ Client \/ Handler \/ PollFails
      BY <3>3
      DEF Http, LookUpTimeout, CloseTimedOut, Timer, TimerSticks, Expire,
          Handler, Write, WriteEnds, PollFails, PollError, Client, Connect,
          Send, HangUp
    <3> QED
      BY <1>7, <3>1, <3>2, <3>3 DEF Next, Server
  <2>2. \A c \in Conns : state'[c] = "CONNECTED" => state[c] = "CONNECTED"
    <3>1. state' = state \/ \E c \in Conns : Closing(c)
      BY <1>7, OthersClose
    <3> QED
      BY <1>1, <3>1 DEF Closing
  <2>3. ASSUME pc = "closing", state'[conn] = "CONNECTED", conn \in Conns
        PROVE  pc' = "closing" /\ conn' = conn
    <3>1. CASE CloseRemoved
      BY <1>1, <2>3, <3>1 DEF CloseRemoved, Shutdown
    <3>2. CASE Server /\ ~CloseRemoved
      BY <1>7, <2>3, <3>2
      DEF Server, Poll, PollBlock, PollWake, AcceptEnd, SkipSlot, EndOfSlots,
          UnknownDescriptor, IncomingData, ReadFromSocket, Receive,
          ReceiveClosed, ReceiveError
    <3>3. CASE Http \/ Timer \/ Client \/ Handler \/ PollFails
      BY <2>3, <3>3
      DEF Http, LookUpTimeout, CloseTimedOut, Timer, TimerSticks, Expire,
          Handler, Write, WriteEnds, PollFails, PollError, Client, Connect,
          Send, HangUp
    <3> QED
      BY <3>1, <3>2, <3>3 DEF Next
  <2>4. Seated(R)'
    BY <1>2, <2>1, <2>2, <2>3, SeatKept
  <2> QED
    BY <2>4 DEF SeatInv
<1> QED
  BY <1>4, <1>5, <1>6, <1>7

LEMMA AdmissionInvariant == Spec => []AInv
<1>1. IInv /\ QueueInv /\ SeatInv /\ [Next]_vars => QueueInv' /\ SeatInv'
  <2>1. CASE UNCHANGED vars
    BY <2>1 DEF vars, QueueInv, SeatInv, Seated
  <2> QED
    BY <2>1, QueueNext, SeatNext
<1>2. Spec => [](QueueInv /\ SeatInv)
  BY <1>1, AInit, Inductive, PTL DEF Spec
<1> QED
  BY <1>2, Inductive, PTL DEF AInv
-----------------------------------------------------------------------------
\* Client c, and nobody else, gets from one phase to another.
Turned(c, from, to) ==
  /\ Phase(c) = from /\ Phase(c)' = to
  /\ \A b \in Conns : b # c => Phase(b)' = Phase(b)

LEMMA TurnRefines ==
  ASSUME NEW c \in Conns, NEW from, NEW to, Turned(c, from, to)
  PROVE  Admitted!Turn(c, from, to)
BY DEF Turned, Admitted!Turn

SamePhases == \A c \in Conns : Phase(c)' = Phase(c)

\* A phase depends on no more of the backlog than who is in it.
LEMMA PhaseKept ==
  ASSUME NEW c, (client[c] = "away" <=> client'[c] = "away"),
         (c \in ToSet(backlog) <=> c \in ToSet(backlog')),
         (state[c] = "CONNECTED" <=> state'[c] = "CONNECTED")
  PROVE  Phase(c)' = Phase(c)
BY DEF Phase

LEMMA ConnectRefines ==
  ASSUME AInv, NEW c \in Conns, Connect(c)
  PROVE  Admitted!Come(c)
<1>1. /\ client[c] = "away" /\ client' = [client EXCEPT ![c] = "open"]
      /\ \A b \in Conns : b < c => client[b] # "away"
      /\ UNCHANGED state
  BY Connected DEF AInv
<1>2. /\ DOMAIN backlog = 1..Len(backlog) /\ Len(backlog) \in Nat
      /\ DOMAIN backlog' = 1..(Len(backlog) + 1)
      /\ backlog'[Len(backlog) + 1] = c
      /\ \A j \in 1..Len(backlog) : backlog'[j] = backlog[j]
  BY Connected DEF AInv
<1>3. ToSet(backlog') = ToSet(backlog) \cup {c}
  <2>1. DOMAIN backlog' = DOMAIN backlog \cup {Len(backlog) + 1}
    BY <1>2
  <2> QED
    BY <1>2, <2>1 DEF ToSet
<1>4. client \in [Conns -> {"away", "open", "closed", "reset"}]
  BY DEF AInv, IInv, TypeOK
<1>5. Phase(c) = "away" /\ Phase(c)' = "waiting"
  BY <1>1, <1>3, <1>4 DEF Phase
<1>6. \A b \in Conns : b # c => Phase(b)' = Phase(b)
  BY <1>1, <1>3, <1>4, PhaseKept
<1>7. Admitted!Turn(c, "away", "waiting")
  BY <1>5, <1>6, TurnRefines DEF Turned
<1>8. \A b \in Conns : b < c => Phase(b) # "away"
  BY <1>1 DEF Phase
<1> QED
  BY <1>7, <1>8 DEF Admitted!Come

\* Everybody who came before the first in the backlog has left it.
LEMMA HeadIsFirst ==
  ASSUME AInv, NEW c \in Conns, backlog # <<>>, c = Head(backlog)
  PROVE  Admitted!First(c)
<1>1. backlog \in Seq(Conns)
  BY DEF AInv, IInv, TypeOK
<1>2. /\ DOMAIN backlog = 1..Len(backlog) /\ Len(backlog) \in Nat
      /\ c = backlog[1] /\ 1 \in DOMAIN backlog
  BY <1>1, FirstOfSeq
<1>3. ASSUME NEW b \in Conns, b < c PROVE client[b] # "away" /\ b \notin ToSet(backlog)
  <2>1. client[c] # "away"
    BY <1>2 DEF AInv, IInv, BacklogInv
  <2>2. client[b] # "away"
    BY <1>3, <2>1 DEF AInv, QueueInv
  <2>3. ASSUME NEW j \in DOMAIN backlog, backlog[j] = b PROVE FALSE
    <3>1. CASE j = 1
      BY <1>2, <1>3, <2>3, <3>1, NumConnsAssumption
    <3>2. CASE j # 1
      <4>1. 1 < j
        BY <1>2, <3>2
      <4>2. c < b
        BY <1>2, <2>3, <4>1 DEF AInv, QueueInv
      <4> QED
        BY <1>3, <4>2, NumConnsAssumption
    <3> QED
      BY <3>1, <3>2
  <2> QED
    BY <2>2, <2>3 DEF ToSet
<1> QED
  BY <1>3 DEF Admitted!First, Phase

\* Whoever is served has a seat of his own, and there is one left.
LEMMA RoomLeft ==
  ASSUME AInv, Accept, maxConnSize > 0
  PROVE  Admitted!Cardinality(Admitted!Served) + 1 < maxConnSize
<1>1. PICK R \in SUBSET Conns : Seated(R)
  BY DEF AInv, SeatInv
<1>2. IsFiniteSet(R)
  <2>1. IsFiniteSet(1..NumConns)
    BY FS_Interval, NumConnsAssumption
  <2> QED
    BY <2>1, FS_Subset
<1>3. Admitted!Served \subseteq R
  BY <1>1 DEF Admitted!Served, Phase, Seated, Accept
<1>4. /\ Cardinality(Admitted!Served) <= Len(slots)
      /\ Cardinality(Admitted!Served) \in Nat
  <2>1. /\ IsFiniteSet(Admitted!Served)
        /\ Cardinality(Admitted!Served) <= Cardinality(R)
    BY <1>2, <1>3, FS_Subset
  <2> QED
    BY <1>1, <2>1, FS_CardinalityType DEF Seated
<1>5. Len(slots) + 1 < maxConnSize
  <2>1. Len(slots) \in Nat /\ maxConnSize \in Int
    BY LimitsAssumption DEF AInv, IInv, TypeOK
  <2>2. Len(slots) + 1 <= maxConnSize /\ Len(slots) + 1 # maxConnSize
    BY DEF AInv, IInv, SizeInv, SocketListFits, Accept, Full
  <2> QED
    BY <2>1, <2>2
<1>6. Admitted!Cardinality(Admitted!Served) = Cardinality(Admitted!Served)
  BY DEF Cardinality, Admitted!Cardinality
<1>7. Len(slots) \in Nat /\ maxConnSize \in Int
  BY LimitsAssumption DEF AInv, IInv, TypeOK
<1> QED
  BY <1>4, <1>5, <1>6, <1>7

\* Accept serves the first in the backlog, or turns away one that is gone.
LEMMA AcceptRefines ==
  ASSUME AInv, Accept \/ AcceptAndReject
  PROVE  \E c \in Conns : Admitted!Serve(c) \/ Admitted!TurnAway(c)
<1>1. PICK c \in Conns :
        /\ c = Head(backlog) /\ client[c] # "away"
        /\ state' = [state EXCEPT ![c] = IF Accept THEN OpenState(c)
                                         ELSE "NOT_CONNECTED"]
        /\ UNCHANGED client
        /\ Len(backlog) \in Nat \ {0}
        /\ Len(backlog') = Len(backlog) - 1
        /\ \A j \in DOMAIN backlog' : /\ j + 1 \in DOMAIN backlog
                                      /\ backlog'[j] = backlog[j + 1]
                                      /\ backlog'[j] # c
  BY WelcomedState DEF AInv
<1>2. backlog \in Seq(Conns) /\ backlog # <<>> /\ backlog' = Tail(backlog)
  BY DEF AInv, IInv, TypeOK, Accept, AcceptAndReject
<1>3. /\ DOMAIN backlog = 1..Len(backlog) /\ c = backlog[1] /\ 1 \in DOMAIN backlog
      /\ DOMAIN backlog' = 1..(Len(backlog) - 1)
  BY <1>1, <1>2, FirstOfSeq
<1>4. c \in ToSet(backlog) /\ c \notin ToSet(backlog')
  BY <1>1, <1>3 DEF ToSet
<1>5. ASSUME NEW b \in Conns, b # c PROVE b \in ToSet(backlog) <=> b \in ToSet(backlog')
  <2>1. ASSUME NEW j \in DOMAIN backlog, backlog[j] = b
        PROVE  \E k \in DOMAIN backlog' : backlog'[k] = b
    <3>1. j # 1
      BY <1>3, <1>5, <2>1
    <3>2. j - 1 \in DOMAIN backlog' /\ (j - 1) + 1 = j
      BY <1>1, <1>3, <3>1
    <3> QED
      BY <1>1, <2>1, <3>2
  <2>2. ASSUME NEW j \in DOMAIN backlog', backlog'[j] = b
        PROVE  \E k \in DOMAIN backlog : backlog[k] = b
    BY <1>1, <2>2
  <2> QED
    BY <2>1, <2>2 DEF ToSet
<1>6. state \in [Conns -> {"none", "CONNECTED", "NOT_CONNECTED"}]
  BY DEF AInv, IInv, TypeOK
<1>7. \A b \in Conns : b # c => Phase(b)' = Phase(b)
  BY <1>1, <1>5, <1>6, PhaseKept
<1>8. Phase(c) = "waiting"
  BY <1>1, <1>4 DEF Phase
<1>9. Admitted!First(c)
  BY <1>1, <1>2, HeadIsFirst
<1>10. CASE Accept /\ OpenState(c) = "CONNECTED"
  <2>1. Phase(c)' = "served"
    BY <1>1, <1>4, <1>6, <1>10 DEF Phase
  <2>2. Admitted!Turn(c, "waiting", "served")
    BY <1>7, <1>8, <2>1, TurnRefines DEF Turned
  <2> QED
    <3>1. Accept /\ Admitted!First(c)
      BY <1>9, <1>10
    <3>2. maxConnSize > 0 =>
            Admitted!Cardinality(Admitted!Served) + 1 < maxConnSize
      BY <3>1, RoomLeft
    <3> QED
      BY <2>2, <3>1, <3>2 DEF Admitted!Serve
<1>11. CASE ~(Accept /\ OpenState(c) = "CONNECTED")
  <2>1. state'[c] # "CONNECTED"
    BY <1>1, <1>6, <1>11
  <2>2. Phase(c)' = "over"
    BY <1>1, <1>4, <2>1 DEF Phase
  <2>3. Admitted!Turn(c, "waiting", "over")
    BY <1>7, <1>8, <2>2, TurnRefines DEF Turned
  <2> QED
    BY <1>9, <2>3 DEF Admitted!TurnAway
<1> QED
  BY <1>10, <1>11

\* Closing a socket ends what its client is served, or changes nothing.
LEMMA ClosingRefines ==
  ASSUME AInv, NEW c \in Conns, Closing(c), sockFd[c] # None, UNCHANGED backlog,
         \A b \in Conns : client'[b] = "away" <=> client[b] = "away"
  PROVE  Admitted!End(c) \/ SamePhases
<1>1. /\ state \in [Conns -> {"none", "CONNECTED", "NOT_CONNECTED"}]
      /\ state' = [state EXCEPT ![c] = "NOT_CONNECTED"]
  BY DEF AInv, IInv, TypeOK, Closing
<1>2. \A b \in Conns : b # c => Phase(b)' = Phase(b)
  BY <1>1, PhaseKept
<1>3. client[c] # "away" /\ c \notin ToSet(backlog)
  BY DEF AInv, IInv, BacklogInv, ToSet
<1>4. CASE state[c] = "CONNECTED"
  <2>1. Phase(c) = "served" /\ Phase(c)' = "over"
    BY <1>1, <1>3, <1>4 DEF Phase
  <2> QED
    BY <1>2, <2>1, TurnRefines DEF Turned, Admitted!End
<1>5. CASE state[c] # "CONNECTED"
  <2>1. Phase(c)' = Phase(c)
    BY <1>1, <1>5, PhaseKept
  <2> QED
    BY <1>2, <2>1 DEF SamePhases
<1> QED
  BY <1>4, <1>5

Admits == (\E c \in Conns : \/ Admitted!Come(c) \/ Admitted!Serve(c)
                            \/ Admitted!TurnAway(c) \/ Admitted!End(c))
            \/ SamePhases

LEMMA StepAdmits == AInv /\ Next => Admits
<1> SUFFICES ASSUME AInv, Next PROVE Admits
  OBVIOUS
<1>1. CASE \E c \in Conns : Connect(c)
  BY <1>1, ConnectRefines DEF Admits
<1>2. CASE Accept \/ AcceptAndReject
  BY <1>2, AcceptRefines DEF Admits
<1>3. CASE /\ ~Accept /\ ~AcceptAndReject
           /\ \A c \in Conns : ~Connect(c)
  <2>1. /\ UNCHANGED backlog
        /\ \A c \in Conns : client'[c] = "away" <=> client[c] = "away"
    BY <1>3, OthersQueue DEF AInv
  <2>2. state' = state \/ \E c \in Conns : Closing(c) /\ sockFd[c] # None
    BY <1>3, OthersClose DEF AInv
  <2>3. CASE state' = state
    BY <2>1, <2>3, PhaseKept DEF Admits, SamePhases
  <2>4. ASSUME NEW c \in Conns, Closing(c), sockFd[c] # None PROVE Admits
    BY <2>1, <2>4, ClosingRefines DEF Admits
  <2> QED
    BY <2>2, <2>3, <2>4
<1> QED
  BY <1>1, <1>2, <1>3

\* TcpServer implements Admission, for any number of clients, also when a
\* descriptor is used again and the tables disagree: clients are taken in the
\* order in which they come, a limit of at least 1 is never reached, and nobody
\* who has been turned away, closed or timed out is served again.
THEOREM ServerIsAdmission == Spec => ServerAdmits
<1>1. Init => Admitted!Init
  <2> SUFFICES ASSUME Init PROVE Admitted!Init
    OBVIOUS
  <2>1. \A c \in Conns : Phase(c) = "away"
    BY DEF Init, Phase
  <2>2. maxConnSize \in Int
    BY InitIInv, LimitsAssumption DEF IInv, TypeOK
  <2> QED
    BY <2>1, <2>2 DEF Admitted!Init
<1>2. AInv /\ [Next]_vars => [Admitted!Next]_<<[c \in Conns |-> Phase(c)], maxConnSize>>
  <2> SUFFICES ASSUME AInv, [Next]_vars
               PROVE  [Admitted!Next]_<<[c \in Conns |-> Phase(c)], maxConnSize>>
    OBVIOUS
  <2>1. CASE UNCHANGED vars
    BY <2>1 DEF vars, Phase
  <2>2. CASE Next
    <3>1. maxConnSize' = maxConnSize
      BY <2>2, LimitStays DEF AInv, IInv
    <3>2. CASE SamePhases
      BY <3>1, <3>2 DEF SamePhases
    <3>3. CASE ~SamePhases
      BY <2>2, <3>1, <3>3, StepAdmits DEF Admits, Admitted!Next
    <3> QED
      BY <3>2, <3>3
  <2> QED
    BY <2>1, <2>2
<1> QED
  BY <1>1, <1>2, AdmissionInvariant, PTL DEF Spec, ServerAdmits, Admitted!Spec
=============================================================================
