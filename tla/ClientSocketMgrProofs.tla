------------------------ MODULE ClientSocketMgrProofs ------------------------
(***************************************************************************)
(* Proofs about ClientSocketMgr, for every value of its constants: its     *)
(* control; then its packets, their order through the queues, and that     *)
(* what reaches the server is what ServerView promises.                    *)
(***************************************************************************)
EXTENDS ClientSocketMgr, TLAPS

LEMMA QueuedType ==
    ASSUME NEW r \in [Handlers -> Nat], NEW h \in Handlers \cup {NoHandler}
    PROVE  Queued(r, h) \in [Handlers -> Nat]
BY DEF Queued, Handlers, NoHandler

LEMMA TakenType ==
    ASSUME NEW r \in [Handlers -> Nat], NEW h \in Handlers, r[h] > 0
    PROVE  Taken(r, h) \in [Handlers -> Nat]
BY DEF Taken, Handlers

LEMMA MessageTypes ==
    /\ AuthSession \in Messages /\ Ping \in Messages /\ EmptyBuffer \in Messages
    /\ \A n \in 1 .. MaxPackets : App(n) \in Messages /\ Buffers(n) \in Seq(Messages)
<1>1. AuthSession \in Messages /\ Ping \in Messages /\ EmptyBuffer \in Messages
  BY BoundsAssumption DEF AuthSession, Ping, EmptyBuffer, Messages
<1>2. \A n \in 1 .. MaxPackets : App(n) \in Messages
  BY BoundsAssumption DEF App, Messages
<1>3. \A n \in 1 .. MaxPackets : Buffers(n) \in Seq(Messages)
  BY <1>1, <1>2 DEF Buffers
<1> QED
  BY <1>1, <1>2, <1>3

LEMMA HeadTail ==
    ASSUME NEW S, NEW q \in Seq(S), q # << >>
    PROVE  Head(q) \in S /\ Tail(q) \in Seq(S)
OBVIOUS

LEMMA TypeInit == Init => TypeOK
<1> SUFFICES ASSUME Init PROVE TypeOK
  OBVIOUS
<1> USE BoundsAssumption
<1>1. ProcTypes /\ IoTypes
  BY DEF Init, ProcTypes, IoTypes
<1>2. TimerTypes
  BY DEF Init, TimerTypes
<1>3. SockTypes
  BY DEF Init, SockTypes
<1>4. SendTypes
  BY DEF Init, SendTypes
<1>5. QueueTypes
  BY DEF Init, QueueTypes
<1> QED
  BY <1>1, <1>2, <1>3, <1>4, <1>5 DEF TypeOK

LEMMA HandleQueueTypes ==
    ASSUME TypeOK, NEW c \in Sockets, NEW wait \in SUBSET Sockets, NEW again, NEW done,
           HandleQueue(c, wait, again, done), UNCHANGED sockQueue
    PROVE  SendTypes' /\ (pc' = again \/ pc' = done)
<1> DEFINE front == Head(writeQueue[c])
<1> USE DEF TypeOK, SendTypes, HandleQueue
<1>1. writeQueue[c] \in Seq(Messages)
  OBVIOUS
<1>2. CASE writeQueue[c] = << >>
  BY <1>2
<1>3. CASE writeQueue[c] # << >>
  <2>1. front \in Messages /\ Tail(writeQueue[c]) \in Seq(Messages)
    BY <1>1, <1>3
  <2>2. [writeQueue EXCEPT ![c] = Tail(@)] \in [Sockets -> Seq(Messages)]
    BY <2>1
  <2>3. [sock |-> c, msg |-> front] \in [sock : Sockets, msg : Messages]
    BY <2>1
  <2>4. Append(wire, [sock |-> c, msg |-> front]) \in Seq([sock : Sockets, msg : Messages])
    BY <2>3
  <2> QED
    BY <1>3, <2>2, <2>4
<1> QED
  BY <1>2, <1>3

LEMMA TypeNext == TypeOK /\ [Next]_vars => TypeOK'
<1> SUFFICES ASSUME TypeOK, [Next]_vars PROVE TypeOK'
  OBVIOUS
<1> USE DEF TypeOK, procVars, ioVars, timerVars, sockVars, sendVars, queueVars
<1>a. Queued(ready, armed) \in [Handlers -> Nat]
  BY QueuedType DEF TimerTypes
<1>b. "update" \in Handlers /\ "connect" \in Handlers /\ "reconnect" \in Handlers
  BY DEF Handlers
<1>c. ClosedBy \subseteq Sockets
  BY DEF ClosedBy, SockTypes
<1>d. ready["update"] > 0 => Taken(ready, "update") \in [Handlers -> Nat]
  BY <1>b, TakenType DEF TimerTypes
<1>1. CASE Initialize
  <2>1. TimerTypes'
    BY <1>1, <1>a, <1>b, ConfigsAssumption DEF Initialize, ConnectToServer, Config, ProcTypes,
       TimerTypes
  <2>2. ProcTypes' /\ IoTypes' /\ SockTypes' /\ SendTypes' /\ QueueTypes'
    BY <1>1 DEF Initialize, ProcTypes, IoTypes, SockTypes, SendTypes, QueueTypes
  <2> QED
    BY <2>1, <2>2
<1>2. CASE AddPacketToQueue
  <2>1. QueueTypes'
    BY <1>2, BoundsAssumption DEF AddPacketToQueue, QueueTypes
  <2>2. ProcTypes' /\ IoTypes' /\ TimerTypes' /\ SockTypes' /\ SendTypes'
    BY <1>2 DEF AddPacketToQueue, ProcTypes, IoTypes, TimerTypes, SockTypes, SendTypes
  <2> QED
    BY <2>1, <2>2
<1>3. CASE TimerExpires
  <2>1. TimerTypes'
    BY <1>3, <1>a DEF TimerExpires, TimerTypes
  <2>2. ProcTypes' /\ IoTypes' /\ SockTypes' /\ SendTypes' /\ QueueTypes'
    BY <1>3 DEF TimerExpires, ProcTypes, IoTypes, SockTypes, SendTypes, QueueTypes
  <2> QED
    BY <2>1, <2>2
<1>4. CASE UpdateStopped
  <2>1. TimerTypes'
    BY <1>4, <1>d DEF UpdateStopped, TimerTypes
  <2>2. ProcTypes' /\ IoTypes' /\ SockTypes' /\ SendTypes' /\ QueueTypes'
    BY <1>4 DEF UpdateStopped, ProcTypes, IoTypes, SockTypes, SendTypes, QueueTypes
  <2> QED
    BY <2>1, <2>2
<1>5. CASE Update
  <2>1. Queued(Taken(ready, "update"), armed) \in [Handlers -> Nat]
    BY <1>5, <1>d, QueuedType DEF Update, TimerTypes
  <2>2. TimerTypes'
    BY <1>5, <1>b, <2>1 DEF Update, TimerTypes
  <2>3. IoTypes' /\ SockTypes'
    BY <1>5 DEF Update, IoTypes, SockTypes
  <2>4. ProcTypes' /\ SendTypes' /\ QueueTypes'
    BY <1>5 DEF Update, ProcTypes, SendTypes, QueueTypes
  <2> QED
    BY <2>2, <2>3, <2>4
<1>6. CASE SendQueued
  <2>1. clientSocket \in Sockets /\ sockQueue[clientSocket] # << >>
    BY <1>6 DEF SendQueued, SockTypes
  <2>2. /\ Head(sockQueue[clientSocket]) \in 1 .. MaxPackets
        /\ Tail(sockQueue[clientSocket]) \in Seq(1 .. MaxPackets)
    BY <2>1, HeadTail DEF SendTypes
  <2>3. writeQueue[clientSocket] \o Buffers(Head(sockQueue[clientSocket])) \in Seq(Messages)
    BY <2>1, <2>2, MessageTypes DEF SendTypes
  <2>4. sockQueue' \in [Sockets -> Seq(1 .. MaxPackets)]
    BY <1>6, <2>1, <2>2 DEF SendQueued, SendTypes
  <2>5. writeQueue' \in [Sockets -> Seq(Messages)]
    BY <1>6, <2>1, <2>3 DEF SendQueued, SendTypes
  <2>6. SendTypes'
    BY <1>6, <2>4, <2>5 DEF SendQueued, SendTypes
  <2>7. ProcTypes' /\ IoTypes' /\ TimerTypes' /\ SockTypes' /\ QueueTypes'
    BY <1>6 DEF SendQueued, ProcTypes, IoTypes, TimerTypes, SockTypes, QueueTypes
  <2> QED
    BY <2>6, <2>7
<1>7. CASE SocketUpdate
  <2>1. IoTypes' /\ SockTypes'
    BY <1>7 DEF SocketUpdate, UpdateReconnects, IoTypes, SockTypes
  <2>2. TimerTypes'
    BY <1>7, <1>a, <1>b DEF SocketUpdate, UpdateReconnects, ConnectToServer, TimerTypes
  <2>3. ProcTypes' /\ SendTypes' /\ QueueTypes'
    BY <1>7 DEF SocketUpdate, ProcTypes, SendTypes, QueueTypes
  <2> QED
    BY <2>1, <2>2, <2>3
<1>8. CASE Flush
  <2>1. SendTypes' /\ (pc' = "flush" \/ pc' = "drain")
    BY <1>8, HandleQueueTypes DEF Flush, SockTypes, SendTypes
  <2>2. ProcTypes' /\ IoTypes' /\ TimerTypes' /\ SockTypes' /\ QueueTypes'
    BY <1>8, <2>1 DEF Flush, ProcTypes, IoTypes, TimerTypes, SockTypes, QueueTypes
  <2> QED
    BY <2>1, <2>2
<1>9. CASE DrainQueue
  <2>1. CASE mgrQueue # << >>
    <3>1. Head(mgrQueue) \in 1 .. MaxPackets /\ Tail(mgrQueue) \in Seq(1 .. MaxPackets)
      BY <2>1, HeadTail DEF QueueTypes
    <3>2. clientSocket \in Sockets /\ sockQueue[clientSocket] \in Seq(1 .. MaxPackets)
      BY <1>9 DEF DrainQueue, SockTypes, SendTypes
    <3>3. Append(sockQueue[clientSocket], Head(mgrQueue)) \in Seq(1 .. MaxPackets)
      BY <3>1, <3>2
    <3>4. sockQueue' \in [Sockets -> Seq(1 .. MaxPackets)]
      BY <1>9, <2>1, <3>2, <3>3 DEF DrainQueue, SendTypes
    <3>5. SendTypes' /\ QueueTypes'
      BY <1>9, <2>1, <3>1, <3>4 DEF DrainQueue, SendTypes, QueueTypes
    <3> QED
      BY <1>9, <2>1, <3>5 DEF DrainQueue, ProcTypes, IoTypes, TimerTypes, SockTypes
  <2>2. CASE mgrQueue = << >>
    BY <1>9, <2>2 DEF DrainQueue, ProcTypes, IoTypes, TimerTypes, SockTypes, SendTypes,
       QueueTypes
  <2> QED
    BY <2>1, <2>2
<1>10. CASE ConnectLambda
  <2>1. PICK h \in Connectors :
            /\ ready[h] > 0 /\ ready' = Taken(ready, h)
            /\ IF clientSocket # NoSocket /\ IsOpen(clientSocket)
                  THEN UNCHANGED <<pc, tries>>
                  ELSE pc' = "connect" /\ tries' = ReconnectCount[h]
    BY <1>10, Zenon DEF ConnectLambda
  <2>2. h \in Handlers /\ ReconnectCount[h] \in 0 .. 3
    BY DEF Connectors, Handlers, ReconnectCount
  <2>3. TimerTypes'
    BY <1>10, <2>1, <2>2, TakenType DEF ConnectLambda, TimerTypes
  <2>4. IoTypes' /\ SockTypes'
    BY <1>10, <2>1, <2>2 DEF ConnectLambda, IoTypes, SockTypes
  <2>5. ProcTypes' /\ SendTypes' /\ QueueTypes'
    BY <1>10 DEF ConnectLambda, ProcTypes, SendTypes, QueueTypes
  <2> QED
    BY <2>3, <2>4, <2>5
<1>11. CASE ConnectSucceeds
  <2>1. created + 1 \in Sockets /\ created' = created + 1 /\ created' \in 0 .. MaxConnections
    BY <1>11, BoundsAssumption DEF ConnectSucceeds, SockTypes, Sockets
  <2>2. Append(writeQueue[created + 1], AuthSession) \in Seq(Messages)
    BY <2>1, MessageTypes DEF SendTypes
  <2>3. writeQueue' \in [Sockets -> Seq(Messages)]
    BY <1>11, <2>1, <2>2 DEF ConnectSucceeds, Start, SendTypes
  <2>4. SendTypes'
    BY <1>11, <2>3 DEF ConnectSucceeds, SendTypes
  <2>5. SockTypes' /\ IoTypes'
    BY <1>11, <1>c, <2>1 DEF ConnectSucceeds, Construct, Start, SockTypes, IoTypes
  <2>6. TimerTypes'
    BY <1>11, <1>a, <1>b DEF ConnectSucceeds, Construct, TimerTypes
  <2>7. ProcTypes' /\ QueueTypes'
    BY <1>11 DEF ConnectSucceeds, ProcTypes, QueueTypes
  <2> QED
    BY <2>4, <2>5, <2>6, <2>7
<1>12. CASE ConnectFails
  <2>1. IoTypes' /\ SockTypes'
    BY <1>12, <1>c DEF ConnectFails, Disconnect, IoTypes, SockTypes
  <2>2. TimerTypes'
    BY <1>12, <1>a DEF ConnectFails, Disconnect, TimerTypes
  <2>3. ProcTypes' /\ SendTypes' /\ QueueTypes'
    BY <1>12 DEF ConnectFails, ProcTypes, SendTypes, QueueTypes
  <2> QED
    BY <2>1, <2>2, <2>3
<1>13. CASE ReadHandlerEnds
  <2>1. IoTypes' /\ SockTypes'
    BY <1>13 DEF ReadHandlerEnds, IoTypes, SockTypes
  <2>2. ProcTypes' /\ TimerTypes' /\ SendTypes' /\ QueueTypes'
    BY <1>13 DEF ReadHandlerEnds, ProcTypes, TimerTypes, SendTypes, QueueTypes
  <2> QED
    BY <2>1, <2>2
<1>14. CASE ReadRejected
  <2>1. IoTypes' /\ SockTypes'
    BY <1>14, BoundsAssumption DEF ReadRejected, Receives, LeaveReadHandler, IoTypes, SockTypes
  <2>2. ProcTypes' /\ TimerTypes' /\ SendTypes' /\ QueueTypes'
    BY <1>14 DEF ReadRejected, ProcTypes, TimerTypes, SendTypes, QueueTypes
  <2> QED
    BY <2>1, <2>2
<1>15. CASE ReadOutOfTurn
  <2>1. IoTypes' /\ SockTypes'
    BY <1>15, <1>c, BoundsAssumption DEF ReadOutOfTurn, Receives, LeaveReadHandler, Disconnect,
       IoTypes, SockTypes
  <2>2. TimerTypes'
    BY <1>15, <1>a DEF ReadOutOfTurn, Disconnect, TimerTypes
  <2>3. ProcTypes' /\ SendTypes' /\ QueueTypes'
    BY <1>15 DEF ReadOutOfTurn, ProcTypes, SendTypes, QueueTypes
  <2> QED
    BY <2>1, <2>2, <2>3
<1>16. CASE HandleAuthOk
  <2>1. handling \in Sockets /\ chunk' \in 0 .. MaxChunk
    BY <1>16, BoundsAssumption DEF HandleAuthOk, Receives, IoTypes
  <2>2. Append(writeQueue[handling], Ping) \in Seq(Messages)
    BY <2>1, MessageTypes DEF SendTypes
  <2>3. writeQueue' \in [Sockets -> Seq(Messages)]
    BY <1>16, <2>1, <2>2 DEF HandleAuthOk, SendTypes
  <2>4. SendTypes'
    BY <1>16, <2>3 DEF HandleAuthOk, SendTypes
  <2>5. IoTypes' /\ SockTypes'
    BY <1>16, <2>1 DEF HandleAuthOk, IoTypes, SockTypes
  <2>6. ProcTypes' /\ TimerTypes' /\ QueueTypes'
    BY <1>16 DEF HandleAuthOk, ProcTypes, TimerTypes, QueueTypes
  <2> QED
    BY <2>4, <2>5, <2>6
<1>17. CASE HandleAuthDenied
  <2>1. IoTypes' /\ SockTypes'
    BY <1>17, <1>c, BoundsAssumption DEF HandleAuthDenied, Receives, Disconnect, IoTypes,
       SockTypes
  <2>2. TimerTypes'
    BY <1>17, <1>a DEF HandleAuthDenied, Disconnect, TimerTypes
  <2>3. ProcTypes' /\ SendTypes' /\ QueueTypes'
    BY <1>17 DEF HandleAuthDenied, ProcTypes, SendTypes, QueueTypes
  <2> QED
    BY <2>1, <2>2, <2>3
<1>18. CASE HandlePong
  <2>1. IoTypes'
    BY <1>18, BoundsAssumption DEF HandlePong, Receives, IoTypes
  <2>2. ProcTypes' /\ TimerTypes' /\ SockTypes' /\ SendTypes' /\ QueueTypes'
    BY <1>18 DEF HandlePong, ProcTypes, TimerTypes, SockTypes, SendTypes, QueueTypes
  <2> QED
    BY <2>1, <2>2
<1>19. CASE ReadThrows
  BY <1>19 DEF ReadThrows, ProcTypes, IoTypes, TimerTypes, SockTypes, SendTypes, QueueTypes
<1>20. CASE MainReturns
  <2>1. IoTypes' /\ SockTypes'
    BY <1>20, <1>c DEF MainReturns, Idle, Disconnect, IoTypes, SockTypes
  <2>2. TimerTypes'
    BY <1>20, <1>a DEF MainReturns, Disconnect, TimerTypes
  <2>3. ProcTypes' /\ SendTypes' /\ QueueTypes'
    BY <1>20 DEF MainReturns, ProcTypes, SendTypes, QueueTypes
  <2> QED
    BY <2>1, <2>2, <2>3
<1>21. ASSUME NEW c \in Sockets, WriteHandlerWrapper(c) PROVE TypeOK'
  <2>1. SendTypes' /\ pc' = "run"
    BY <1>21, HandleQueueTypes DEF WriteHandlerWrapper, SendTypes
  <2>2. ProcTypes' /\ IoTypes' /\ TimerTypes' /\ SockTypes' /\ QueueTypes'
    BY <1>21, <2>1 DEF WriteHandlerWrapper, ProcTypes, IoTypes, TimerTypes, SockTypes,
       QueueTypes
  <2> QED
    BY <2>1, <2>2
<1>22. ASSUME NEW c \in Sockets, ReadError(c) PROVE TypeOK'
  <2>1. SockTypes'
    BY <1>22 DEF ReadError, SockTypes
  <2>2. ProcTypes' /\ IoTypes' /\ TimerTypes' /\ SendTypes' /\ QueueTypes'
    BY <1>22 DEF ReadError, ProcTypes, IoTypes, TimerTypes, SendTypes, QueueTypes
  <2> QED
    BY <2>1, <2>2
<1>23. ASSUME NEW c \in Sockets, ReadData(c) PROVE TypeOK'
  <2>1. IoTypes' /\ SockTypes'
    BY <1>23 DEF ReadData, IoTypes, SockTypes
  <2>2. ProcTypes' /\ TimerTypes' /\ SendTypes' /\ QueueTypes'
    BY <1>23 DEF ReadData, ProcTypes, TimerTypes, SendTypes, QueueTypes
  <2> QED
    BY <2>1, <2>2
<1>24. CASE UNCHANGED vars
  BY <1>24 DEF vars, ProcTypes, IoTypes, TimerTypes, SockTypes, SendTypes, QueueTypes
<1> QED
  BY <1>1, <1>2, <1>3, <1>4, <1>5, <1>6, <1>7, <1>8, <1>9, <1>10, <1>11, <1>12, <1>13, <1>14,
     <1>15, <1>16, <1>17, <1>18, <1>19, <1>20, <1>21, <1>22, <1>23, <1>24
  DEF Next, IoThread,
     UpdateHandler, UpdateLoops, ConnectLoop, ReadLoop, Terminated

\* Every variable keeps its type, in every behaviour of the client.
THEOREM TypeCorrect == Spec => []TypeOK
BY TypeInit, TypeNext, PTL DEF Spec

-----------------------------------------------------------------------------
\* The arithmetic of the bag of ready handlers, at each of its members.
LEMMA QueuedAt ==
    ASSUME NEW r \in [Handlers -> Nat], NEW a \in Handlers \cup {NoHandler}, NEW h \in Handlers
    PROVE  Queued(r, a)[h] = r[h] + (IF a = h THEN 1 ELSE 0)
BY DEF Queued, Handlers, NoHandler

LEMMA TakenAt ==
    ASSUME NEW r \in [Handlers -> Nat], NEW a \in Handlers, NEW h \in Handlers
    PROVE  Taken(r, a)[h] = r[h] - (IF a = h THEN 1 ELSE 0)
BY DEF Taken, Handlers

LEMMA ControlInit == Init => ControlInv
BY DEF Init, ControlInv, UpdateChains, UpdatesOutstanding, OneConnector, ConnectsOutstanding,
   Connectors, ReadsOnlyWhenCurrent, Starting, Constructed, InHandler, OnlyCurrentIsOpen,
   Handlers, NoHandler, NoSocket

\* What is outstanding, kind by kind, as numbers.
LEMMA Outstanding ==
    ASSUME TypeOK
    PROVE  /\ ready["update"] \in Nat /\ ready["connect"] \in Nat /\ ready["reconnect"] \in Nat
           /\ armed \in {"update", "connect", "reconnect", "none"}
           /\ ConnectsOutstanding \in Nat
<1>1. /\ ready["update"] \in Nat /\ ready["connect"] \in Nat /\ ready["reconnect"] \in Nat
      /\ armed \in {"update", "connect", "reconnect", "none"}
  BY DEF TypeOK, TimerTypes, Handlers, NoHandler
<1> QED
  BY <1>1 DEF ConnectsOutstanding

\* cancel() and expires_from_now(): the waiting handler is ready.
LEMMA Cancelled ==
    ASSUME TypeOK, ready' = Queued(ready, armed)
    PROVE  /\ ready'["update"] = ready["update"] + (IF armed = "update" THEN 1 ELSE 0)
           /\ ready'["connect"] = ready["connect"] + (IF armed = "connect" THEN 1 ELSE 0)
           /\ ready'["reconnect"] = ready["reconnect"] + (IF armed = "reconnect" THEN 1 ELSE 0)
BY QueuedAt DEF TypeOK, TimerTypes, Handlers

\* Update() takes itself from the queue and arms the timer again.
LEMMA Rearmed ==
    ASSUME TypeOK, ready["update"] > 0, ready' = Queued(Taken(ready, "update"), armed)
    PROVE  /\ ready'["update"] = ready["update"] - 1 + (IF armed = "update" THEN 1 ELSE 0)
           /\ ready'["connect"] = ready["connect"] + (IF armed = "connect" THEN 1 ELSE 0)
           /\ ready'["reconnect"] = ready["reconnect"] + (IF armed = "reconnect" THEN 1 ELSE 0)
<1> DEFINE r == Taken(ready, "update")
<1>1. /\ r \in [Handlers -> Nat]
      /\ r["update"] = ready["update"] - 1
      /\ r["connect"] = ready["connect"] /\ r["reconnect"] = ready["reconnect"]
  BY TakenType, TakenAt DEF TypeOK, TimerTypes, Handlers
<1> HIDE DEF r
<1> QED
  BY <1>1, QueuedAt DEF TypeOK, TimerTypes, Handlers, r

LEMMA TakenFrom ==
    ASSUME TypeOK, NEW h \in Handlers, ready[h] > 0, ready' = Taken(ready, h)
    PROVE  /\ ready'["update"] = ready["update"] - (IF h = "update" THEN 1 ELSE 0)
           /\ ready'["connect"] = ready["connect"] - (IF h = "connect" THEN 1 ELSE 0)
           /\ ready'["reconnect"] = ready["reconnect"] - (IF h = "reconnect" THEN 1 ELSE 0)
BY TakenAt DEF TypeOK, TimerTypes, Handlers

LEMMA ControlNext == TypeOK /\ TypeOK' /\ ControlInv /\ [Next]_vars => ControlInv'
<1> SUFFICES ASSUME TypeOK, TypeOK', ControlInv, [Next]_vars PROVE ControlInv'
  OBVIOUS
<1> USE DEF ControlInv, procVars, ioVars, timerVars, sockVars, sendVars, queueVars
<1>a. clientSocket # NoSocket \/ stopped => ConnectsOutstanding = 0
  BY Outstanding DEF OneConnector
<1>b. pc = "connect" =>
        /\ clientSocket = NoSocket /\ ~stopped /\ reading = {}
        /\ ready["connect"] = 0 /\ ready["reconnect"] = 0 /\ armed \notin Connectors
  BY Outstanding DEF OneConnector, ConnectsOutstanding, ReadsOnlyWhenCurrent, NoSocket, TypeOK,
     SockTypes, Sockets
<1>1. CASE Initialize
  <2>1. clientSocket = NoSocket /\ ~stopped /\ created = 0 /\ pc = "run" /\ armed = NoHandler
        /\ ready["update"] = 0 /\ ready["connect"] = 0 /\ ready["reconnect"] = 0
    BY <1>1 DEF Initialize, Starting, Constructed, Handlers, TypeOK, SockTypes, Sockets
  <2>2. UpdateChains'
    BY <1>1, <2>1, Cancelled DEF Initialize, ConnectToServer, UpdateChains, UpdatesOutstanding
  <2>3. ConnectsOutstanding' = IF conf.enabled /\ conf.resolves THEN 1 ELSE 0
    BY <1>1, <2>1, Cancelled DEF Initialize, ConnectToServer, ConnectsOutstanding, Connectors,
       NoHandler
  <2>4. OneConnector' /\ Starting'
    BY <1>1, <2>1, <2>3 DEF Initialize, OneConnector, Starting
  <2>5. ReadsOnlyWhenCurrent' /\ Constructed' /\ InHandler' /\ OnlyCurrentIsOpen'
    BY <1>1 DEF Initialize, ReadsOnlyWhenCurrent, Constructed, InHandler, OnlyCurrentIsOpen,
       IsOpen
  <2> QED
    BY <2>2, <2>3, <2>4, <2>5
<1>2. CASE AddPacketToQueue
  <2>1. UpdateChains' /\ OneConnector' /\ Starting'
    BY <1>2 DEF AddPacketToQueue, UpdateChains, UpdatesOutstanding, OneConnector,
       ConnectsOutstanding, Starting
  <2>2. ReadsOnlyWhenCurrent' /\ Constructed' /\ InHandler' /\ OnlyCurrentIsOpen'
    BY <1>2 DEF AddPacketToQueue, ReadsOnlyWhenCurrent, Constructed, InHandler,
       OnlyCurrentIsOpen, IsOpen
  <2> QED
    BY <2>1, <2>2
<1>3. CASE TimerExpires
  <2>1. UpdateChains'
    BY <1>3, Outstanding, Cancelled DEF TimerExpires, UpdateChains, UpdatesOutstanding,
       NoHandler
  <2>2. OneConnector'
    BY <1>3, Outstanding, Cancelled DEF TimerExpires, OneConnector, ConnectsOutstanding,
       Connectors, NoHandler
  <2>3. Starting'
    BY <1>3, Outstanding, Cancelled DEF TimerExpires, Starting, ConnectsOutstanding, Connectors,
       NoHandler, TypeOK, SockTypes, Sockets
  <2>4. ReadsOnlyWhenCurrent'
    BY <1>3 DEF TimerExpires, ReadsOnlyWhenCurrent, IsOpen
  <2>5. Constructed'
    BY <1>3 DEF TimerExpires, Constructed
  <2>6. InHandler'
    BY <1>3 DEF TimerExpires, InHandler, IsOpen
  <2>7. OnlyCurrentIsOpen'
    BY <1>3 DEF TimerExpires, OnlyCurrentIsOpen, IsOpen
  <2> QED
    BY <2>1, <2>2, <2>3, <2>4, <2>5, <2>6, <2>7
<1>4. CASE UpdateStopped
  <2>1. UpdateChains'
    BY <1>4 DEF UpdateStopped, UpdateChains
  <2>2. OneConnector'
    BY <1>4, Outstanding, TakenFrom DEF UpdateStopped, OneConnector, ConnectsOutstanding,
       Handlers
  <2>3. Starting'
    BY <1>4, Outstanding, TakenFrom DEF UpdateStopped, Starting, ConnectsOutstanding, Handlers
  <2>4. ReadsOnlyWhenCurrent'
    BY <1>4 DEF UpdateStopped, ReadsOnlyWhenCurrent, IsOpen
  <2>5. Constructed'
    BY <1>4 DEF UpdateStopped, Constructed
  <2>6. InHandler'
    BY <1>4 DEF UpdateStopped, InHandler
  <2>7. OnlyCurrentIsOpen'
    BY <1>4 DEF UpdateStopped, OnlyCurrentIsOpen, IsOpen
  <2> QED
    BY <2>1, <2>2, <2>3, <2>4, <2>5, <2>6, <2>7
<1>5. CASE Update
  <2>1. UpdateChains'
    BY <1>5, Outstanding, Rearmed DEF Update, UpdateChains, UpdatesOutstanding
  <2>2. OneConnector'
    BY <1>5, Outstanding, Rearmed DEF Update, OneConnector, ConnectsOutstanding, Connectors
  <2>3. Starting'
    BY <1>5, Outstanding, Rearmed DEF Update, Idle, Starting, ConnectsOutstanding, Connectors
  <2>4. ReadsOnlyWhenCurrent'
    BY <1>5 DEF Update, ReadsOnlyWhenCurrent, IsOpen
  <2>5. Constructed'
    BY <1>5 DEF Update, Constructed
  <2>6. InHandler'
    BY <1>5 DEF Update, InHandler
  <2>7. OnlyCurrentIsOpen'
    BY <1>5 DEF Update, OnlyCurrentIsOpen, IsOpen
  <2> QED
    BY <2>1, <2>2, <2>3, <2>4, <2>5, <2>6, <2>7
<1>6. CASE SendQueued
  <2>1. UpdateChains' /\ OneConnector' /\ Starting'
    BY <1>6 DEF SendQueued, UpdateChains, UpdatesOutstanding, OneConnector, ConnectsOutstanding,
       Starting
  <2>2. ReadsOnlyWhenCurrent' /\ Constructed' /\ InHandler' /\ OnlyCurrentIsOpen'
    BY <1>6 DEF SendQueued, ReadsOnlyWhenCurrent, Constructed, InHandler, OnlyCurrentIsOpen,
       IsOpen
  <2> QED
    BY <2>1, <2>2
<1>7. CASE SocketUpdate
  <2>1. ConnectsOutstanding = 0 /\ clientSocket # NoSocket /\ ~stopped /\ created > 0
    BY <1>7, <1>a DEF SocketUpdate, InHandler, Constructed, TypeOK, SockTypes, Sockets
  <2>2. ready["connect"] = 0 /\ ready["reconnect"] = 0 /\ armed \notin Connectors
    BY <2>1, Outstanding DEF ConnectsOutstanding
  <2>3. UpdateChains'
    BY <1>7, <2>2, Outstanding, Cancelled DEF SocketUpdate, UpdateReconnects, ConnectToServer,
       UpdateChains, UpdatesOutstanding
  <2>4. ConnectsOutstanding' = IF clientSocket \in closed THEN 1 ELSE 0
    BY <1>7, <2>2, Cancelled DEF SocketUpdate, UpdateReconnects, ConnectToServer,
       ConnectsOutstanding, Connectors
  <2>5. OneConnector' /\ Starting'
    BY <1>7, <2>1, <2>4 DEF SocketUpdate, UpdateReconnects, OneConnector, Starting
  <2>6. ReadsOnlyWhenCurrent'
    BY <1>7 DEF SocketUpdate, ReadsOnlyWhenCurrent, IsOpen
  <2>7. Constructed'
    BY <1>7 DEF SocketUpdate, UpdateReconnects, Constructed, TypeOK, SockTypes, NoSocket
  <2>8. InHandler'
    BY <1>7 DEF SocketUpdate, UpdateReconnects, InHandler, IsOpen
  <2>9. OnlyCurrentIsOpen'
    BY <1>7 DEF SocketUpdate, OnlyCurrentIsOpen, IsOpen
  <2> QED
    BY <2>3, <2>4, <2>5, <2>6, <2>7, <2>8, <2>9
<1>8. CASE Flush
  <2>1. UpdateChains' /\ OneConnector' /\ Starting'
    BY <1>8 DEF Flush, HandleQueue, UpdateChains, UpdatesOutstanding, OneConnector,
       ConnectsOutstanding, Starting
  <2>2. ReadsOnlyWhenCurrent' /\ Constructed' /\ InHandler' /\ OnlyCurrentIsOpen'
    BY <1>8 DEF Flush, HandleQueue, ReadsOnlyWhenCurrent, Constructed, InHandler,
       OnlyCurrentIsOpen, IsOpen
  <2> QED
    BY <2>1, <2>2
<1>9. CASE DrainQueue
  <2>1. UpdateChains' /\ OneConnector' /\ Starting'
    BY <1>9 DEF DrainQueue, UpdateChains, UpdatesOutstanding, OneConnector, ConnectsOutstanding,
       Starting
  <2>2. ReadsOnlyWhenCurrent' /\ Constructed' /\ InHandler' /\ OnlyCurrentIsOpen'
    BY <1>9 DEF DrainQueue, ReadsOnlyWhenCurrent, Constructed, InHandler, OnlyCurrentIsOpen,
       IsOpen
  <2> QED
    BY <2>1, <2>2
<1>10. CASE ConnectLambda
  <2>1. PICK h \in Connectors : ready[h] > 0 /\ ready' = Taken(ready, h)
    BY <1>10 DEF ConnectLambda
  <2>2. /\ process = "running" /\ pc = "run" /\ clientSocket = NoSocket /\ ~stopped
        /\ UNCHANGED <<procVars, stopped, timer, armed, created, clientSocket>>
    BY <1>10, <2>1, <1>a, Outstanding DEF ConnectLambda, Idle, ConnectsOutstanding, Connectors
  <2>3. pc' = "connect"
    BY <1>10, <2>2 DEF ConnectLambda
  <2>4. /\ ready'["update"] = ready["update"]
        /\ ready'["connect"] + ready'["reconnect"] = ready["connect"] + ready["reconnect"] - 1
    BY <2>1, TakenFrom, Outstanding DEF Connectors, Handlers
  <2>5. UpdateChains' /\ ConnectsOutstanding' = ConnectsOutstanding
    BY <2>2, <2>3, <2>4, Outstanding DEF UpdateChains, UpdatesOutstanding, ConnectsOutstanding
  <2>6. OneConnector' /\ Starting'
    BY <2>2, <2>5 DEF OneConnector, Starting
  <2>7. ReadsOnlyWhenCurrent'
    BY <1>10, <2>2 DEF ConnectLambda, ReadsOnlyWhenCurrent, TypeOK, SockTypes, Sockets, NoSocket
  <2>8. Constructed'
    BY <1>10, <2>2 DEF ConnectLambda, Constructed
  <2>9. InHandler'
    BY <1>10, <2>2 DEF ConnectLambda, InHandler
  <2>10. OnlyCurrentIsOpen'
    BY <1>10, <2>2 DEF ConnectLambda, OnlyCurrentIsOpen, IsOpen
  <2> QED
    BY <2>5, <2>6, <2>7, <2>8, <2>9, <2>10
<1>11. CASE ConnectSucceeds
  <2>1. /\ clientSocket = NoSocket /\ ~stopped /\ reading = {}
        /\ ready["connect"] = 0 /\ ready["reconnect"] = 0 /\ armed \notin Connectors
        /\ ready' = Queued(ready, armed) /\ armed' = "update" /\ pc' = "run" /\ created' = created + 1
    BY <1>11, <1>b DEF ConnectSucceeds
  <2>2. UpdateChains'
    BY <2>1, Cancelled DEF UpdateChains, UpdatesOutstanding
  <2>3. ConnectsOutstanding' = 0
    BY <2>1, Cancelled DEF ConnectsOutstanding, Connectors
  <2>4. OneConnector' /\ Starting'
    BY <1>11, <2>1, <2>3 DEF ConnectSucceeds, Construct, OneConnector, Starting, ConnectsOutstanding,
       TypeOK, SockTypes
  <2>5. ReadsOnlyWhenCurrent'
    BY <1>11, <2>1 DEF ConnectSucceeds, Start, ReadsOnlyWhenCurrent, IsOpen
  <2>6. Constructed'
    BY <1>11, <2>1 DEF ConnectSucceeds, Construct, Start, ClosedBy, Constructed,
       TypeOK, SockTypes, IoTypes
  <2>7. InHandler'
    BY <1>11, <2>1 DEF ConnectSucceeds, InHandler
  <2>8. OnlyCurrentIsOpen'
    BY <1>11, <2>1 DEF ConnectSucceeds, Construct, ClosedBy, OnlyCurrentIsOpen, IsOpen,
       TypeOK, SockTypes, NoSocket
  <2> QED
    BY <2>2, <2>3, <2>4, <2>5, <2>6, <2>7, <2>8
<1>12. CASE ConnectFails
  <2>1. UpdateChains'
    BY <1>12 DEF ConnectFails, Disconnect, UpdateChains, UpdatesOutstanding
  <2>2. OneConnector'
    BY <1>12, Cancelled, <1>b DEF ConnectFails, Disconnect, OneConnector, ConnectsOutstanding,
       Connectors, NoHandler
  <2>3. Starting'
    BY <1>12, <1>b DEF ConnectFails, Disconnect, Starting, ConnectsOutstanding
  <2>4. ReadsOnlyWhenCurrent'
    BY <1>12, <1>b DEF ConnectFails, ReadsOnlyWhenCurrent
  <2>5. Constructed'
    BY <1>12, <1>b DEF ConnectFails, Disconnect, ClosedBy, Constructed
  <2>6. InHandler'
    BY <1>12 DEF ConnectFails, InHandler
  <2>7. OnlyCurrentIsOpen'
    BY <1>12 DEF ConnectFails, ClosedBy, OnlyCurrentIsOpen, IsOpen, NoSocket
  <2> QED
    BY <2>1, <2>2, <2>3, <2>4, <2>5, <2>6, <2>7
<1>13. CASE ReadHandlerEnds
  <2>1. UpdateChains' /\ OneConnector' /\ Starting'
    BY <1>13 DEF ReadHandlerEnds, UpdateChains, UpdatesOutstanding, OneConnector,
       ConnectsOutstanding, Starting
  <2>2. ReadsOnlyWhenCurrent' /\ Constructed' /\ InHandler' /\ OnlyCurrentIsOpen'
    BY <1>13 DEF ReadHandlerEnds, ReadsOnlyWhenCurrent, Constructed, InHandler,
       OnlyCurrentIsOpen, IsOpen, TypeOK, SockTypes, NoSocket
  <2> QED
    BY <2>1, <2>2
<1>14. CASE ReadRejected
  <2>1. UpdateChains' /\ OneConnector' /\ Starting'
    BY <1>14 DEF ReadRejected, Receives, LeaveReadHandler, UpdateChains, UpdatesOutstanding,
       OneConnector, ConnectsOutstanding, Starting
  <2>2. ReadsOnlyWhenCurrent' /\ Constructed' /\ InHandler' /\ OnlyCurrentIsOpen'
    BY <1>14 DEF ReadRejected, Receives, LeaveReadHandler, ReadsOnlyWhenCurrent, Constructed,
       InHandler, OnlyCurrentIsOpen, IsOpen, TypeOK, SockTypes, NoSocket
  <2> QED
    BY <2>1, <2>2
<1>15. CASE ReadOutOfTurn
  <2>1. clientSocket # NoSocket \/ stopped
    BY <1>15 DEF ReadOutOfTurn, Receives, InHandler, TypeOK, IoTypes, Sockets, NoSocket
  <2>2. ready["connect"] = 0 /\ ready["reconnect"] = 0 /\ armed \notin Connectors
    BY <2>1, <1>a, Outstanding DEF ConnectsOutstanding
  <2>3. ConnectsOutstanding' = 0
    BY <1>15, <2>2, Cancelled DEF ReadOutOfTurn, LeaveReadHandler, Disconnect,
       ConnectsOutstanding, Connectors, NoHandler
  <2>4. UpdateChains' /\ OneConnector' /\ Starting'
    BY <1>15, <2>3 DEF ReadOutOfTurn, Receives, Disconnect, UpdateChains, OneConnector, Starting
  <2>5. ReadsOnlyWhenCurrent'
    BY <1>15 DEF ReadOutOfTurn, Receives, ReadsOnlyWhenCurrent, InHandler
  <2>6. Constructed'
    BY <1>15 DEF ReadOutOfTurn, LeaveReadHandler, Disconnect, ClosedBy, Constructed, TypeOK,
       SockTypes, NoSocket
  <2>7. InHandler'
    BY <1>15 DEF ReadOutOfTurn, LeaveReadHandler, InHandler
  <2>8. OnlyCurrentIsOpen'
    BY <1>15 DEF ReadOutOfTurn, ClosedBy, OnlyCurrentIsOpen, IsOpen, NoSocket
  <2> QED
    BY <2>3, <2>4, <2>5, <2>6, <2>7, <2>8
<1>16. CASE HandleAuthOk
  <2>1. UpdateChains' /\ OneConnector' /\ Starting'
    BY <1>16 DEF HandleAuthOk, UpdateChains, UpdatesOutstanding, OneConnector,
       ConnectsOutstanding, Starting
  <2>2. ReadsOnlyWhenCurrent' /\ Constructed' /\ InHandler' /\ OnlyCurrentIsOpen'
    BY <1>16 DEF HandleAuthOk, ReadsOnlyWhenCurrent, Constructed, InHandler, OnlyCurrentIsOpen,
       IsOpen
  <2> QED
    BY <2>1, <2>2
<1>17. CASE HandleAuthDenied
  <2>1. clientSocket # NoSocket \/ stopped
    BY <1>17 DEF HandleAuthDenied, Receives, InHandler, TypeOK, IoTypes, Sockets, NoSocket
  <2>2. ready["connect"] = 0 /\ ready["reconnect"] = 0 /\ armed \notin Connectors
    BY <2>1, <1>a, Outstanding DEF ConnectsOutstanding
  <2>3. ConnectsOutstanding' = 0
    BY <1>17, <2>2, Cancelled DEF HandleAuthDenied, Receives, Disconnect, ConnectsOutstanding,
       Connectors, NoHandler
  <2>4. UpdateChains' /\ OneConnector' /\ Starting'
    BY <1>17, <2>3 DEF HandleAuthDenied, Receives, Disconnect, UpdateChains, OneConnector,
       Starting
  <2>5. ReadsOnlyWhenCurrent'
    BY <1>17 DEF HandleAuthDenied, Receives, ReadsOnlyWhenCurrent, InHandler
  <2>6. Constructed'
    BY <1>17 DEF HandleAuthDenied, Disconnect, ClosedBy, Constructed, TypeOK, SockTypes,
       NoSocket
  <2>7. InHandler'
    BY <1>17 DEF HandleAuthDenied, Disconnect, ClosedBy, InHandler, TypeOK, SockTypes, IoTypes,
       Sockets, NoSocket
  <2>8. OnlyCurrentIsOpen'
    BY <1>17 DEF HandleAuthDenied, ClosedBy, OnlyCurrentIsOpen, IsOpen, NoSocket
  <2> QED
    BY <2>3, <2>4, <2>5, <2>6, <2>7, <2>8
<1>18. CASE HandlePong
  <2>1. UpdateChains' /\ OneConnector' /\ Starting'
    BY <1>18 DEF HandlePong, UpdateChains, UpdatesOutstanding, OneConnector,
       ConnectsOutstanding, Starting
  <2>2. ReadsOnlyWhenCurrent' /\ Constructed' /\ InHandler' /\ OnlyCurrentIsOpen'
    BY <1>18 DEF HandlePong, ReadsOnlyWhenCurrent, Constructed, InHandler, OnlyCurrentIsOpen,
       IsOpen
  <2> QED
    BY <2>1, <2>2
<1>19. CASE ReadThrows
  <2>1. UpdateChains' /\ OneConnector' /\ Starting'
    BY <1>19 DEF ReadThrows, UpdateChains, UpdatesOutstanding, OneConnector,
       ConnectsOutstanding, Starting
  <2>2. ReadsOnlyWhenCurrent' /\ Constructed' /\ InHandler' /\ OnlyCurrentIsOpen'
    BY <1>19 DEF ReadThrows, ReadsOnlyWhenCurrent, Constructed, InHandler, OnlyCurrentIsOpen,
       IsOpen
  <2> QED
    BY <2>1, <2>2
<1>20. CASE MainReturns
  <2>1. ConnectsOutstanding' = 0
    BY <1>20, Cancelled DEF MainReturns, Idle, NoWork, Disconnect, ConnectsOutstanding,
       Connectors, Handlers, NoHandler
  <2>2. UpdateChains' /\ OneConnector' /\ Starting'
    BY <1>20, <2>1 DEF MainReturns, Disconnect, UpdateChains, OneConnector, Starting
  <2>3. ReadsOnlyWhenCurrent'
    BY <1>20 DEF MainReturns, NoWork, ReadsOnlyWhenCurrent
  <2>4. Constructed'
    BY <1>20 DEF MainReturns, Disconnect, ClosedBy, Constructed, TypeOK, SockTypes, NoSocket
  <2>5. InHandler'
    BY <1>20 DEF MainReturns, Disconnect, Starting, ClosedBy, Constructed, InHandler, TypeOK,
       SockTypes, IoTypes, Sockets, NoSocket
  <2>6. OnlyCurrentIsOpen'
    BY <1>20 DEF MainReturns, Starting, ClosedBy, OnlyCurrentIsOpen, IsOpen, NoSocket
  <2> QED
    BY <2>2, <2>3, <2>4, <2>5, <2>6
<1>21. ASSUME NEW c \in Sockets, WriteHandlerWrapper(c) PROVE ControlInv'
  <2>1. UpdateChains' /\ OneConnector' /\ Starting'
    BY <1>21 DEF WriteHandlerWrapper, Idle, HandleQueue, UpdateChains, UpdatesOutstanding,
       OneConnector, ConnectsOutstanding, Starting
  <2>2. ReadsOnlyWhenCurrent' /\ Constructed' /\ InHandler' /\ OnlyCurrentIsOpen'
    BY <1>21 DEF WriteHandlerWrapper, HandleQueue, ReadsOnlyWhenCurrent, Constructed, InHandler,
       OnlyCurrentIsOpen, IsOpen
  <2> QED
    BY <2>1, <2>2
<1>22. ASSUME NEW c \in Sockets, ReadError(c) PROVE ControlInv'
  <2>1. UpdateChains' /\ OneConnector' /\ Starting'
    BY <1>22 DEF ReadError, UpdateChains, UpdatesOutstanding, OneConnector, ConnectsOutstanding,
       Starting
  <2>2. ReadsOnlyWhenCurrent' /\ Constructed' /\ InHandler' /\ OnlyCurrentIsOpen'
    BY <1>22 DEF ReadError, Idle, ReadsOnlyWhenCurrent, Constructed, InHandler,
       OnlyCurrentIsOpen, IsOpen
  <2> QED
    BY <2>1, <2>2
<1>23. ASSUME NEW c \in Sockets, ReadData(c) PROVE ControlInv'
  <2>1. UpdateChains' /\ OneConnector' /\ Starting'
    BY <1>23 DEF ReadData, Idle, UpdateChains, UpdatesOutstanding, OneConnector,
       ConnectsOutstanding, Starting
  <2>2. ReadsOnlyWhenCurrent' /\ Constructed' /\ InHandler' /\ OnlyCurrentIsOpen'
    BY <1>23 DEF ReadData, ReadsOnlyWhenCurrent, Constructed, InHandler, OnlyCurrentIsOpen,
       IsOpen, Sockets
  <2> QED
    BY <2>1, <2>2
<1>24. CASE UNCHANGED vars
  BY <1>24 DEF vars, UpdateChains, UpdatesOutstanding, OneConnector, ConnectsOutstanding,
     Starting, ReadsOnlyWhenCurrent, Constructed, InHandler, OnlyCurrentIsOpen, IsOpen
<1> QED
  BY <1>1, <1>2, <1>3, <1>4, <1>5, <1>6, <1>7, <1>8, <1>9, <1>10, <1>11, <1>12, <1>13, <1>14,
     <1>15, <1>16, <1>17, <1>18, <1>19, <1>20, <1>21, <1>22, <1>23, <1>24
  DEF Next, IoThread,
     UpdateHandler, UpdateLoops, ConnectLoop, ReadLoop, Terminated

LEMMA SpecControl == Spec => [](TypeOK /\ ControlInv)
<1>1. Init => TypeOK /\ ControlInv
  BY TypeInit, ControlInit
<1>2. TypeOK /\ ControlInv /\ [Next]_vars => (TypeOK /\ ControlInv)'
  BY TypeNext, ControlNext
<1> QED
  BY <1>1, <1>2, PTL DEF Spec

\* There are as many chains of Update() calls as connections were made, one
\* lambda of ConnectToServer at most, and reads are outstanding on the manager's
\* open socket only.
THEOREM ControlCorrect == Spec => [](UpdateChains /\ OneConnector /\ ReadsOnlyWhenCurrent)
BY SpecControl, PTL DEF ControlInv

\* No socket but the manager's is open, and none once it is stopped.
THEOREM OpenSockets == Spec => []OnlyCurrentIsOpen
BY SpecControl, PTL DEF ControlInv

\* After Disconnect() no socket is created and nothing is sent.
THEOREM StopIsFinal == Spec => StoppedIsFinal
<1>1. TypeOK /\ ControlInv /\ [Next]_vars
        => [stopped => stopped' /\ created' = created /\ wire' = wire]_vars
  <2> SUFFICES ASSUME TypeOK, ControlInv, Next, stopped
               PROVE  stopped' /\ created' = created /\ wire' = wire
    OBVIOUS
  <2> USE DEF procVars, ioVars, timerVars, sockVars, sendVars, queueVars
  <2>1. pc \notin {"connect", "send", "flush", "drain"}
    BY Outstanding DEF ControlInv, InHandler, OneConnector, ConnectsOutstanding
  <2>2. \A c \in writing : c \in closed
    BY DEF ControlInv, Constructed, OnlyCurrentIsOpen, IsOpen, TypeOK, SendTypes, Sockets
  <2>3. ASSUME NEW c \in Sockets, WriteHandlerWrapper(c)
        PROVE  stopped' /\ created' = created /\ wire' = wire
    BY <2>2, <2>3 DEF WriteHandlerWrapper, HandleQueue
  <2>4. CASE Initialize \/ AddPacketToQueue \/ TimerExpires \/ UpdateHandler \/ ConnectLambda
    BY <2>4 DEF Initialize, AddPacketToQueue, TimerExpires, UpdateHandler, UpdateStopped,
       Update, ConnectLambda
  <2>5. CASE ReadLoop
    BY <2>5 DEF ReadLoop, ReadHandlerEnds, ReadRejected, ReadOutOfTurn, HandleAuthOk,
       HandleAuthDenied, HandlePong, ReadThrows, Disconnect
  <2>6. CASE MainReturns \/ Terminated
    BY <2>6 DEF MainReturns, Terminated, Disconnect, vars
  <2>7. ASSUME NEW c \in Sockets, ReadError(c) \/ ReadData(c)
        PROVE  stopped' /\ created' = created /\ wire' = wire
    BY <2>7 DEF ReadError, ReadData
  <2>8. ~(UpdateLoops \/ ConnectLoop)
    BY <2>1 DEF UpdateLoops, SendQueued, SocketUpdate, Flush, DrainQueue, ConnectLoop,
       ConnectSucceeds, ConnectFails
  <2> QED
    BY <2>3, <2>4, <2>5, <2>6, <2>7, <2>8 DEF Next, IoThread
<1> QED
  BY <1>1, SpecControl, PTL DEF Spec, StoppedIsFinal

\* main() returns only after Disconnect() or when Initialize() started nothing.
THEOREM ExitIsNotSilent == Spec => NoSilentExit
<1>1. TypeOK /\ ControlInv /\ [Next]_vars
        => [process' = "halted" => stopped \/ ~(conf.enabled /\ conf.resolves)]_vars
  <2> SUFFICES ASSUME TypeOK, ControlInv, Next, vars' # vars, process' = "halted",
                      ~stopped, conf.enabled, conf.resolves
               PROVE  FALSE
    OBVIOUS
  <2> USE DEF procVars, ioVars, timerVars, sockVars, sendVars, queueVars
  <2>1. CASE MainReturns
    <3>1. process = "running" /\ UpdatesOutstanding = 0 /\ ConnectsOutstanding = 0
      BY <2>1 DEF MainReturns, Idle, NoWork, UpdatesOutstanding, ConnectsOutstanding,
         Connectors, Handlers, NoHandler
    <3> QED
      BY <3>1 DEF ControlInv, UpdateChains, Starting
  <2>2. CASE Initialize \/ AddPacketToQueue \/ TimerExpires \/ UpdateHandler \/ ConnectLambda
    BY <2>2 DEF Initialize, AddPacketToQueue, TimerExpires, Idle, UpdateHandler, UpdateStopped,
       Update, ConnectLambda
  <2>3. CASE UpdateLoops
    BY <2>3 DEF UpdateLoops, SendQueued, SocketUpdate, Flush, DrainQueue
  <2>4. CASE ConnectLoop
    BY <2>4 DEF ConnectLoop, ConnectSucceeds, ConnectFails
  <2>5. CASE ReadLoop
    BY <2>5 DEF ReadLoop, ReadHandlerEnds, ReadRejected, ReadOutOfTurn, HandleAuthOk,
       HandleAuthDenied, HandlePong, ReadThrows, Receives
  <2>6. ASSUME NEW c \in Sockets, ReadError(c) \/ ReadData(c) \/ WriteHandlerWrapper(c)
        PROVE  FALSE
    BY <2>6 DEF ReadError, ReadData, WriteHandlerWrapper, Idle
  <2> QED
    BY <2>1, <2>2, <2>3, <2>4, <2>5, <2>6 DEF Next, IoThread, Terminated
<1> QED
  BY <1>1, SpecControl, PTL DEF Spec, NoSilentExit

-----------------------------------------------------------------------------
(***************************************************************************)
(* The packets                                                             *)
(***************************************************************************)

\* Connections take turns: the manager's socket is the newest, the sockets to come
\* are untouched, and nothing of them is on the wire.
Turns ==
    /\ clientSocket \in {NoSocket, created}
    /\ \A c \in Sockets : c > created => writeQueue[c] = << >> /\ sockQueue[c] = << >>
    /\ \A i \in DOMAIN wire : wire[i].sock <= created

\* Packets of a kind of the connection c reached the server; no packet did, or none
\* but auth sessions.
Seen(c, kind) == \E i \in DOMAIN wire : wire[i].sock = c /\ wire[i].msg.kind = kind
Unseen(c)     == \A i \in DOMAIN wire : wire[i].sock # c
OnlyAuth(c)   ==
    /\ Seen(c, "auth")
    /\ \A i \in DOMAIN wire : wire[i].sock = c => wire[i].msg.kind = "auth"

\* Behind its first k buffers, the write queue q holds application packets only.
Rest(q, k) == \A i \in DOMAIN q : i > k => q[i].kind \in {"app", "empty"}

\* How far a connection has come: the auth session is queued or sent; after the
\* server's consent, the ping is queued behind it or sent.
Asking(c)    == writeQueue[c] = <<AuthSession>> /\ Unseen(c)
Asked(c)     == writeQueue[c] = << >> /\ OnlyAuth(c)
BothQueued(c) ==
    /\ Len(writeQueue[c]) >= 2 /\ Rest(writeQueue[c], 2) /\ Unseen(c)
    /\ writeQueue[c][1].kind = "auth" /\ writeQueue[c][2].kind = "ping"
PingQueued(c) ==
    /\ Len(writeQueue[c]) >= 1 /\ Rest(writeQueue[c], 1) /\ OnlyAuth(c)
    /\ writeQueue[c][1].kind = "ping"
PingSent(c)  == Rest(writeQueue[c], 0) /\ Seen(c, "ping")

Protocol ==
    \A c \in 1 .. created : c \notin closed \cup broken =>
        IF c \in authed THEN BothQueued(c) \/ PingQueued(c) \/ PingSent(c)
                        ELSE Asking(c) \/ Asked(c)

\* The inductive invariant, beside TypeOK and ControlInv.
WireInv == Turns /\ Protocol /\ NothingLostWhileConnected

LEMMA WireInit == Init => WireInv
<1> SUFFICES ASSUME Init PROVE WireInv
  OBVIOUS
<1>1. \A q : q = << >> => Packets(q) = {} /\ Apps(q) = {} /\ Increasing(q) /\ AppsIncrease(q)
  BY DEF Packets, Apps, Increasing, AppsIncrease
<1>2. WireApps = {} /\ added = 0 /\ Packets(mgrQueue) = {} /\ Increasing(mgrQueue)
  BY <1>1 DEF Init, WireApps
<1>3. \A c \in Sockets :
         /\ Packets(sockQueue[c]) = {} /\ Apps(writeQueue[c]) = {}
         /\ Increasing(sockQueue[c]) /\ AppsIncrease(writeQueue[c])
  BY <1>1 DEF Init
<1>4. NothingLostWhileConnected
  BY <1>2, <1>3 DEF NothingLostWhileConnected, InOrder, Below
<1>5. Turns /\ Protocol
  BY DEF Init, Turns, Protocol, NoSocket
<1> QED
  BY <1>4, <1>5 DEF WireInv

-----------------------------------------------------------------------------
(***************************************************************************)
(* The packets of a queue, at its two ends                                 *)
(***************************************************************************)
LEMMA Elements ==
    ASSUME NEW S, NEW q \in Seq(S)
    PROVE  \A i \in DOMAIN q : q[i] \in S
OBVIOUS

LEMMA PacketsAppend ==
    ASSUME NEW q \in Seq(Nat), NEW x \in Nat
    PROVE  /\ Packets(Append(q, x)) = Packets(q) \cup {x}
           /\ Increasing(q) /\ Below(Packets(q), {x}) => Increasing(Append(q, x))
<1> DEFINE r == Append(q, x)
<1>1. /\ DOMAIN q = 1 .. Len(q) /\ DOMAIN r = 1 .. Len(q) + 1 /\ Len(q) \in Nat
      /\ r[Len(q) + 1] = x /\ \A i \in 1 .. Len(q) : r[i] = q[i]
  OBVIOUS
<1> HIDE DEF r
<1>2. Packets(r) = Packets(q) \cup {x}
  BY <1>1 DEF Packets
<1>3. Increasing(q) /\ Below(Packets(q), {x}) => Increasing(r)
  BY <1>1 DEF Increasing, Below, Packets
<1> QED
  BY <1>2, <1>3 DEF r

LEMMA PacketsTail ==
    ASSUME NEW q \in Seq(Nat), q # << >>
    PROVE  /\ Packets(q) = {Head(q)} \cup Packets(Tail(q))
           /\ Increasing(q) => Increasing(Tail(q)) /\ Below({Head(q)}, Packets(Tail(q)))
<1> DEFINE r == Tail(q)
<1>1. /\ DOMAIN q = 1 .. Len(q) /\ DOMAIN r = 1 .. Len(q) - 1 /\ Len(q) \in Nat /\ Len(q) > 0
      /\ Head(q) = q[1] /\ \A i \in 1 .. Len(q) - 1 : r[i] = q[i + 1]
  OBVIOUS
<1> HIDE DEF r
<1>2. Packets(q) = {Head(q)} \cup Packets(r)
  <2>1. ASSUME NEW i \in DOMAIN q PROVE q[i] \in {Head(q)} \cup Packets(r)
    <3>1. CASE i = 1
      BY <1>1, <3>1
    <3>2. CASE i # 1
      <4>1. i - 1 \in DOMAIN r /\ r[i - 1] = q[i]
        BY <1>1, <3>2
      <4> QED
        BY <4>1 DEF Packets
    <3> QED
      BY <3>1, <3>2
  <2>2. ASSUME NEW i \in DOMAIN r PROVE r[i] \in Packets(q)
    <3>1. i + 1 \in DOMAIN q /\ r[i] = q[i + 1]
      BY <1>1
    <3> QED
      BY <3>1 DEF Packets
  <2>3. Head(q) \in Packets(q)
    BY <1>1 DEF Packets
  <2> QED
    BY <2>1, <2>2, <2>3 DEF Packets
<1>3. ASSUME Increasing(q) PROVE Increasing(r) /\ Below({Head(q)}, Packets(r))
  <2>1. ASSUME NEW i \in DOMAIN r, NEW j \in DOMAIN r, i < j PROVE r[i] < r[j]
    <3>1. /\ i + 1 \in DOMAIN q /\ j + 1 \in DOMAIN q /\ i + 1 < j + 1
          /\ r[i] = q[i + 1] /\ r[j] = q[j + 1]
      BY <1>1, <2>1
    <3> QED
      BY <1>3, <3>1 DEF Increasing
  <2>2. ASSUME NEW i \in DOMAIN r PROVE Head(q) < r[i]
    <3>1. 1 \in DOMAIN q /\ i + 1 \in DOMAIN q /\ 1 < i + 1 /\ r[i] = q[i + 1]
      BY <1>1
    <3> QED
      BY <1>1, <1>3, <3>1 DEF Increasing
  <2> QED
    BY <2>1, <2>2 DEF Increasing, Below, Packets
<1> QED
  BY <1>2, <1>3 DEF r

\* The number of an application packet, as a set; the other messages have none.
Number(m) == IF m.kind = "app" THEN {m.n} ELSE {}

LEMMA AppsAppend ==
    ASSUME NEW q \in Seq(Messages), NEW m \in Messages
    PROVE  /\ Apps(Append(q, m)) = Apps(q) \cup Number(m)
           /\ AppsIncrease(q) /\ Below(Apps(q), Number(m)) => AppsIncrease(Append(q, m))
<1> DEFINE r == Append(q, m)
<1>1. /\ DOMAIN q = 1 .. Len(q) /\ DOMAIN r = 1 .. Len(q) + 1 /\ Len(q) \in Nat
      /\ r[Len(q) + 1] = m /\ \A i \in 1 .. Len(q) : r[i] = q[i]
  OBVIOUS
<1> HIDE DEF r
<1>2. Apps(r) = Apps(q) \cup Number(m)
  <2>1. ASSUME NEW i \in DOMAIN r, r[i].kind = "app" PROVE r[i].n \in Apps(q) \cup Number(m)
    BY <1>1, <2>1 DEF Apps, Number
  <2>2. ASSUME NEW i \in DOMAIN q, q[i].kind = "app" PROVE q[i].n \in Apps(r)
    BY <1>1, <2>2 DEF Apps
  <2>3. ASSUME m.kind = "app" PROVE m.n \in Apps(r)
    BY <1>1, <2>3 DEF Apps
  <2> QED
    BY <2>1, <2>2, <2>3 DEF Apps, Number
<1>3. AppsIncrease(q) /\ Below(Apps(q), Number(m)) => AppsIncrease(r)
  <2> SUFFICES ASSUME AppsIncrease(q), Below(Apps(q), Number(m)),
                      NEW i \in DOMAIN r, NEW j \in DOMAIN r, i < j,
                      r[i].kind = "app", r[j].kind = "app"
               PROVE  r[i].n < r[j].n
    BY DEF AppsIncrease
  <2>1. i \in DOMAIN q /\ r[i] = q[i] /\ q[i].n \in Apps(q)
    BY <1>1 DEF Apps
  <2>2. CASE j \in DOMAIN q
    BY <1>1, <2>1, <2>2 DEF AppsIncrease
  <2>3. CASE j \notin DOMAIN q
    <3>1. r[j] = m /\ m.n \in Number(m)
      BY <1>1, <2>3 DEF Number
    <3> QED
      BY <2>1, <3>1 DEF Below
  <2> QED
    BY <2>2, <2>3
<1> QED
  BY <1>2, <1>3 DEF r

LEMMA AppsTail ==
    ASSUME NEW q \in Seq(Messages), q # << >>
    PROVE  /\ Apps(q) = Number(Head(q)) \cup Apps(Tail(q))
           /\ AppsIncrease(q) =>
                 AppsIncrease(Tail(q)) /\ Below(Number(Head(q)), Apps(Tail(q)))
<1> DEFINE r == Tail(q)
<1>1. /\ DOMAIN q = 1 .. Len(q) /\ DOMAIN r = 1 .. Len(q) - 1 /\ Len(q) \in Nat /\ Len(q) > 0
      /\ Head(q) = q[1] /\ \A i \in 1 .. Len(q) - 1 : r[i] = q[i + 1]
  OBVIOUS
<1> HIDE DEF r
<1>2. Apps(q) = Number(Head(q)) \cup Apps(r)
  <2>1. ASSUME NEW i \in DOMAIN q, q[i].kind = "app" PROVE q[i].n \in Number(Head(q)) \cup Apps(r)
    <3>1. CASE i = 1
      BY <1>1, <2>1, <3>1 DEF Number
    <3>2. CASE i # 1
      <4>1. i - 1 \in DOMAIN r /\ r[i - 1] = q[i]
        BY <1>1, <3>2
      <4> QED
        BY <2>1, <4>1 DEF Apps
    <3> QED
      BY <3>1, <3>2
  <2>2. ASSUME NEW i \in DOMAIN r, r[i].kind = "app" PROVE r[i].n \in Apps(q)
    <3>1. i + 1 \in DOMAIN q /\ r[i] = q[i + 1]
      BY <1>1
    <3> QED
      BY <2>2, <3>1 DEF Apps
  <2>3. ASSUME Head(q).kind = "app" PROVE Head(q).n \in Apps(q)
    BY <1>1, <2>3 DEF Apps
  <2> QED
    BY <2>1, <2>2, <2>3 DEF Apps, Number
<1>3. ASSUME AppsIncrease(q) PROVE AppsIncrease(r) /\ Below(Number(Head(q)), Apps(r))
  <2>1. ASSUME NEW i \in DOMAIN r, NEW j \in DOMAIN r, i < j, r[i].kind = "app", r[j].kind = "app"
        PROVE  r[i].n < r[j].n
    <3>1. /\ i + 1 \in DOMAIN q /\ j + 1 \in DOMAIN q /\ i + 1 < j + 1
          /\ r[i] = q[i + 1] /\ r[j] = q[j + 1]
      BY <1>1, <2>1
    <3> QED
      BY <1>3, <2>1, <3>1 DEF AppsIncrease
  <2>2. Below(Number(Head(q)), Apps(r))
    BY <1>1, <1>3 DEF AppsIncrease, Below, Number, Apps
  <2> QED
    BY <2>1, <2>2 DEF AppsIncrease
<1> QED
  BY <1>2, <1>3 DEF r

\* What SendPacket() pushes are one or two buffers at the end of the write queue, with
\* the packet's number once.
LEMMA AppsBuffers ==
    ASSUME NEW q \in Seq(Messages), NEW n \in 1 .. MaxPackets
    PROVE  /\ Apps(q \o Buffers(n)) = Apps(q) \cup {n}
           /\ AppsIncrease(q) /\ Below(Apps(q), {n}) => AppsIncrease(q \o Buffers(n))
<1>0. /\ EmptyBuffer \in Messages /\ App(n) \in Messages
      /\ Number(EmptyBuffer) = {} /\ Number(App(n)) = {n}
  BY MessageTypes DEF Number, EmptyBuffer, App
<1>1. CASE n \notin LargePackets
  <2>1. q \o Buffers(n) = Append(q, App(n))
    BY <1>0, <1>1 DEF Buffers
  <2> QED
    BY <1>0, <2>1, AppsAppend
<1>2. CASE n \in LargePackets
  <2>1. q \o Buffers(n) = Append(Append(q, EmptyBuffer), App(n))
    BY <1>0, <1>2 DEF Buffers
  <2>2. Append(q, EmptyBuffer) \in Seq(Messages) /\ Apps(Append(q, EmptyBuffer)) = Apps(q)
    <3>1. Apps(Append(q, EmptyBuffer)) = Apps(q) \cup Number(EmptyBuffer)
      BY <1>0, AppsAppend, Zenon
    <3>2. Append(q, EmptyBuffer) \in Seq(Messages)
      BY <1>0
    <3> QED
      BY <1>0, <3>1, <3>2
  <2>3. AppsIncrease(q) => AppsIncrease(Append(q, EmptyBuffer))
    BY <1>0, AppsAppend DEF Below
  <2> QED
    BY <1>0, <2>1, <2>2, <2>3, AppsAppend
<1> QED
  BY <1>1, <1>2

-----------------------------------------------------------------------------
(***************************************************************************)
(* The order of the packets: one lemma per action that moves one           *)
(***************************************************************************)
QueueTyped ==
    /\ added \in Nat /\ mgrQueue \in Seq(Nat)
    /\ \A c \in Sockets : sockQueue[c] \in Seq(Nat) /\ writeQueue[c] \in Seq(Messages)
    /\ sockQueue \in [Sockets -> Seq(1 .. MaxPackets)]
    /\ writeQueue \in [Sockets -> Seq(Messages)]
    /\ wire \in Seq([sock : Sockets, msg : Messages])

LEMMA QueueTypings == TypeOK => QueueTyped
BY BoundsAssumption DEF TypeOK, SendTypes, QueueTypes, QueueTyped

\* Every packet is somewhere, until a connection is closed or fails.
Present ==
    closed \cup broken = {} =>
       \A n \in 1 .. added :
          \/ n \in Packets(mgrQueue) \cup WireApps
          \/ /\ clientSocket # NoSocket
             /\ n \in Packets(sockQueue[clientSocket]) \cup Apps(writeQueue[clientSocket])

LEMMA LostParts == NothingLostWhileConnected <=> InOrder /\ Present
BY DEF NothingLostWhileConnected, Present

LEMMA AddOrder ==
    ASSUME TypeOK, InOrder, Present, AddPacketToQueue PROVE InOrder' /\ Present'
<1> USE DEF procVars, ioVars, timerVars, sockVars, sendVars
<1>1. QueueTyped
  BY QueueTypings
<1>2. /\ added' = added + 1 /\ mgrQueue' = Append(mgrQueue, added + 1)
      /\ UNCHANGED <<clientSocket, closed, broken, sockQueue, writeQueue, wire>>
  BY DEF AddPacketToQueue
<1>3. Below(Packets(mgrQueue), {added + 1})
  BY <1>1 DEF InOrder, Below, QueueTyped
<1>4. Packets(mgrQueue') = Packets(mgrQueue) \cup {added + 1} /\ Increasing(mgrQueue')
  BY <1>1, <1>2, <1>3, PacketsAppend DEF InOrder, QueueTyped
<1>5. WireApps' = WireApps
  BY <1>2 DEF WireApps
<1>6. 1 .. added \subseteq 1 .. added' /\ 1 .. added' = 1 .. added \cup {added + 1}
  BY <1>1, <1>2 DEF QueueTyped
<1>7. Below(WireApps, {added + 1})
  BY <1>1 DEF InOrder, Below, QueueTyped
<1>8. \A c \in Sockets : Below(Apps(writeQueue[c]) \cup Packets(sockQueue[c]), {added + 1})
  BY <1>1 DEF InOrder, Below, QueueTyped
<1>9. InOrder'
  <2>1. /\ (Packets(mgrQueue) \cup WireApps \subseteq 1 .. added)'
        /\ Increasing(mgrQueue)' /\ Below(WireApps, Packets(mgrQueue))'
    BY <1>2, <1>4, <1>5, <1>6, <1>7 DEF InOrder, Below
  <2>2. ASSUME NEW c \in Sockets
        PROVE  /\ Increasing(sockQueue'[c]) /\ AppsIncrease(writeQueue'[c])
               /\ Packets(sockQueue'[c]) \cup Apps(writeQueue'[c]) \subseteq 1 .. added'
               /\ Below(Apps(writeQueue'[c]), Packets(sockQueue'[c]))
               /\ Below(Apps(writeQueue'[c]) \cup Packets(sockQueue'[c]), Packets(mgrQueue'))
               /\ c = clientSocket' =>
                     Below(WireApps', Apps(writeQueue'[c]) \cup Packets(sockQueue'[c]))
    BY <1>2, <1>4, <1>5, <1>6, <1>8 DEF InOrder, Below
  <2> QED
    BY <2>1, <2>2 DEF InOrder
<1>10. Present'
  BY <1>2, <1>4, <1>5, <1>6 DEF Present
<1> QED
  BY <1>9, <1>10

LEMMA DrainOrder ==
    ASSUME TypeOK, InOrder, Present, DrainQueue PROVE InOrder' /\ Present'
<1> USE DEF procVars, timerVars, sockVars
<1> DEFINE c == clientSocket
           x == Head(mgrQueue)
<1>1. QueueTyped /\ c \in Sockets /\ c # NoSocket
  BY QueueTypings DEF DrainQueue, TypeOK, SockTypes, Sockets, NoSocket
<1>2. UNCHANGED <<clientSocket, closed, broken, writeQueue, wire, added>> /\ WireApps' = WireApps
  BY DEF DrainQueue, WireApps
<1>3. CASE UNCHANGED <<mgrQueue, sockQueue>>
  BY <1>2, <1>3 DEF InOrder, Present
<1>4. CASE /\ mgrQueue # << >> /\ mgrQueue' = Tail(mgrQueue)
           /\ sockQueue' = [sockQueue EXCEPT ![c] = Append(@, x)]
  <2>1. /\ Packets(mgrQueue) = {x} \cup Packets(mgrQueue')
        /\ Increasing(mgrQueue') /\ Below({x}, Packets(mgrQueue')) /\ x \in Nat
    <3>1. x \in Nat
      BY <1>1, <1>4, HeadTail DEF QueueTyped
    <3> QED
      BY <1>1, <1>4, <3>1, PacketsTail DEF QueueTyped, InOrder
  <2>2. sockQueue'[c] = Append(sockQueue[c], x)
    BY <1>1, <1>4 DEF QueueTyped
  <2>3. \A d \in Sockets : d # c => sockQueue'[d] = sockQueue[d]
    BY <1>1, <1>4 DEF QueueTyped
  <2>4. Below(Packets(sockQueue[c]), {x}) /\ Below(Apps(writeQueue[c]), {x})
    BY <1>1, <2>1 DEF InOrder, Below
  <2>5. Packets(sockQueue'[c]) = Packets(sockQueue[c]) \cup {x} /\ Increasing(sockQueue'[c])
    BY <1>1, <2>1, <2>2, <2>4, PacketsAppend DEF QueueTyped, InOrder
  <2> HIDE DEF c, x
  <2>6. /\ (Packets(mgrQueue) \cup WireApps \subseteq 1 .. added)'
        /\ Increasing(mgrQueue)' /\ Below(WireApps, Packets(mgrQueue))'
    BY <1>2, <2>1 DEF InOrder, Below
  <2>7. ASSUME NEW d \in Sockets
        PROVE  /\ Increasing(sockQueue'[d]) /\ AppsIncrease(writeQueue'[d])
               /\ Packets(sockQueue'[d]) \cup Apps(writeQueue'[d]) \subseteq 1 .. added'
               /\ Below(Apps(writeQueue'[d]), Packets(sockQueue'[d]))
               /\ Below(Apps(writeQueue'[d]) \cup Packets(sockQueue'[d]), Packets(mgrQueue'))
               /\ d = clientSocket' =>
                     Below(WireApps', Apps(writeQueue'[d]) \cup Packets(sockQueue'[d]))
    <3>1. CASE d = c
      BY <1>1, <1>2, <2>1, <2>4, <2>5, <3>1 DEF InOrder, Below
    <3>2. CASE d # c
      BY <1>2, <2>1, <2>3, <3>2 DEF InOrder, Below, c
    <3> QED
      BY <3>1, <3>2
  <2>8. InOrder'
    BY <2>6, <2>7 DEF InOrder
  <2>9. Present'
    BY <1>1, <1>2, <2>1, <2>5 DEF Present, c
  <2> QED
    BY <2>8, <2>9
<1> QED
  BY <1>3, <1>4 DEF DrainQueue

LEMMA SendOrder ==
    ASSUME TypeOK, InOrder, Present, SendQueued PROVE InOrder' /\ Present'
<1> USE DEF procVars, ioVars, timerVars, sockVars, queueVars
<1> DEFINE c == clientSocket
           x == Head(sockQueue[c])
<1>1. QueueTyped /\ c \in Sockets /\ c # NoSocket
  BY QueueTypings DEF SendQueued, TypeOK, SockTypes, Sockets, NoSocket
<1>2. /\ UNCHANGED <<clientSocket, closed, broken, wire, mgrQueue, added>>
      /\ WireApps' = WireApps
  BY DEF SendQueued, WireApps
<1>3. /\ sockQueue[c] # << >> /\ sockQueue[c] \in Seq(1 .. MaxPackets)
      /\ x \in 1 .. MaxPackets /\ x \in Nat
  BY <1>1, HeadTail, BoundsAssumption DEF SendQueued, QueueTyped
<1>4. /\ Packets(sockQueue[c]) = {x} \cup Packets(Tail(sockQueue[c]))
      /\ Increasing(Tail(sockQueue[c])) /\ Below({x}, Packets(Tail(sockQueue[c])))
  BY <1>1, <1>3, PacketsTail DEF QueueTyped, InOrder
<1>5. /\ sockQueue'[c] = Tail(sockQueue[c])
      /\ \A d \in Sockets : d # c => sockQueue'[d] = sockQueue[d] /\ writeQueue'[d] = writeQueue[d]
  BY <1>1 DEF SendQueued, QueueTyped
<1>6. Below(Apps(writeQueue[c]), {x})
  BY <1>1, <1>4 DEF InOrder, Below
<1>7. \/ c \in closed /\ writeQueue'[c] = writeQueue[c]
      \/ /\ Apps(writeQueue'[c]) = Apps(writeQueue[c]) \cup {x}
         /\ AppsIncrease(writeQueue'[c])
  <2>1. \/ c \in closed /\ writeQueue'[c] = writeQueue[c]
        \/ writeQueue'[c] = writeQueue[c] \o Buffers(x)
    BY <1>1 DEF SendQueued, QueueTyped, IsOpen
  <2>2. writeQueue[c] \in Seq(Messages) /\ AppsIncrease(writeQueue[c])
    BY <1>1 DEF QueueTyped, InOrder
  <2> QED
    BY <1>3, <1>6, <2>1, <2>2, AppsBuffers
<1> HIDE DEF c, x
<1>8. /\ (Packets(mgrQueue) \cup WireApps \subseteq 1 .. added)'
      /\ Increasing(mgrQueue)' /\ Below(WireApps, Packets(mgrQueue))'
  BY <1>2 DEF InOrder, Below
<1>9. ASSUME NEW d \in Sockets
      PROVE  /\ Increasing(sockQueue'[d]) /\ AppsIncrease(writeQueue'[d])
             /\ Packets(sockQueue'[d]) \cup Apps(writeQueue'[d]) \subseteq 1 .. added'
             /\ Below(Apps(writeQueue'[d]), Packets(sockQueue'[d]))
             /\ Below(Apps(writeQueue'[d]) \cup Packets(sockQueue'[d]), Packets(mgrQueue'))
             /\ d = clientSocket' =>
                   Below(WireApps', Apps(writeQueue'[d]) \cup Packets(sockQueue'[d]))
  <2>1. CASE d = c
    BY <1>1, <1>2, <1>4, <1>5, <1>6, <1>7, <2>1 DEF InOrder, Below
  <2>2. CASE d # c
    BY <1>2, <1>5, <2>2 DEF InOrder, Below, c
  <2> QED
    BY <2>1, <2>2
<1>10. InOrder'
  BY <1>8, <1>9 DEF InOrder
<1>11. Present'
  BY <1>1, <1>2, <1>4, <1>5, <1>7 DEF Present, c
<1> QED
  BY <1>10, <1>11

\* What a packet adds to the wire.
LEMMA WireGrows ==
    ASSUME wire \in Seq([sock : Sockets, msg : Messages]),
           NEW c \in Sockets, NEW m \in Messages,
           wire' = Append(wire, [sock |-> c, msg |-> m])
    PROVE  /\ WireApps' = WireApps \cup Number(m)
           /\ \A i \in DOMAIN wire' : wire'[i].sock = c \/ (i \in DOMAIN wire /\ wire'[i] = wire[i])
           /\ Unseen(c) /\ m.kind = "auth" => OnlyAuth(c)'
           /\ m.kind = "ping" => Seen(c, "ping")'
           /\ Seen(c, "ping") => Seen(c, "ping")'
           /\ \A d \in Sockets : d # c => /\ Unseen(d) => Unseen(d)'
                                          /\ OnlyAuth(d) => OnlyAuth(d)'
                                          /\ Seen(d, "ping") => Seen(d, "ping")'
<1> DEFINE e == [sock |-> c, msg |-> m]
           k == Len(wire)
<1>1. /\ DOMAIN wire = 1 .. k /\ DOMAIN wire' = 1 .. k + 1 /\ k \in Nat
      /\ wire'[k + 1] = e /\ \A i \in 1 .. k : wire'[i] = wire[i]
  OBVIOUS
<1>2. e.sock = c /\ e.msg = m
  OBVIOUS
<1>3. DOMAIN wire \subseteq DOMAIN wire' /\ k + 1 \in DOMAIN wire'
  BY <1>1
<1>4. \A i \in DOMAIN wire' : i = k + 1 \/ (i \in DOMAIN wire /\ wire'[i] = wire[i])
  BY <1>1
<1>5. \A i \in DOMAIN wire : wire'[i] = wire[i]
  BY <1>1
<1>6. wire'[k + 1].sock = c /\ wire'[k + 1].msg = m
  BY <1>1, <1>2
<1> HIDE DEF e, k
<1>7. WireApps' = WireApps \cup Number(m)
  <2>1. ASSUME NEW i \in DOMAIN wire', wire'[i].msg.kind = "app"
        PROVE  wire'[i].msg.n \in WireApps \cup Number(m)
    BY <1>4, <1>6, <2>1 DEF WireApps, Number
  <2>2. ASSUME NEW i \in DOMAIN wire, wire[i].msg.kind = "app" PROVE wire[i].msg.n \in WireApps'
    <3>1. i \in DOMAIN wire' /\ wire'[i] = wire[i]
      BY <1>3, <1>5
    <3> QED
      BY <2>2, <3>1 DEF WireApps
  <2>3. ASSUME m.kind = "app" PROVE m.n \in WireApps'
    BY <1>3, <1>6, <2>3 DEF WireApps
  <2> QED
    BY <2>1, <2>2, <2>3 DEF WireApps, Number
<1>8. \A i \in DOMAIN wire' : wire'[i].sock = c \/ (i \in DOMAIN wire /\ wire'[i] = wire[i])
  BY <1>4, <1>6
<1>9. \A d, kind : Seen(d, kind) => \E i \in DOMAIN wire' : wire'[i].sock = d /\ wire'[i].msg.kind = kind
  BY <1>3, <1>5 DEF Seen
<1>10. Unseen(c) /\ m.kind = "auth" => OnlyAuth(c)'
  BY <1>3, <1>4, <1>6 DEF Unseen, OnlyAuth, Seen
<1>11. m.kind = "ping" => Seen(c, "ping")'
  BY <1>3, <1>6 DEF Seen
<1>12. Seen(c, "ping") => Seen(c, "ping")'
  BY <1>9 DEF Seen
<1>13. ASSUME NEW d \in Sockets, d # c
       PROVE  /\ Unseen(d) => Unseen(d)'
              /\ OnlyAuth(d) => OnlyAuth(d)'
              /\ Seen(d, "ping") => Seen(d, "ping")'
  <2>1. Unseen(d) => Unseen(d)'
    BY <1>8, <1>13 DEF Unseen
  <2>2. Seen(d, "ping") => Seen(d, "ping")'
    BY <1>9 DEF Seen
  <2>3. Seen(d, "auth") => Seen(d, "auth")'
    BY <1>9 DEF Seen
  <2>4. OnlyAuth(d) => OnlyAuth(d)'
    BY <1>8, <1>13, <2>3 DEF OnlyAuth
  <2> QED
    BY <2>1, <2>2, <2>4
<1> QED
  BY <1>7, <1>8, <1>10, <1>11, <1>12, <1>13

\* HandleQueue() takes the packet at the front of the write queue of c, and puts it on
\* the wire or drops it.
LEMMA PopOrder ==
    ASSUME TypeOK, InOrder, Present, NEW c \in Sockets, writeQueue[c] # << >>,
           writeQueue' = [writeQueue EXCEPT ![c] = Tail(@)],
           UNCHANGED <<clientSocket, closed, sockQueue, mgrQueue, added>>,
           broken \subseteq broken',
           \/ wire' = wire /\ (c \in broken' \/ Head(writeQueue[c]).kind = "empty")
           \/ /\ wire' = Append(wire, [sock |-> c, msg |-> Head(writeQueue[c])])
              /\ c = clientSocket /\ c # NoSocket
    PROVE  InOrder' /\ Present'
<1> DEFINE q == writeQueue[c]
           m == Head(q)
<1>1. QueueTyped /\ m \in Messages
  BY QueueTypings, HeadTail DEF QueueTyped
<1>2. /\ Apps(q) = Number(m) \cup Apps(Tail(q))
      /\ AppsIncrease(Tail(q)) /\ Below(Number(m), Apps(Tail(q)))
  BY <1>1, AppsTail DEF QueueTyped, InOrder
<1>3. writeQueue'[c] = Tail(q) /\ \A d \in Sockets : d # c => writeQueue'[d] = writeQueue[d]
  BY <1>1 DEF QueueTyped
<1>4. \/ WireApps' = WireApps /\ (c \in broken' \/ Number(m) = {})
      \/ WireApps' = WireApps \cup Number(m) /\ c = clientSocket /\ c # NoSocket
  <2>1. CASE wire' = wire /\ (c \in broken' \/ m.kind = "empty")
    BY <2>1 DEF WireApps, Number
  <2>2. CASE wire' = Append(wire, [sock |-> c, msg |-> m]) /\ c = clientSocket /\ c # NoSocket
    BY <1>1, <2>2, WireGrows DEF QueueTyped
  <2> QED
    BY <2>1, <2>2
<1> HIDE DEF m
<1>5. /\ (Packets(mgrQueue) \cup WireApps \subseteq 1 .. added)'
      /\ Increasing(mgrQueue)' /\ Below(WireApps, Packets(mgrQueue))'
  BY <1>2, <1>4 DEF InOrder, Below
<1>6. ASSUME NEW d \in Sockets
      PROVE  /\ Increasing(sockQueue'[d]) /\ AppsIncrease(writeQueue'[d])
             /\ Packets(sockQueue'[d]) \cup Apps(writeQueue'[d]) \subseteq 1 .. added'
             /\ Below(Apps(writeQueue'[d]), Packets(sockQueue'[d]))
             /\ Below(Apps(writeQueue'[d]) \cup Packets(sockQueue'[d]), Packets(mgrQueue'))
             /\ d = clientSocket' =>
                   Below(WireApps', Apps(writeQueue'[d]) \cup Packets(sockQueue'[d]))
  <2>1. CASE d = c
    BY <1>2, <1>3, <1>4, <2>1 DEF InOrder, Below
  <2>2. CASE d # c
    BY <1>3, <1>4, <2>2 DEF InOrder, Below
  <2> QED
    BY <2>1, <2>2
<1>7. InOrder'
  BY <1>5, <1>6 DEF InOrder
<1>8. Present'
  <2> SUFFICES ASSUME closed' \cup broken' = {}, NEW n \in 1 .. added
               PROVE  \/ n \in Packets(mgrQueue) \cup WireApps'
                      \/ /\ clientSocket # NoSocket
                         /\ n \in Packets(sockQueue[clientSocket]) \cup Apps(writeQueue'[clientSocket])
    BY DEF Present
  <2>1. closed \cup broken = {} /\ c \notin broken'
    OBVIOUS
  <2>2. clientSocket # NoSocket => clientSocket \in Sockets
    BY DEF TypeOK, SockTypes
  <2>3. CASE n \in Packets(mgrQueue) \cup WireApps
    BY <1>4, <2>3
  <2>4. CASE /\ clientSocket # NoSocket
             /\ n \in Packets(sockQueue[clientSocket]) \cup Apps(writeQueue[clientSocket])
    BY <1>2, <1>3, <1>4, <2>1, <2>2, <2>4
  <2> QED
    BY <2>1, <2>3, <2>4 DEF Present
<1> QED
  BY <1>7, <1>8

-----------------------------------------------------------------------------
(***************************************************************************)
(* How far the connections have come                                       *)
(***************************************************************************)
Stage(c) ==
    IF c \in authed THEN BothQueued(c) \/ PingQueued(c) \/ PingSent(c)
                    ELSE Asking(c) \/ Asked(c)

\* A connection stays where it is as long as its write queue, its consent and its part
\* of the wire do.
LEMMA StageFrame ==
    ASSUME NEW c \in Sockets, Stage(c), writeQueue'[c] = writeQueue[c],
           c \in authed' <=> c \in authed,
           /\ Unseen(c) => Unseen(c)'
           /\ OnlyAuth(c) => OnlyAuth(c)'
           /\ Seen(c, "ping") => Seen(c, "ping")'
    PROVE  Stage(c)'
BY DEF Stage, BothQueued, PingQueued, PingSent, Asking, Asked

\* Without its front, or with a packet's buffers behind it.
LEMMA RestTail ==
    ASSUME NEW q \in Seq(Messages), q # << >>, NEW k \in Nat, Rest(q, k)
    PROVE  IF k = 0 THEN Rest(Tail(q), 0) ELSE Rest(Tail(q), k - 1)
<1>1. \A i \in DOMAIN Tail(q) : i + 1 \in DOMAIN q /\ Tail(q)[i] = q[i + 1] /\ i > 0
  OBVIOUS
<1>2. \A i \in DOMAIN Tail(q) : i \in Nat
  OBVIOUS
<1> DEFINE r == Tail(q)
<1> HIDE DEF r
<1> QED
  BY <1>1, <1>2 DEF Rest, r

LEMMA RestBuffers ==
    ASSUME NEW q \in Seq(Messages), NEW n \in 1 .. MaxPackets, NEW r, r = q \o Buffers(n)
    PROVE  /\ Len(r) \in Nat /\ Len(q) \in Nat /\ Len(r) >= Len(q)
           /\ \A i \in 1 .. Len(q) : r[i] = q[i]
           /\ \A k \in Nat : Rest(q, k) => Rest(r, k)
<1> DEFINE b == Buffers(n)
<1>1. b \in Seq(Messages) /\ \A i \in DOMAIN b : b[i].kind \in {"app", "empty"}
  BY MessageTypes DEF Buffers, EmptyBuffer, App
<1> HIDE DEF b
<1>2. /\ Len(r) = Len(q) + Len(b) /\ Len(q) \in Nat /\ Len(b) \in Nat
      /\ DOMAIN r = 1 .. Len(r) /\ DOMAIN q = 1 .. Len(q) /\ DOMAIN b = 1 .. Len(b)
      /\ \A i \in 1 .. Len(q) : r[i] = q[i]
      /\ \A i \in Len(q) + 1 .. Len(q) + Len(b) : r[i] = b[i - Len(q)]
  BY <1>1 DEF b
<1>3. ASSUME NEW k \in Nat, Rest(q, k), NEW i \in DOMAIN r, i > k
      PROVE  r[i].kind \in {"app", "empty"}
  <2>1. CASE i <= Len(q)
    BY <1>2, <1>3, <2>1 DEF Rest
  <2>2. CASE i > Len(q)
    <3>1. i - Len(q) \in DOMAIN b /\ r[i] = b[i - Len(q)]
      BY <1>2, <2>2
    <3> QED
      BY <1>1, <3>1
  <2> QED
    BY <1>2, <2>1, <2>2
<1>4. \A k \in Nat : Rest(q, k) => Rest(r, k)
  BY <1>3 DEF Rest
<1>5. Len(r) \in Nat /\ Len(r) >= Len(q)
  BY <1>2
<1> QED
  BY <1>2, <1>4, <1>5

\* A packet of a connection that stands reaches the server in its turn.
LEMMA SentStage ==
    ASSUME TypeOK, NEW c \in Sockets, Stage(c), writeQueue[c] # << >>,
           Head(writeQueue[c]).kind # "empty",
           wire' = Append(wire, [sock |-> c, msg |-> Head(writeQueue[c])]),
           writeQueue' = [writeQueue EXCEPT ![c] = Tail(@)], authed' = authed
    PROVE  Stage(c)'
<1> DEFINE q == writeQueue[c]
           m == Head(q)
<1>1. /\ QueueTyped /\ q \in Seq(Messages) /\ m \in Messages /\ m = q[1]
      /\ Tail(q) \in Seq(Messages) /\ Len(Tail(q)) = Len(q) - 1 /\ Len(q) \in Nat
  BY QueueTypings, HeadTail DEF QueueTyped
<1>2. writeQueue'[c] = Tail(q)
  BY <1>1 DEF QueueTyped
<1>3. /\ Unseen(c) /\ m.kind = "auth" => OnlyAuth(c)'
      /\ m.kind = "ping" => Seen(c, "ping")'
      /\ Seen(c, "ping") => Seen(c, "ping")'
  BY <1>1, WireGrows DEF QueueTyped
<1>4. CASE Asking(c) /\ c \notin authed
  <2>1. Tail(q) = << >> /\ m.kind = "auth"
    BY <1>4 DEF Asking, AuthSession
  <2> QED
    BY <1>2, <1>3, <1>4, <2>1 DEF Asking, Asked, Stage
<1>5. CASE BothQueued(c) /\ c \in authed
  <2>1. Rest(Tail(q), 1) /\ m.kind = "auth" /\ Len(Tail(q)) >= 1 /\ Tail(q)[1] = q[2]
    BY <1>1, <1>5, RestTail DEF BothQueued
  <2> QED
    BY <1>2, <1>3, <1>5, <2>1 DEF BothQueued, PingQueued, Stage
<1>6. CASE PingQueued(c) /\ c \in authed
  <2>1. Rest(Tail(q), 0) /\ m.kind = "ping"
    BY <1>1, <1>6, RestTail DEF PingQueued
  <2> QED
    BY <1>2, <1>3, <1>6, <2>1 DEF PingSent, Stage
<1>7. CASE PingSent(c) /\ c \in authed
  <2>1. Rest(Tail(q), 0)
    BY <1>1, <1>7, RestTail DEF PingSent
  <2> QED
    BY <1>2, <1>3, <1>7, <2>1 DEF PingSent, Stage
<1> QED
  BY <1>4, <1>5, <1>6, <1>7 DEF Stage, Asked

\* Dropping an empty buffer changes nothing.
LEMMA EmptyStage ==
    ASSUME TypeOK, NEW c \in Sockets, Stage(c), writeQueue[c] # << >>,
           Head(writeQueue[c]).kind = "empty", wire' = wire,
           writeQueue' = [writeQueue EXCEPT ![c] = Tail(@)], authed' = authed
    PROVE  Stage(c)'
<1> DEFINE q == writeQueue[c]
<1>1. QueueTyped /\ q \in Seq(Messages) /\ Head(q) = q[1]
  BY QueueTypings DEF QueueTyped
<1>2. writeQueue'[c] = Tail(q)
  BY <1>1 DEF QueueTyped
<1>3. PingSent(c) /\ c \in authed
  BY <1>1 DEF Stage, Asking, Asked, BothQueued, PingQueued, AuthSession
<1>4. Rest(Tail(q), 0)
  BY <1>1, <1>3, RestTail DEF PingSent
<1> QED
  BY <1>2, <1>3, <1>4 DEF Stage, PingSent, Seen

LEMMA SendStage ==
    ASSUME TypeOK, SendQueued, Stage(clientSocket), clientSocket \notin closed
    PROVE  Stage(clientSocket)'
<1> USE DEF procVars, ioVars, timerVars, sockVars, queueVars
<1> DEFINE c == clientSocket
           q == writeQueue[c]
           n == Head(sockQueue[c])
<1>1. /\ QueueTyped /\ c \in Sockets /\ c \in authed /\ q \in Seq(Messages)
      /\ UNCHANGED <<clientSocket, authed, wire>>
  BY QueueTypings DEF SendQueued, TypeOK, SockTypes, QueueTyped
<1>2. n \in 1 .. MaxPackets
  BY <1>1, HeadTail DEF SendQueued, QueueTyped
<1>3. writeQueue'[c] = q \o Buffers(n)
  BY <1>1 DEF SendQueued, QueueTyped, IsOpen
<1>5. /\ Len(writeQueue'[c]) >= Len(q) /\ \A i \in 1 .. Len(q) : writeQueue'[c][i] = q[i]
      /\ \A k \in Nat : Rest(q, k) => Rest(writeQueue'[c], k)
      /\ Len(q) \in Nat /\ Len(writeQueue'[c]) \in Nat
  BY <1>1, <1>2, <1>3, RestBuffers
<1>6. CASE BothQueued(c)
  BY <1>1, <1>5, <1>6 DEF BothQueued, Unseen, Stage
<1>7. CASE PingQueued(c)
  BY <1>1, <1>5, <1>7 DEF PingQueued, OnlyAuth, Seen, Stage
<1>8. CASE PingSent(c)
  BY <1>1, <1>5, <1>8 DEF PingSent, Seen, Stage
<1> QED
  BY <1>1, <1>6, <1>7, <1>8 DEF Stage

LEMMA AuthStage ==
    ASSUME TypeOK, HandleAuthOk, Stage(handling), handling \notin closed
    PROVE  Stage(handling)'
<1> USE DEF procVars, timerVars, queueVars
<1> DEFINE c == handling
           q == writeQueue[c]
<1>1. /\ QueueTyped /\ c \in Sockets /\ c \notin authed /\ q \in Seq(Messages)
      /\ UNCHANGED <<handling, wire>> /\ c \in authed'
  BY QueueTypings DEF HandleAuthOk, Receives, TypeOK, IoTypes, QueueTyped
<1>2. writeQueue'[c] = Append(q, Ping)
  BY <1>1 DEF HandleAuthOk, QueueTyped, IsOpen
<1>3. CASE Asking(c)
  <2>1. /\ Len(writeQueue'[c]) = 2 /\ DOMAIN writeQueue'[c] = 1 .. 2
        /\ writeQueue'[c][1] = AuthSession /\ writeQueue'[c][2] = Ping
    BY <1>2, <1>3 DEF Asking
  <2>2. BothQueued(c)'
    BY <1>1, <1>3, <2>1 DEF Asking, BothQueued, Rest, Unseen, AuthSession, Ping
  <2> QED
    BY <1>1, <2>2 DEF Stage
<1>4. CASE Asked(c)
  <2>1. writeQueue'[c] = <<Ping>>
    BY <1>2, <1>4 DEF Asked
  <2>2. PingQueued(c)'
    BY <1>1, <1>4, <2>1 DEF Asked, PingQueued, Rest, OnlyAuth, Seen, Ping
  <2> QED
    BY <1>1, <2>2 DEF Stage
<1> QED
  BY <1>1, <1>3, <1>4 DEF Stage

-----------------------------------------------------------------------------
(***************************************************************************)
(* The invariant is kept                                                   *)
(***************************************************************************)
LEMMA ProtocolStages ==
    Protocol <=> \A c \in 1 .. created : c \notin closed \cup broken => Stage(c)
BY DEF Protocol, Stage

\* The steps that move no packet may close sockets, and drop the manager's socket
\* when some socket is closed.
LEMMA QuietWire ==
    ASSUME TypeOK, WireInv,
           UNCHANGED <<writeQueue, sockQueue, wire, mgrQueue, added, created, authed, broken>>,
           closed \subseteq closed',
           clientSocket' = clientSocket \/ (clientSocket' = NoSocket /\ closed' # {})
    PROVE  WireInv'
<1>1. WireApps' = WireApps
  BY DEF WireApps
<1>2. InOrder'
  <2>1. InOrder /\ NoSocket \notin Sockets
    BY LostParts DEF WireInv, Sockets, NoSocket
  <2> QED
    BY <1>1, <2>1 DEF InOrder
<1>3. Present'
  BY <1>1, LostParts DEF WireInv, Present
<1>4. Turns'
  BY DEF WireInv, Turns
<1>5. Protocol'
  <2> SUFFICES ASSUME NEW c \in 1 .. created, c \notin closed' \cup broken' PROVE Stage(c)'
    BY DEF Protocol, Stage
  <2>1. c \in Sockets
    BY BoundsAssumption DEF Sockets, TypeOK, SockTypes
  <2>2. Stage(c)
    BY ProtocolStages DEF WireInv
  <2> QED
    BY <2>1, <2>2, StageFrame DEF Unseen, OnlyAuth, Seen
<1> QED
  BY <1>2, <1>3, <1>4, <1>5 DEF WireInv, NothingLostWhileConnected, Present

\* HandleQueue() on a socket that was constructed.
LEMMA HandleQueueWire ==
    ASSUME TypeOK, ControlInv, WireInv, NEW c \in Sockets, c <= created,
           NEW wait, NEW again, NEW done, HandleQueue(c, wait, again, done),
           UNCHANGED <<sockVars, sockQueue, queueVars>>
    PROVE  WireInv'
<1> USE DEF sockVars, queueVars
<1> DEFINE m == Head(writeQueue[c])
<1>1. UNCHANGED <<sockQueue, mgrQueue, added, created, authed, closed, clientSocket>>
  OBVIOUS
<1>2. CASE UNCHANGED <<writeQueue, wire, broken>>
  BY <1>1, <1>2, QuietWire
<1>3. CASE /\ writeQueue[c] # << >> /\ writeQueue' = [writeQueue EXCEPT ![c] = Tail(@)]
           /\ \/ m.kind = "empty" /\ wire' = wire /\ broken' = broken
              \/ /\ m.kind # "empty" /\ c \notin closed \cup broken /\ broken' = broken
                 /\ wire' = Append(wire, [sock |-> c, msg |-> m])
              \/ wire' = wire /\ broken' = broken \cup {c}
  <2>1. QueueTyped /\ m \in Messages
    BY <1>3, QueueTypings, HeadTail DEF QueueTyped
  <2>2. c \notin closed => c = clientSocket /\ c # NoSocket
    BY BoundsAssumption DEF ControlInv, OnlyCurrentIsOpen, IsOpen, Sockets, NoSocket, TypeOK, SockTypes
  <2>3. InOrder' /\ Present'
    BY <1>1, <1>3, <2>2, PopOrder, LostParts DEF WireInv
  <2>4. /\ writeQueue'[c] = Tail(writeQueue[c])
        /\ \A d \in Sockets : d # c => writeQueue'[d] = writeQueue[d]
    BY <1>3, <2>1 DEF QueueTyped
  <2>5. Turns'
    <3>1. \A d \in Sockets : d > created => writeQueue'[d] = << >> /\ sockQueue[d] = << >>
      BY <2>4 DEF WireInv, Turns, Sockets, TypeOK, SockTypes
    <3>2. \A i \in DOMAIN wire' : wire'[i].sock <= created
      <4>1. CASE wire' = wire
        BY <4>1 DEF WireInv, Turns
      <4>2. CASE wire' = Append(wire, [sock |-> c, msg |-> m])
        <5>1. \A i \in DOMAIN wire' : wire'[i].sock = c \/ (i \in DOMAIN wire /\ wire'[i] = wire[i])
          BY <2>1, <4>2, WireGrows DEF QueueTyped
        <5> QED
          BY <5>1 DEF WireInv, Turns
      <4> QED
        BY <1>3, <4>1, <4>2
    <3> QED
      BY <1>1, <3>1, <3>2 DEF WireInv, Turns
  <2>6. Protocol'
    <3> SUFFICES ASSUME NEW d \in 1 .. created, d \notin closed' \cup broken' PROVE Stage(d)'
      BY <1>1 DEF Protocol, Stage
    <3>1. d \in Sockets /\ d \notin closed \cup broken
      BY <1>1, <1>3, BoundsAssumption DEF Sockets, TypeOK, SockTypes
    <3>2. Stage(d)
      BY <3>1, ProtocolStages DEF WireInv
    <3>3. CASE d # c
      <4>1. /\ Unseen(d) => Unseen(d)'
            /\ OnlyAuth(d) => OnlyAuth(d)'
            /\ Seen(d, "ping") => Seen(d, "ping")'
        <5>1. CASE wire' = wire
          BY <5>1 DEF Unseen, OnlyAuth, Seen
        <5>2. CASE wire' = Append(wire, [sock |-> c, msg |-> m])
          BY <2>1, <3>1, <3>3, <5>2, WireGrows DEF QueueTyped
        <5> QED
          BY <1>3, <5>1, <5>2
      <4> QED
        BY <1>1, <2>4, <3>1, <3>2, <3>3, <4>1, StageFrame
    <3>4. CASE d = c /\ m.kind = "empty" /\ wire' = wire
      BY <1>1, <1>3, <3>2, <3>4, EmptyStage
    <3>5. CASE d = c /\ m.kind # "empty" /\ wire' = Append(wire, [sock |-> c, msg |-> m])
      BY <1>1, <1>3, <3>2, <3>5, SentStage
    <3> QED
      BY <1>3, <3>3, <3>4, <3>5
  <2> QED
    BY <2>3, <2>5, <2>6 DEF WireInv, NothingLostWhileConnected, Present
<1> QED
  BY <1>2, <1>3 DEF HandleQueue

\* A new connection: nothing of it is queued or on the wire but its auth session.
LEMMA ConnectWire ==
    ASSUME TypeOK, ControlInv, WireInv, ConnectSucceeds PROVE WireInv'
<1> USE DEF procVars, queueVars
<1> DEFINE c == created + 1
<1>1. /\ QueueTyped /\ c \in Sockets /\ created \in Nat /\ created' = c /\ clientSocket' = c
      /\ UNCHANGED <<authed, broken, sockQueue, wire, mgrQueue, added>>
      /\ WireApps' = WireApps
  BY QueueTypings, BoundsAssumption DEF ConnectSucceeds, Sockets, TypeOK, SockTypes, WireApps
<1>2. clientSocket = NoSocket
  BY Outstanding DEF ControlInv, OneConnector, ConnectsOutstanding, ConnectSucceeds
<1>3. writeQueue[c] = << >> /\ sockQueue[c] = << >> /\ Unseen(c)
  BY <1>1 DEF WireInv, Turns, Unseen, QueueTyped
<1>4. c \notin authed
  BY <1>1 DEF ControlInv, Constructed
<1>5. /\ \/ c \in closed' /\ writeQueue' = writeQueue
         \/ c \notin closed' /\ writeQueue' = [writeQueue EXCEPT ![c] = <<AuthSession>>]
      /\ closed \subseteq closed'
  <2>1. writeQueue' = writeQueue \/ writeQueue' = [writeQueue EXCEPT ![c] = Append(@, AuthSession)]
    BY DEF ConnectSucceeds, Start
  <2>2. [writeQueue EXCEPT ![c] = Append(@, AuthSession)] = [writeQueue EXCEPT ![c] = <<AuthSession>>]
    BY <1>1, <1>3 DEF QueueTyped
  <2> QED
    BY <2>2 DEF ConnectSucceeds, Construct, Start, ClosedBy
<1>6. /\ Apps(writeQueue'[c]) = {} /\ AppsIncrease(writeQueue'[c])
      /\ Packets(sockQueue[c]) = {} /\ Increasing(sockQueue[c])
      /\ \A d \in Sockets : d # c => writeQueue'[d] = writeQueue[d]
  <2>1. writeQueue'[c] = << >> \/ writeQueue'[c] = <<AuthSession>>
    BY <1>1, <1>3, <1>5 DEF QueueTyped
  <2>2. \A d \in Sockets : d # c => writeQueue'[d] = writeQueue[d]
    BY <1>1, <1>5 DEF QueueTyped
  <2>3. Apps(writeQueue'[c]) = {} /\ AppsIncrease(writeQueue'[c])
    BY <2>1 DEF Apps, AppsIncrease, AuthSession
  <2> QED
    BY <1>3, <2>2, <2>3 DEF Packets, Increasing
<1> HIDE DEF c
<1>7. InOrder'
  <2>1. InOrder
    BY LostParts DEF WireInv
  <2>2. ASSUME NEW d \in Sockets
        PROVE  /\ Increasing(sockQueue'[d]) /\ AppsIncrease(writeQueue'[d])
               /\ Packets(sockQueue'[d]) \cup Apps(writeQueue'[d]) \subseteq 1 .. added'
               /\ Below(Apps(writeQueue'[d]), Packets(sockQueue'[d]))
               /\ Below(Apps(writeQueue'[d]) \cup Packets(sockQueue'[d]), Packets(mgrQueue'))
               /\ d = clientSocket' =>
                     Below(WireApps', Apps(writeQueue'[d]) \cup Packets(sockQueue'[d]))
    <3>1. CASE d = c
      BY <1>1, <1>6, <3>1 DEF Below
    <3>2. CASE d # c
      BY <1>1, <1>6, <2>1, <3>2 DEF InOrder
    <3> QED
      BY <3>1, <3>2
  <2> QED
    BY <1>1, <2>1, <2>2 DEF InOrder
<1>8. Present'
  <2>1. Present
    BY LostParts DEF WireInv
  <2> QED
    BY <1>1, <1>2, <1>5, <2>1 DEF Present
<1>9. Turns'
  <2>1. \A d \in Sockets : d > c => d # c /\ d > created
    BY <1>1 DEF c, Sockets
  <2>2. \A i \in DOMAIN wire : wire[i].sock <= c
    <3>1. \A i \in DOMAIN wire : wire[i].sock \in Nat
      <4>0. wire \in Seq([sock : Sockets, msg : Messages])
        BY <1>1 DEF QueueTyped
      <4>1. \A i \in DOMAIN wire : wire[i] \in [sock : Sockets, msg : Messages]
        BY ONLY <4>0, Elements
      <4> QED
        BY <4>1, BoundsAssumption DEF Sockets
    <3> QED
      BY <1>1, <3>1 DEF WireInv, Turns, c
  <2> QED
    BY <1>1, <1>6, <2>1, <2>2 DEF WireInv, Turns
<1>10. Protocol'
  <2> SUFFICES ASSUME NEW d \in 1 .. c, d \notin closed' \cup broken' PROVE Stage(d)'
    BY <1>1 DEF Protocol, Stage
  <2>1. CASE d = c
    <3>1. writeQueue'[c] = <<AuthSession>>
      BY <1>1, <1>5, <2>1 DEF QueueTyped
    <3> QED
      BY <1>1, <1>3, <1>4, <2>1, <3>1 DEF Stage, Asking, Unseen
  <2>2. CASE d # c
    <3>1. d \in 1 .. created /\ d \in Sockets /\ d \notin closed \cup broken
      BY <1>1, <1>5, <2>2, BoundsAssumption DEF c, Sockets, TypeOK, SockTypes
    <3>2. Stage(d)
      BY <3>1, ProtocolStages DEF WireInv
    <3> QED
      BY <1>1, <1>6, <2>2, <3>1, <3>2, StageFrame DEF Unseen, OnlyAuth, Seen
  <2> QED
    BY <2>1, <2>2
<1> QED
  BY <1>7, <1>8, <1>9, <1>10 DEF WireInv, NothingLostWhileConnected, Present

LEMMA WireNext == TypeOK /\ ControlInv /\ WireInv /\ [Next]_vars => WireInv'
<1> SUFFICES ASSUME TypeOK, ControlInv, WireInv, [Next]_vars PROVE WireInv'
  OBVIOUS
<1> USE DEF procVars, ioVars, timerVars, sockVars, sendVars, queueVars
<1>1. CASE AddPacketToQueue
  <2>1. InOrder' /\ Present'
    BY <1>1, AddOrder, LostParts DEF WireInv
  <2>2. Turns'
    BY <1>1 DEF AddPacketToQueue, WireInv, Turns
  <2>3. Protocol'
    <3>1. UNCHANGED <<writeQueue, wire, created, closed, broken, authed>>
      BY <1>1 DEF AddPacketToQueue
    <3> QED
      BY <3>1 DEF WireInv, Protocol, BothQueued, PingQueued, PingSent, Asking, Asked, Unseen,
         OnlyAuth, Seen
  <2> QED
    BY <2>1, <2>2, <2>3 DEF WireInv, NothingLostWhileConnected, Present
<1>2. CASE DrainQueue
  <2>0. clientSocket \in 1 .. created /\ clientSocket \in Sockets
    BY <1>2 DEF DrainQueue, ControlInv, Constructed, TypeOK, SockTypes, Sockets
  <2>1. InOrder' /\ Present'
    BY <1>2, DrainOrder, LostParts DEF WireInv
  <2>2. Turns'
    <3>1. \A c \in Sockets : c > created => sockQueue'[c] = sockQueue[c]
      <4>1. \A c \in Sockets : c > created => c # clientSocket
        BY <2>0 DEF Sockets, TypeOK, SockTypes
      <4>2. sockQueue \in [Sockets -> Seq(1 .. MaxPackets)]
        BY DEF TypeOK, SendTypes
      <4> QED
        BY <1>2, <4>1, <4>2 DEF DrainQueue
    <3> QED
      BY <1>2, <3>1 DEF DrainQueue, WireInv, Turns
  <2>3. Protocol'
    <3>1. UNCHANGED <<writeQueue, wire, created, closed, broken, authed>>
      BY <1>2 DEF DrainQueue
    <3> QED
      BY <3>1 DEF WireInv, Protocol, BothQueued, PingQueued, PingSent, Asking, Asked, Unseen,
         OnlyAuth, Seen
  <2> QED
    BY <2>1, <2>2, <2>3 DEF WireInv, NothingLostWhileConnected, Present
<1>3. CASE SendQueued
  <2> DEFINE c == clientSocket
  <2>0. c \in 1 .. created /\ c \in Sockets
    BY <1>3 DEF SendQueued, ControlInv, Constructed, TypeOK, SockTypes, Sockets
  <2>1. InOrder' /\ Present'
    BY <1>3, SendOrder, LostParts DEF WireInv
  <2>2. /\ UNCHANGED <<clientSocket, wire, created, closed, broken, authed>>
        /\ \A d \in Sockets : d # c => sockQueue'[d] = sockQueue[d] /\ writeQueue'[d] = writeQueue[d]
        /\ c \in closed => writeQueue' = writeQueue
    BY <1>3 DEF SendQueued, TypeOK, SendTypes, IsOpen
  <2>3. Turns'
    BY <2>0, <2>2 DEF WireInv, Turns, Sockets, TypeOK, SockTypes
  <2>4. Protocol'
    <3> SUFFICES ASSUME NEW d \in 1 .. created, d \notin closed \cup broken PROVE Stage(d)'
      BY <2>2 DEF Protocol, Stage
    <3>1. Stage(d) /\ d \in Sockets
      BY ProtocolStages, BoundsAssumption DEF WireInv, Sockets, TypeOK, SockTypes
    <3>2. CASE d = c
      BY <1>3, <2>2, <3>1, <3>2, SendStage
    <3>3. CASE d # c
      BY <2>2, <3>1, <3>3, StageFrame DEF Unseen, OnlyAuth, Seen
    <3> QED
      BY <3>2, <3>3
  <2> QED
    BY <2>1, <2>3, <2>4 DEF WireInv, NothingLostWhileConnected, Present
<1>4. CASE HandleAuthOk
  <2> DEFINE c == handling
  <2>0. c \in 1 .. created /\ c \in Sockets
    BY <1>4 DEF HandleAuthOk, Receives, ControlInv, Constructed, TypeOK, IoTypes, SockTypes, Sockets
  <2>1. /\ UNCHANGED <<clientSocket, wire, created, closed, broken, sockQueue, mgrQueue, added>>
        /\ authed' = authed \cup {c}
        /\ \A d \in Sockets : d # c => writeQueue'[d] = writeQueue[d]
        /\ c \in closed => writeQueue' = writeQueue
        /\ c \notin closed => writeQueue'[c] = Append(writeQueue[c], Ping)
    BY <1>4, <2>0 DEF HandleAuthOk, TypeOK, SendTypes, IsOpen
  <2>2. QueueTyped /\ Ping \in Messages /\ Number(Ping) = {}
    BY QueueTypings, MessageTypes DEF Number, Ping
  <2>3. \A d \in Sockets : /\ Apps(writeQueue'[d]) = Apps(writeQueue[d])
                           /\ AppsIncrease(writeQueue[d]) => AppsIncrease(writeQueue'[d])
    <3>1. c \notin closed => /\ Apps(writeQueue'[c]) = Apps(writeQueue[c])
                             /\ AppsIncrease(writeQueue[c]) => AppsIncrease(writeQueue'[c])
      BY <2>0, <2>1, <2>2, AppsAppend DEF QueueTyped, Below
    <3> QED
      BY <2>1, <3>1
  <2>4. WireApps' = WireApps
    BY <2>1 DEF WireApps
  <2>5. InOrder'
    BY <2>1, <2>3, <2>4, LostParts DEF WireInv, InOrder
  <2>6. Present'
    <3>1. clientSocket # NoSocket => clientSocket \in Sockets
      BY DEF TypeOK, SockTypes
    <3> QED
      BY <2>1, <2>3, <2>4, <3>1, LostParts DEF WireInv, Present
  <2>7. Turns'
    BY <2>0, <2>1 DEF WireInv, Turns, Sockets, TypeOK, SockTypes
  <2>8. Protocol'
    <3> SUFFICES ASSUME NEW d \in 1 .. created, d \notin closed \cup broken PROVE Stage(d)'
      BY <2>1 DEF Protocol, Stage
    <3>1. Stage(d) /\ d \in Sockets
      BY ProtocolStages, BoundsAssumption DEF WireInv, Sockets, TypeOK, SockTypes
    <3>2. CASE d = c
      <4>1. UNCHANGED handling
        BY <1>4 DEF HandleAuthOk
      <4>2. Stage(handling)'
        BY <1>4, <3>1, <3>2, AuthStage
      <4> QED
        BY <3>2, <4>1, <4>2 DEF Stage, BothQueued, PingQueued, PingSent, Asking, Asked, Unseen,
           OnlyAuth, Seen
    <3>3. CASE d # c
      BY <2>1, <3>1, <3>3, StageFrame DEF Unseen, OnlyAuth, Seen
    <3> QED
      BY <3>2, <3>3
  <2> QED
    BY <2>5, <2>6, <2>7, <2>8 DEF WireInv, NothingLostWhileConnected, Present
<1>5. CASE Flush
  <2>1. clientSocket \in Sockets /\ clientSocket <= created
    BY <1>5 DEF Flush, ControlInv, Constructed, TypeOK, SockTypes
  <2> QED
    BY <1>5, <2>1, HandleQueueWire DEF Flush
<1>6. ASSUME NEW c \in Sockets, WriteHandlerWrapper(c) PROVE WireInv'
  <2>1. c <= created
    BY <1>6 DEF WriteHandlerWrapper, ControlInv, Constructed
  <2> QED
    BY <1>6, <2>1, HandleQueueWire DEF WriteHandlerWrapper
<1>7. CASE ConnectSucceeds
  BY <1>7, ConnectWire
<1>8. CASE Initialize \/ TimerExpires \/ UpdateHandler \/ ConnectLambda \/ Terminated
           \/ ReadHandlerEnds \/ HandlePong \/ ReadThrows \/ UNCHANGED vars
  BY <1>8, QuietWire DEF Initialize, TimerExpires, UpdateHandler, UpdateStopped, Update,
     ConnectLambda, Terminated, ReadHandlerEnds, HandlePong, ReadThrows, vars
<1>9. CASE SocketUpdate
  BY <1>9, QuietWire DEF SocketUpdate, UpdateReconnects
<1>10. CASE ConnectFails \/ HandleAuthDenied \/ MainReturns
  <2>1. closed \subseteq ClosedBy /\ (clientSocket # NoSocket => ClosedBy # {})
    BY DEF ClosedBy
  <2>2. CASE UNCHANGED <<clientSocket, closed>>
    BY <1>10, <2>2, QuietWire DEF ConnectFails, HandleAuthDenied, MainReturns
  <2>3. CASE Disconnect /\ closed' = ClosedBy
    BY <1>10, <2>1, <2>3, QuietWire DEF ConnectFails, HandleAuthDenied, MainReturns, Disconnect
  <2> QED
    BY <1>10, <2>2, <2>3 DEF ConnectFails, HandleAuthDenied, MainReturns
<1>11. CASE ReadRejected \/ ReadOutOfTurn
  BY <1>11, QuietWire DEF ReadRejected, ReadOutOfTurn, Disconnect, ClosedBy
<1>12. ASSUME NEW c \in Sockets, ReadError(c) \/ ReadData(c) PROVE WireInv'
  BY <1>12, QuietWire DEF ReadError, ReadData
<1> QED
  BY <1>1, <1>2, <1>3, <1>4, <1>5, <1>6, <1>7, <1>8, <1>9, <1>10, <1>11, <1>12
  DEF Next, IoThread, UpdateLoops, ConnectLoop, ReadLoop

LEMMA SpecWire == Spec => [](TypeOK /\ ControlInv /\ WireInv)
<1>1. Init => WireInv
  BY WireInit
<1>2. TypeOK /\ ControlInv /\ WireInv /\ [Next]_vars => WireInv'
  BY WireNext
<1> QED
  BY <1>1, <1>2, SpecControl, PTL DEF Spec

\* No packet overtakes another, none is in two places, and none is lost before a
\* connection is closed or fails, for every number of packets, connections and producers.
THEOREM PacketsCorrect == Spec => []NothingLostWhileConnected
<1>1. WireInv => NothingLostWhileConnected
  BY DEF WireInv
<1> QED
  BY <1>1, SpecWire, PTL

-----------------------------------------------------------------------------
(***************************************************************************)
(* The client implements ServerView                                        *)
(***************************************************************************)

\* What HandleQueue() puts on the wire may follow what is there.
LEMMA DeliverStep ==
    ASSUME TypeOK, ControlInv, WireInv, NEW c \in Sockets, c <= created,
           c \notin closed \cup broken, writeQueue[c] # << >>,
           Head(writeQueue[c]).kind # "empty",
           wire' = Append(wire, [sock |-> c, msg |-> Head(writeQueue[c])]), added' = added
    PROVE  View!Deliver
<1> DEFINE q == writeQueue[c]
           m == Head(q)
           e == [sock |-> c, msg |-> m]
<1>1. QueueTyped /\ m \in Messages /\ m = q[1] /\ q \in Seq(Messages) /\ 1 \in DOMAIN q
  BY QueueTypings, HeadTail DEF QueueTyped
<1>2. e \in [sock : Sockets, msg : Messages] /\ e.sock = c /\ e.msg = m
  BY <1>1
<1>3. c = clientSocket /\ c = created /\ c \in 1 .. created
  BY BoundsAssumption DEF ControlInv, OnlyCurrentIsOpen, IsOpen, Sockets, NoSocket, TypeOK, SockTypes,
     WireInv, Turns
<1>4. \A i \in DOMAIN wire : wire[i].sock <= c
  BY <1>3 DEF WireInv, Turns
<1>5. Stage(c)
  BY <1>3, ProtocolStages DEF WireInv
<1>6. \/ m.kind = "auth" /\ Unseen(c)
      \/ m.kind = "ping" /\ OnlyAuth(c)
      \/ m.kind = "app" /\ Seen(c, "ping")
  BY <1>1, <1>5 DEF Stage, Asking, Asked, BothQueued, PingQueued, PingSent, Rest, AuthSession
<1>7. m.kind = "app" => /\ m.n \in 1 .. added
                        /\ \A i \in DOMAIN wire : wire[i].msg.kind = "app" => wire[i].msg.n < m.n
  <2> SUFFICES ASSUME m.kind = "app"
               PROVE  /\ m.n \in 1 .. added
                      /\ \A i \in DOMAIN wire : wire[i].msg.kind = "app" => wire[i].msg.n < m.n
    OBVIOUS
  <2>1. m.n \in Apps(q)
    BY <1>1 DEF Apps
  <2>2. Apps(q) \subseteq 1 .. added /\ Below(WireApps, Apps(q))
    BY <1>3, LostParts DEF WireInv, InOrder, Below
  <2> QED
    BY <2>1, <2>2 DEF Below, WireApps
<1> HIDE DEF m, e
<1>8. View!MayFollow(wire, e, added)
  BY <1>2, <1>4, <1>6, <1>7 DEF View!MayFollow, View!From, View!Kind, Unseen, OnlyAuth, Seen
<1> QED
  BY <1>2, <1>8 DEF View!Deliver, e, m

\* The client implements ServerView: over all connections the server sees, per
\* connection, the auth session, then the ping, then application packets, and these in
\* the order they were added, none twice, connections one after the other.
THEOREM ImplementsServerView == Spec => ServerViewSpec
<1>1. Init => View!Init
  BY DEF Init, View!Init
<1>2. TypeOK /\ ControlInv /\ WireInv /\ [Next]_vars => [View!Next]_<<added, wire>>
  <2> SUFFICES ASSUME TypeOK, ControlInv, WireInv, [Next]_vars
               PROVE  View!Next \/ UNCHANGED <<added, wire>>
    OBVIOUS
  <2> USE DEF procVars, ioVars, timerVars, sockVars, sendVars, queueVars
  <2>1. CASE AddPacketToQueue
    BY <2>1 DEF AddPacketToQueue, View!Next, View!Add
  <2>2. ASSUME NEW c \in Sockets, c <= created, NEW wait, NEW again, NEW done,
               HandleQueue(c, wait, again, done), added' = added
        PROVE  View!Next \/ UNCHANGED <<added, wire>>
    <3>1. CASE wire' = wire
      BY <2>2, <3>1
    <3>2. CASE wire' # wire
      BY <2>2, <3>2, DeliverStep DEF HandleQueue, View!Next
    <3> QED
      BY <3>1, <3>2
  <2>3. CASE Flush
    <3>1. clientSocket \in Sockets /\ clientSocket <= created
      BY <2>3 DEF Flush, ControlInv, Constructed, TypeOK, SockTypes
    <3> QED
      BY <2>2, <2>3, <3>1 DEF Flush
  <2>4. ASSUME NEW c \in Sockets, WriteHandlerWrapper(c)
        PROVE  View!Next \/ UNCHANGED <<added, wire>>
    <3>1. c <= created
      BY <2>4 DEF WriteHandlerWrapper, ControlInv, Constructed
    <3> QED
      BY <2>2, <2>4, <3>1 DEF WriteHandlerWrapper
  <2>5. CASE Initialize \/ TimerExpires \/ UpdateHandler \/ ConnectLambda \/ ConnectLoop
             \/ MainReturns \/ Terminated \/ UNCHANGED vars
    BY <2>5 DEF Initialize, TimerExpires, UpdateHandler, UpdateStopped, Update, ConnectLambda,
       ConnectLoop, ConnectSucceeds, ConnectFails, MainReturns, Terminated, vars
  <2>6. CASE SendQueued \/ SocketUpdate \/ DrainQueue
    BY <2>6 DEF SendQueued, SocketUpdate, DrainQueue
  <2>7. CASE ReadLoop
    BY <2>7 DEF ReadLoop, ReadHandlerEnds, ReadRejected, ReadOutOfTurn, HandleAuthOk,
       HandleAuthDenied, HandlePong, ReadThrows
  <2>8. ASSUME NEW c \in Sockets, ReadError(c) \/ ReadData(c)
        PROVE  UNCHANGED <<added, wire>>
    BY <2>8 DEF ReadError, ReadData
  <2> QED
    BY <2>1, <2>3, <2>4, <2>5, <2>6, <2>7, <2>8 DEF Next, IoThread, UpdateLoops
<1> QED
  BY <1>1, <1>2, SpecWire, PTL DEF Spec, ServerViewSpec, View!Spec

-----------------------------------------------------------------------------
\* Initialize() creates the timer exactly when Discord is enabled.
TimerIsEnabled == process # "init" => timer = conf.enabled

LEMMA EndNext ==
    ASSUME \A f \in Configs : f.enabled
    PROVE  TypeOK /\ TimerIsEnabled /\ EndsOrderly /\ [Next]_vars
              => TimerIsEnabled' /\ EndsOrderly'
<1> SUFFICES ASSUME TypeOK, TimerIsEnabled, EndsOrderly, [Next]_vars
             PROVE  TimerIsEnabled' /\ EndsOrderly'
  OBVIOUS
<1> USE DEF procVars, ioVars, timerVars, sockVars, sendVars, queueVars
<1>1. CASE Initialize
  BY <1>1 DEF Initialize, TimerIsEnabled, EndsOrderly
<1>2. CASE MainReturns
  <2>1. timer = TRUE
    BY <1>2, ConfigsAssumption DEF MainReturns, Idle, TimerIsEnabled, TypeOK, ProcTypes, Config
  <2> QED
    BY <1>2, <2>1 DEF MainReturns, Idle, TimerIsEnabled, EndsOrderly
<1>3. CASE ReadThrows
  BY <1>3 DEF ReadThrows, Receives, TimerIsEnabled, EndsOrderly
<1>4. CASE UNCHANGED <<conf, process, timer>>
  BY <1>4 DEF TimerIsEnabled, EndsOrderly
<1>5. CASE AddPacketToQueue \/ TimerExpires \/ UpdateHandler \/ UpdateLoops \/ ConnectLambda
           \/ ConnectLoop \/ Terminated \/ UNCHANGED vars
  BY <1>4, <1>5 DEF AddPacketToQueue, TimerExpires, UpdateHandler, UpdateStopped, Update,
     UpdateLoops, SendQueued, SocketUpdate, Flush, DrainQueue, ConnectLambda, ConnectLoop,
     ConnectSucceeds, ConnectFails, Terminated, vars
<1>6. CASE \/ ReadHandlerEnds \/ ReadRejected \/ ReadOutOfTurn
           \/ HandleAuthOk \/ HandleAuthDenied \/ HandlePong
  BY <1>4, <1>6 DEF ReadHandlerEnds, ReadRejected, ReadOutOfTurn, HandleAuthOk,
     HandleAuthDenied, HandlePong
<1>7. ASSUME NEW c \in Sockets, ReadError(c) \/ ReadData(c) \/ WriteHandlerWrapper(c)
      PROVE  TimerIsEnabled' /\ EndsOrderly'
  BY <1>4, <1>7 DEF ReadError, ReadData, WriteHandlerWrapper
<1> QED
  BY <1>1, <1>2, <1>3, <1>5, <1>6, <1>7 DEF Next, IoThread, ReadLoop

\* When Discord is enabled, the process ends through main(), or by a malformed payload
\* of the server.  (With Discord disabled it dereferences the missing timer.)
THEOREM EnabledEndsOrderly ==
    ASSUME \A f \in Configs : f.enabled
    PROVE  Spec => []EndsOrderly
<1>1. Init => TimerIsEnabled /\ EndsOrderly
  BY DEF Init, TimerIsEnabled, EndsOrderly
<1>2. TypeOK /\ TimerIsEnabled /\ EndsOrderly /\ [Next]_vars
         => TimerIsEnabled' /\ EndsOrderly'
  BY EndNext
<1> QED
  BY <1>1, <1>2, TypeCorrect, PTL DEF Spec
=============================================================================
