--------------------------- MODULE ClientSocketMgr ---------------------------
(***************************************************************************)
(* The Discord client as one machine: ClientSocketMgr, the ClientSocket    *)
(* objects it creates one after the other, the write path of their base    *)
(* class Socket, the boost asio io_context whose single thread runs every  *)
(* handler, and main(), which starts and ends it.                          *)
(*                                                                         *)
(* Who runs.  One io thread executes handlers one at a time; pc says which *)
(* loop it is inside, so that other threads interleave with the loops.     *)
(* Producers on other threads call AddPacketToQueue at any time.  The      *)
(* server and the kernel answer in any way a TCP peer and its sockets can. *)
(*                                                                         *)
(* Sockets are numbered 1, 2, ... in the order they are created; a Boolean *)
(* member of ClientSocket is the set of sockets for which it is true.  The *)
(* payload of a packet is abstracted to its number in the order of the     *)
(* calls of AddPacketToQueue.                                              *)
(***************************************************************************)
EXTENDS Integers, Sequences

CONSTANTS
    Configs,        \* the configurations main() may be started with
    MaxConnections, \* bound: connections the server accepts
    MaxPackets,     \* bound: calls of AddPacketToQueue
    MaxChunk,       \* bound: packets completed by one async_read_some
    LargePackets,   \* the packets that do not fit a 4096-byte MessageBuffer
    ServerPackets   \* the packets the server may send

\* enabled: Discord.Server.Enable; resolves: Discord.Server.Host has an IPv4
\* address; credentials: server id, account name and key are all non-empty.
Config == [enabled : BOOLEAN, resolves : BOOLEAN, credentials : BOOLEAN]

ASSUME ConfigsAssumption == Configs \subseteq Config
ASSUME BoundsAssumption ==
    MaxConnections \in Nat /\ MaxPackets \in Nat /\ MaxChunk \in Nat

Sockets  == 1 .. MaxConnections
NoSocket == 0

\* The completion handlers that ever wait on _updateTimer: a call of Update(),
\* the lambda of ConnectToServer(1) and the lambda of ConnectToServer(3).
Handlers    == {"update", "connect", "reconnect"}
Connectors  == {"connect", "reconnect"}
NoHandler   == "none"
ReconnectCount == [h \in Connectors |-> IF h = "connect" THEN 1 ELSE 3]

\* What a MessageBuffer of the write queue holds: the auth session packet, the
\* ping, the n-th application packet, or nothing (see SendPacket).
Messages == [kind : {"auth", "ping", "app", "empty"}, n : 0 .. MaxPackets]
AuthSession == [kind |-> "auth",  n |-> 0]
Ping        == [kind |-> "ping",  n |-> 0]
EmptyBuffer == [kind |-> "empty", n |-> 0]
App(n)      == [kind |-> "app",   n |-> n]

\* What a server can put on the stream, as the read handlers tell it apart.  A
\* malformed payload is shorter than what its handler extracts, or holds a code
\* that is no DiscordAuthResponseCodes.
AuthResponses == {"authOk", "authDenied", "authMalformed"}
Pongs         == {"pong", "pongMalformed"}
Rejected      == {"badHeader", "otherOpcode"}

VARIABLES
    conf,         \* the configuration, fixed at the start
    process,      \* "init", "running", "halted", "threw", "nullDeref"
    pc,           \* where the io thread is; "run" between two handlers
    tries,        \* connect attempts left in the lambda of ConnectToServer
    chunk,        \* complete packets left in the read buffer of a read handler
    handling,     \* the socket whose read handler runs
    stopped,      \* _stopped
    timer,        \* TRUE once _updateTimer points to a timer
    armed,        \* the handler that waits on _updateTimer
    ready,        \* timer handlers in the io_context's queue, by kind
    clientSocket, \* _clientSocket
    created,      \* number of ClientSocket objects constructed
    closed,       \* sockets with _closed
    authed,       \* sockets with _authed
    reading,      \* sockets with an async_read_some outstanding
    writing,      \* sockets with _isWritingAsync (an async wait to write)
    broken,       \* sockets whose connection failed while writing
    mgrQueue,     \* ClientSocketMgr::_bufferQueue
    sockQueue,    \* ClientSocket::_bufferQueue of each socket
    writeQueue,   \* Socket::_writeQueue of each socket
    added,        \* number of calls of AddPacketToQueue
    wire          \* history: what the kernel accepted, in order, with its socket

procVars  == <<conf, process>>
ioVars    == <<pc, tries, chunk, handling>>
timerVars == <<stopped, timer, armed, ready>>
sockVars  == <<clientSocket, created, closed, authed, reading>>
sendVars  == <<writing, broken, sockQueue, writeQueue, wire>>
queueVars == <<mgrQueue, added>>
vars      == <<procVars, ioVars, timerVars, sockVars, sendVars, queueVars>>

ProcTypes ==
    /\ conf \in Configs
    /\ process \in {"init", "running", "halted", "threw", "nullDeref"}
IoTypes ==
    /\ pc \in {"run", "connect", "read", "send", "flush", "drain"}
    /\ tries \in 0 .. 3 /\ chunk \in 0 .. MaxChunk
    /\ handling \in Sockets \cup {NoSocket}
    /\ pc = "read" => handling \in Sockets
TimerTypes ==
    /\ stopped \in BOOLEAN /\ timer \in BOOLEAN
    /\ armed \in Handlers \cup {NoHandler}
    /\ ready \in [Handlers -> Nat]
SockTypes ==
    /\ clientSocket \in Sockets \cup {NoSocket}
    /\ pc \in {"send", "flush", "drain"} => clientSocket \in Sockets
    /\ created \in 0 .. MaxConnections
    /\ closed \subseteq Sockets /\ authed \subseteq Sockets /\ reading \subseteq Sockets
SendTypes ==
    /\ writing \subseteq Sockets /\ broken \subseteq Sockets
    /\ sockQueue \in [Sockets -> Seq(1 .. MaxPackets)]
    /\ writeQueue \in [Sockets -> Seq(Messages)]
    /\ wire \in Seq([sock : Sockets, msg : Messages])
QueueTypes ==
    /\ mgrQueue \in Seq(1 .. MaxPackets)
    /\ added \in 0 .. MaxPackets

TypeOK ==
    ProcTypes /\ IoTypes /\ TimerTypes /\ SockTypes /\ SendTypes /\ QueueTypes

Init ==
    /\ conf \in Configs
    /\ process = "init" /\ pc = "run" /\ tries = 0 /\ chunk = 0
    /\ handling = NoSocket
    /\ stopped = FALSE /\ timer = FALSE /\ armed = NoHandler
    /\ ready = [h \in Handlers |-> 0]
    /\ clientSocket = NoSocket /\ created = 0
    /\ closed = {} /\ authed = {} /\ reading = {} /\ writing = {} /\ broken = {}
    /\ mgrQueue = << >> /\ added = 0 /\ wire = << >>
    /\ sockQueue = [c \in Sockets |-> << >>]
    /\ writeQueue = [c \in Sockets |-> << >>]

IsOpen(c) == c \notin closed

-----------------------------------------------------------------------------
(***************************************************************************)
(* The deadline timer (boost asio).  cancel() and expires_from_now() queue *)
(* the waiting handler with operation_aborted; every handler of this code  *)
(* ignores the error code it is given, so an aborted wait still runs.  The *)
(* queue of ready handlers is a bag: which ready handler runs next is left *)
(* open.                                                                   *)
(***************************************************************************)
Queued(r, h) == IF h = NoHandler THEN r ELSE [r EXCEPT ![h] = @ + 1]
Taken(r, h)  == [r EXCEPT ![h] = @ - 1]

\* The io thread is between two handlers: inside run(), it polls the reactor
\* and takes the next ready handler.
Idle == process = "running" /\ pc = "run"

TimerExpires ==
    /\ Idle /\ armed # NoHandler
    /\ ready' = Queued(ready, armed) /\ armed' = NoHandler
    /\ UNCHANGED <<procVars, ioVars, stopped, timer, sockVars, sendVars, queueVars>>

-----------------------------------------------------------------------------
(***************************************************************************)
(* ClientSocketMgr                                                         *)
(***************************************************************************)

\* Mutant of ClosedBy: Disconnect() resets the pointer without CloseSocket().
ClosedByNothing == closed

\* Disconnect(): its effect on `closed` is ClosedBy, to which a caller that
\* also closes the socket it is in adds that socket.
Disconnect ==
    /\ stopped' = TRUE
    /\ ready' = Queued(ready, armed) /\ armed' = NoHandler
    /\ clientSocket' = NoSocket
ClosedBy == closed \cup ({clientSocket} \ {NoSocket})

\* ConnectToServer() up to its return: it cancels what waits on the timer and
\* arms the timer for the lambda.
ConnectToServer(h) ==
    /\ ready' = Queued(ready, armed) /\ armed' = h

\* Mutant of Initialize: the timer is created after the address was resolved.
InitializeTimerLate ==
    /\ process = "init"
    /\ process' = "running"
    /\ timer' = (conf.enabled /\ conf.resolves)
    /\ IF conf.enabled /\ conf.resolves
          THEN ConnectToServer("connect")
          ELSE UNCHANGED <<ready, armed>>
    /\ UNCHANGED <<conf, ioVars, stopped, sockVars, sendVars, queueVars>>

\* main() calls Initialize() before io_context::run().
Initialize ==
    /\ process = "init"
    /\ process' = "running"
    /\ timer' = conf.enabled
    /\ IF conf.enabled /\ conf.resolves
          THEN ConnectToServer("connect")
          ELSE UNCHANGED <<ready, armed>>
    /\ UNCHANGED <<conf, ioVars, stopped, sockVars, sendVars, queueVars>>

\* AddPacketToQueue(), called by any thread.
AddPacketToQueue ==
    /\ process \in {"init", "running"} /\ added < MaxPackets
    /\ added' = added + 1
    /\ mgrQueue' = Append(mgrQueue, added + 1)
    /\ UNCHANGED <<procVars, ioVars, timerVars, sockVars, sendVars>>

\* Update() returns at once when the manager is stopped ...
UpdateStopped ==
    /\ Idle /\ ready["update"] > 0 /\ stopped
    /\ ready' = Taken(ready, "update")
    /\ UNCHANGED <<procVars, ioVars, stopped, timer, armed, sockVars, sendVars, queueVars>>

\* Mutant of Update: without a socket it returns before it arms the timer.
UpdateArmsLate ==
    /\ Idle /\ ready["update"] > 0 /\ ~stopped
    /\ IF clientSocket = NoSocket
          THEN ready' = Taken(ready, "update") /\ UNCHANGED armed
          ELSE ready' = Queued(Taken(ready, "update"), armed) /\ armed' = "update"
    /\ pc' = IF clientSocket = NoSocket THEN "run" ELSE "send"
    /\ UNCHANGED <<procVars, tries, chunk, handling, stopped, timer, sockVars, sendVars, queueVars>>

\* ... and else arms the timer for the next Update() before anything, and goes
\* on to ClientSocket::Update() when there is a socket.
Update ==
    /\ Idle /\ ready["update"] > 0 /\ ~stopped
    /\ ready' = Queued(Taken(ready, "update"), armed) /\ armed' = "update"
    /\ pc' = IF clientSocket = NoSocket THEN "run" ELSE "send"
    /\ UNCHANGED <<procVars, tries, chunk, handling, stopped, timer, sockVars, sendVars, queueVars>>

\* Mutant of UpdateReconnects: nothing reconnects.
ResetsWithoutReconnect ==
    clientSocket' = NoSocket /\ pc' = "run" /\ UNCHANGED <<ready, armed>>

\* ClientSocket::Update() returned false: drop the socket and reconnect.
UpdateReconnects ==
    /\ clientSocket' = NoSocket
    /\ ConnectToServer("reconnect")
    /\ pc' = "run"

\* The last part of Update(): the manager's queue goes to the socket, packet by
\* packet, until it is empty.
DrainQueue ==
    /\ pc = "drain" /\ process = "running"
    /\ \/ /\ mgrQueue # << >>
          /\ mgrQueue' = Tail(mgrQueue)
          /\ sockQueue' = [sockQueue EXCEPT ![clientSocket] = Append(@, Head(mgrQueue))]
          /\ UNCHANGED pc
       \/ /\ mgrQueue = << >>
          /\ pc' = "run"
          /\ UNCHANGED <<mgrQueue, sockQueue>>
    /\ UNCHANGED <<procVars, tries, chunk, handling, timerVars, sockVars, writing,
                   broken, writeQueue, wire, added>>

\* The lambda of ConnectToServer starts.  It returns when a connection exists.
ConnectLambda ==
    \E h \in Connectors :
        /\ Idle /\ ready[h] > 0
        /\ ready' = Taken(ready, h)
        /\ IF clientSocket # NoSocket /\ IsOpen(clientSocket)
              THEN UNCHANGED <<pc, tries>>
              ELSE pc' = "connect" /\ tries' = ReconnectCount[h]
        /\ UNCHANGED <<procVars, chunk, handling, stopped, timer, armed, sockVars,
                       sendVars, queueVars>>

\* The constructor of ClientSocket: one that lacks its server id, account name or
\* key calls Disconnect() and CloseSocket().  The manager has not stored the
\* socket yet, and what it does with the timer next covers the cancel().
Construct(c) ==
    \/ conf.credentials /\ UNCHANGED <<stopped, closed>>
    \/ ~conf.credentials /\ stopped' = TRUE /\ closed' = ClosedBy \cup {c}

\* Start(): SendAuthSession() sends the auth session and reads; SendPacket() and
\* AsyncRead() do nothing on a closed socket.
Start(c) ==
    IF c \in closed'
       THEN UNCHANGED <<writeQueue, reading>>
       ELSE /\ writeQueue' = [writeQueue EXCEPT ![c] = Append(@, AuthSession)]
            /\ reading' = reading \cup {c}

\* Mutant of ConnectSucceeds: the timer is not armed for Update().
ConnectWithoutUpdate ==
    LET c == created + 1 IN
    /\ pc = "connect" /\ process = "running" /\ tries > 0 /\ created < MaxConnections
    /\ created' = c /\ clientSocket' = c
    /\ Construct(c) /\ Start(c)
    /\ pc' = "run" /\ tries' = 0
    /\ UNCHANGED <<procVars, chunk, handling, timer, armed, ready, authed, writing, broken,
                   sockQueue, wire, queueVars>>

\* One attempt of the lambda's loop succeeds: the ClientSocket is constructed and
\* started, and the timer is armed for Update().  The lambda does not notice
\* when the constructor gave up: the closed socket becomes _clientSocket.
ConnectSucceeds ==
    LET c == created + 1 IN
    /\ pc = "connect" /\ process = "running" /\ tries > 0 /\ created < MaxConnections
    /\ created' = c /\ clientSocket' = c
    /\ Construct(c) /\ Start(c)
    /\ ready' = Queued(ready, armed) /\ armed' = "update"
    /\ pc' = "run" /\ tries' = 0
    /\ UNCHANGED <<procVars, chunk, handling, timer, authed, writing, broken,
                   sockQueue, wire, queueVars>>

\* One attempt fails; after the last one the manager disconnects for good.
ConnectFails ==
    /\ pc = "connect" /\ process = "running" /\ tries > 0
    /\ tries' = tries - 1
    /\ IF tries > 1
          THEN UNCHANGED <<pc, stopped, ready, armed, clientSocket, closed>>
          ELSE Disconnect /\ closed' = ClosedBy /\ pc' = "run"
    /\ UNCHANGED <<procVars, chunk, handling, timer, created, authed, reading,
                   sendVars, queueVars>>

-----------------------------------------------------------------------------
(***************************************************************************)
(* ClientSocket and Socket: sending                                        *)
(***************************************************************************)

\* Mutant of Buffers: a large packet is not pushed after the empty buffer.
BuffersSmallOnly(n) == IF n \in LargePackets THEN <<EmptyBuffer>> ELSE <<App(n)>>

\* What SendPacket() pushes to the write queue for one packet.  For a packet
\* that does not fit its MessageBuffer it pushes that buffer, still empty, and
\* then a buffer of the packet's size.
Buffers(n) == IF n \in LargePackets THEN <<EmptyBuffer, App(n)>> ELSE <<App(n)>>

\* Mutant of SendQueued: the queue is sent before the server's consent.
SendUnauthed ==
    LET c == clientSocket IN
    /\ pc = "send" /\ process = "running" /\ sockQueue[c] # << >>
    /\ sockQueue' = [sockQueue EXCEPT ![c] = Tail(@)]
    /\ writeQueue' = [writeQueue EXCEPT ![c] = @ \o Buffers(Head(sockQueue[c]))]
    /\ UNCHANGED <<procVars, ioVars, timerVars, sockVars, writing, broken, wire, queueVars>>

\* ClientSocket::Update(), the loop: an authenticated socket sends its queue,
\* packet by packet; SendPacket() drops a packet when the socket is not open.
SendQueued ==
    LET c == clientSocket IN
    /\ pc = "send" /\ process = "running"
    /\ c \in authed /\ sockQueue[c] # << >>
    /\ sockQueue' = [sockQueue EXCEPT ![c] = Tail(@)]
    /\ writeQueue' = IF IsOpen(c)
                        THEN [writeQueue EXCEPT ![c] = @ \o Buffers(Head(sockQueue[c]))]
                        ELSE writeQueue
    /\ UNCHANGED <<procVars, ioVars, timerVars, sockVars, writing, broken, wire, queueVars>>

\* Mutant of SocketUpdate: a pending write ends the whole Update().
SocketUpdateReturnsOnWait ==
    LET c == clientSocket IN
    /\ pc = "send" /\ process = "running"
    /\ c \in authed => sockQueue[c] = << >>
    /\ IF c \in closed
          THEN UpdateReconnects
          ELSE /\ pc' = IF c \in writing THEN "run"
                        ELSE IF writeQueue[c] = << >> THEN "drain" ELSE "flush"
               /\ UNCHANGED <<clientSocket, ready, armed>>
    /\ UNCHANGED <<procVars, tries, chunk, handling, stopped, timer, created, closed,
                   authed, reading, sendVars, queueVars>>

\* Socket::Update(), once the loop is over.
SocketUpdate ==
    LET c == clientSocket IN
    /\ pc = "send" /\ process = "running"
    /\ c \in authed => sockQueue[c] = << >>
    /\ IF c \in closed
          THEN UpdateReconnects
          ELSE /\ pc' = IF c \in writing \/ writeQueue[c] = << >> THEN "drain" ELSE "flush"
               /\ UNCHANGED <<clientSocket, ready, armed>>
    /\ UNCHANGED <<procVars, tries, chunk, handling, stopped, timer, created, closed,
                   authed, reading, sendVars, queueVars>>

\* HandleQueue(): write_some() of the front buffer.  An empty buffer is
\* dropped; a written one leaves the queue; when the kernel takes only a part of
\* it the socket waits to be writable; an error drops the buffer, and is what a
\* socket that was shut down or whose connection failed gives.  The tcp::socket
\* is never made non_blocking: write_some() does not report would_block, it waits
\* inside the io thread until the kernel takes something or the connection fails.
\* That it may wait for ever is in Fairness, which does not demand the step.
\* wait is _isWritingAsync of the sockets at the call; again and done are where
\* the io thread goes on when HandleQueue() returns true and false.
HandleQueue(c, wait, again, done) ==
    LET front == Head(writeQueue[c])
        Pop   == writeQueue' = [writeQueue EXCEPT ![c] = Tail(@)]
        alive == c \notin closed \cup broken
    IN IF writeQueue[c] = << >>
       THEN pc' = done /\ writing' = wait /\ UNCHANGED <<writeQueue, wire, broken>>
       ELSE
       \/ /\ front.kind = "empty"
          /\ Pop /\ pc' = done /\ writing' = wait
          /\ UNCHANGED <<wire, broken>>
       \/ /\ front.kind # "empty" /\ alive
          /\ wire' = Append(wire, [sock |-> c, msg |-> front])
          /\ Pop /\ writing' = wait
          /\ pc' = IF Len(writeQueue[c]) > 1 THEN again ELSE done
          /\ UNCHANGED broken
       \/ /\ front.kind # "empty" /\ alive
          /\ writing' = wait \cup {c} /\ pc' = done
          /\ UNCHANGED <<writeQueue, wire, broken>>
       \/ /\ front.kind # "empty"
          /\ broken' = broken \cup {c}
          /\ Pop /\ pc' = done /\ writing' = wait
          /\ UNCHANGED wire

\* Socket::Update(): HandleQueue() until it returns false.
Flush ==
    /\ pc = "flush" /\ process = "running"
    /\ HandleQueue(clientSocket, writing, "flush", "drain")
    /\ UNCHANGED <<procVars, tries, chunk, handling, timerVars, sockVars, sockQueue, queueVars>>

\* write_some() of the front buffer needs the peer: it returns when the kernel
\* has room for a byte, which a peer that stopped reading never makes.
WaitsForPeer(c) ==
    /\ writeQueue[c] # << >> /\ Head(writeQueue[c]).kind # "empty"
    /\ c \notin closed \cup broken

\* WriteHandlerWrapper(): the socket is writable again, HandleQueue() is called
\* once.  The handler keeps its socket alive, so the manager may have dropped
\* it meanwhile.
WriteHandlerWrapper(c) ==
    /\ Idle /\ c \in writing
    /\ HandleQueue(c, writing \ {c}, "run", "run")
    /\ UNCHANGED <<procVars, tries, chunk, handling, timerVars, sockVars, sockQueue, queueVars>>

-----------------------------------------------------------------------------
(***************************************************************************)
(* ClientSocket and Socket: receiving                                      *)
(***************************************************************************)

\* ReadHandlerInternal() with an error: end of file or a failed connection.
ReadError(c) ==
    /\ Idle /\ c \in reading
    /\ reading' = reading \ {c} /\ closed' = closed \cup {c}
    /\ UNCHANGED <<procVars, ioVars, timerVars, clientSocket, created, authed,
                   sendVars, queueVars>>

\* ReadHandlerInternal() with data that completes some number of packets.
ReadData(c) ==
    /\ Idle /\ c \in reading
    /\ reading' = reading \ {c}
    /\ pc' = "read" /\ handling' = c /\ chunk' \in 0 .. MaxChunk
    /\ UNCHANGED <<procVars, tries, timerVars, clientSocket, created, closed, authed,
                   sendVars, queueVars>>

\* Mutant of ReadHandlerEnds: AsyncRead() does not ask IsOpen().
ReadsAgainWhenClosed ==
    /\ pc = "read" /\ process = "running" /\ chunk = 0
    /\ reading' = reading \cup {handling}
    /\ pc' = "run" /\ handling' = NoSocket
    /\ UNCHANGED <<procVars, tries, chunk, timerVars, clientSocket, created, closed,
                   authed, sendVars, queueVars>>

\* ReadHandler() ran out of data and reads again, unless the socket is closed.
ReadHandlerEnds ==
    /\ pc = "read" /\ process = "running" /\ chunk = 0
    /\ reading' = IF IsOpen(handling) THEN reading \cup {handling} ELSE reading
    /\ pc' = "run" /\ handling' = NoSocket
    /\ UNCHANGED <<procVars, tries, chunk, timerVars, clientSocket, created, closed,
                   authed, sendVars, queueVars>>

\* The next packet of the read buffer is one of kinds.
Receives(kinds) ==
    /\ pc = "read" /\ process = "running" /\ chunk > 0
    /\ kinds \cap ServerPackets # {}

\* ReadHandler() leaves its loop without reading again.
LeaveReadHandler == pc' = "run" /\ handling' = NoSocket /\ chunk' = 0

\* A header that ReadHeaderHandler() rejects, or an opcode that
\* ReadDataHandler() has no case for: the socket is closed.
ReadRejected ==
    /\ Receives(Rejected)
    /\ closed' = closed \cup {handling}
    /\ LeaveReadHandler
    /\ UNCHANGED <<procVars, tries, timerVars, clientSocket, created, authed, reading,
                   sendVars, queueVars>>

\* An auth response to a client that is authenticated, a pong to one that is
\* not: Disconnect(), and the socket is closed.
ReadOutOfTurn ==
    /\ Receives(IF handling \in authed THEN AuthResponses ELSE Pongs)
    /\ Disconnect /\ closed' = ClosedBy \cup {handling}
    /\ LeaveReadHandler
    /\ UNCHANGED <<procVars, tries, timer, created, authed, reading, sendVars, queueVars>>

\* HandleAuthResponce(), code Ok: the ping is queued if the socket is open.
HandleAuthOk ==
    /\ Receives({"authOk"}) /\ handling \notin authed
    /\ authed' = authed \cup {handling}
    /\ writeQueue' = IF IsOpen(handling)
                        THEN [writeQueue EXCEPT ![handling] = Append(@, Ping)]
                        ELSE writeQueue
    /\ chunk' = chunk - 1
    /\ UNCHANGED <<procVars, pc, tries, handling, timerVars, clientSocket, created,
                   closed, reading, writing, broken, sockQueue, wire, queueVars>>

\* HandleAuthResponce(), another code: Disconnect(), but ReadDataHandler()
\* returns Ok and the loop goes on with the rest of the buffer.
HandleAuthDenied ==
    /\ Receives({"authDenied"}) /\ handling \notin authed
    /\ Disconnect /\ closed' = ClosedBy
    /\ chunk' = chunk - 1
    /\ UNCHANGED <<procVars, pc, tries, handling, timer, created, authed, reading,
                   sendVars, queueVars>>

\* HandlePong() only measures the latency.
HandlePong ==
    /\ Receives({"pong"}) /\ handling \in authed
    /\ chunk' = chunk - 1
    /\ UNCHANGED <<procVars, pc, tries, handling, timerVars, sockVars, sendVars, queueVars>>

\* Extracting from a malformed payload throws, and nothing between the handler
\* and main() catches: the process is terminated.
ReadThrows ==
    /\ Receives(IF handling \in authed THEN {"pongMalformed"} ELSE {"authMalformed"})
    /\ process' = "threw"
    /\ UNCHANGED <<conf, ioVars, timerVars, sockVars, sendVars, queueVars>>

-----------------------------------------------------------------------------
(***************************************************************************)
(* main(): io_context::run() returns when no work is outstanding, and the  *)
(* handle of main() calls Disconnect() when it goes out of scope.          *)
(***************************************************************************)
NoWork ==
    /\ armed = NoHandler /\ \A h \in Handlers : ready[h] = 0
    /\ reading = {} /\ writing = {}

MainReturns ==
    /\ Idle /\ NoWork
    /\ IF timer
          THEN process' = "halted" /\ Disconnect /\ closed' = ClosedBy
          ELSE process' = "nullDeref" /\ stopped' = TRUE
               /\ UNCHANGED <<ready, armed, clientSocket, closed>>
    /\ UNCHANGED <<conf, ioVars, timer, created, authed, reading, sendVars, queueVars>>

-----------------------------------------------------------------------------
UpdateHandler == UpdateStopped \/ Update

UpdateLoops == SendQueued \/ SocketUpdate \/ Flush \/ DrainQueue

ConnectLoop == ConnectSucceeds \/ ConnectFails

ReadLoop ==
    \/ ReadHandlerEnds \/ ReadRejected \/ ReadOutOfTurn
    \/ HandleAuthOk \/ HandleAuthDenied \/ HandlePong \/ ReadThrows

IoThread ==
    \/ TimerExpires \/ UpdateHandler \/ UpdateLoops
    \/ ConnectLambda \/ ConnectLoop \/ ReadLoop \/ MainReturns
    \/ \E c \in Sockets : WriteHandlerWrapper(c)

\* The process is over.
Terminated == process \notin {"init", "running"} /\ UNCHANGED vars

Next ==
    \/ Initialize \/ AddPacketToQueue \/ IoThread \/ Terminated
    \/ \E c \in Sockets : ReadError(c) \/ ReadData(c)

Spec == Init /\ [][Next]_vars

\* The loops of Update() that go on whatever the peer does.
UpdateGoesOn ==
    \/ SendQueued \/ SocketUpdate \/ DrainQueue
    \/ Flush /\ ~WaitsForPeer(clientSocket)

\* Fairness.  The io thread stops inside a handler only where write_some() waits
\* for the peer.  Between handlers it takes the ready ones in the order they were
\* queued, so none is overtaken for ever (strong fairness: another handler
\* disables the step while it runs).  The kernel reports a socket that was shut
\* down as writable.  Nothing is assumed of the server, of the producers or of a
\* peer that does not read.
Fairness ==
    /\ WF_vars(Initialize) /\ WF_vars(MainReturns)
    /\ WF_vars(UpdateGoesOn) /\ WF_vars(ConnectLoop) /\ WF_vars(ReadLoop)
    /\ SF_vars(TimerExpires) /\ SF_vars(UpdateHandler) /\ SF_vars(ConnectLambda)
    /\ \A c \in Sockets : SF_vars(c \in closed /\ WriteHandlerWrapper(c))

FairSpec == Spec /\ Fairness

-----------------------------------------------------------------------------
(***************************************************************************)
(* Safety                                                                  *)
(***************************************************************************)
UpdatesOutstanding == ready["update"] + IF armed = "update" THEN 1 ELSE 0

\* Handlers ignore the error code of an aborted wait, so no cancel() ends the
\* chain of Update() calls, and the lambda of ConnectToServer starts one more
\* with every connection: until Disconnect() there are exactly as many chains as
\* connections were made.  The client never stops updating, and after k
\* reconnections it updates k + 1 times per millisecond, each call aborting the
\* wait of the call before it.
UpdateChains == ~stopped => UpdatesOutstanding = created

ConnectsOutstanding ==
    ready["connect"] + ready["reconnect"]
        + (IF armed \in Connectors THEN 1 ELSE 0) + (IF pc = "connect" THEN 1 ELSE 0)

\* The lambda of ConnectToServer does not look at _stopped: that a stopped
\* manager does not connect again, and that the "already exist" return never
\* loses a reconnection, rests on there being one lambda at most, and none once
\* the manager is stopped or has a socket.
OneConnector ==
    /\ ConnectsOutstanding <= 1
    /\ ConnectsOutstanding = 1 => clientSocket = NoSocket /\ ~stopped

\* CloseSocket() shuts down the sending side only.  A read left outstanding on a
\* closed socket would keep io_context::run() from returning until the server
\* closed, and its data would be handled by a socket the manager has dropped.
ReadsOnlyWhenCurrent == \A c \in reading : c = clientSocket /\ IsOpen(c)

\* Before Initialize() nothing is outstanding; afterwards a client that can
\* connect has its lambda outstanding until the first socket exists.  A client
\* without a timer never connects.
Starting ==
    /\ process = "init" =>
          /\ pc = "run" /\ armed = NoHandler /\ \A h \in Handlers : ready[h] = 0
          /\ created = 0 /\ ~stopped
    /\ process = "running" /\ conf.enabled /\ conf.resolves /\ ~stopped /\ created = 0
          => ConnectsOutstanding = 1
    /\ ~timer => created = 0 /\ ConnectsOutstanding = 0

\* Only sockets that were constructed have a state.
Constructed ==
    /\ clientSocket <= created /\ handling <= created
    /\ \A c \in closed \cup authed \cup reading \cup writing \cup broken : c <= created

\* Where the io thread is inside a handler, the manager and its socket are as
\* the handler left them: an Update() in progress has a socket, which is open
\* once Socket::Update() has looked; a read handler belongs to the current
\* socket, or the manager was stopped by it and the socket is closed.
InHandler ==
    /\ pc \in {"send", "flush", "drain"} => ~stopped /\ clientSocket # NoSocket
    /\ pc \in {"flush", "drain"} => IsOpen(clientSocket)
    /\ pc = "read" =>
          /\ reading = {}
          /\ \/ ~stopped /\ handling = clientSocket /\ IsOpen(handling)
             \/ stopped /\ clientSocket = NoSocket /\ handling \in closed

\* No socket but the manager's is open, and none when it is stopped.
OnlyCurrentIsOpen ==
    \A c \in 1 .. created : IsOpen(c) => c = clientSocket /\ ~stopped

\* The inductive invariant behind the properties above.
ControlInv ==
    /\ UpdateChains /\ OneConnector /\ ReadsOnlyWhenCurrent
    /\ Starting /\ Constructed /\ InHandler /\ OnlyCurrentIsOpen

\* The packets of a queue of packets, of a write queue and of the wire.
Packets(q) == {q[i] : i \in DOMAIN q}
Apps(q)    == {q[i].n : i \in {j \in DOMAIN q : q[j].kind = "app"}}
WireApps   == {wire[i].msg.n : i \in {j \in DOMAIN wire : wire[j].msg.kind = "app"}}

Below(S, T) == \A m \in S, n \in T : m < n
Increasing(q) == \A i, j \in DOMAIN q : i < j => q[i] < q[j]
AppsIncrease(q) ==
    \A i, j \in DOMAIN q : i < j /\ q[i].kind = "app" /\ q[j].kind = "app" => q[i].n < q[j].n

\* No packet overtakes another or is in two places, on the way from the manager's
\* queue over the socket's queue and its write queue to the wire, not even in the
\* queues that a closed socket has left behind.
InOrder ==
    /\ Packets(mgrQueue) \cup WireApps \subseteq 1 .. added
    /\ Increasing(mgrQueue)
    /\ Below(WireApps, Packets(mgrQueue))
    /\ \A c \in Sockets :
          /\ Increasing(sockQueue[c]) /\ AppsIncrease(writeQueue[c])
          /\ Packets(sockQueue[c]) \cup Apps(writeQueue[c]) \subseteq 1 .. added
          /\ Below(Apps(writeQueue[c]), Packets(sockQueue[c]))
          /\ Below(Apps(writeQueue[c]) \cup Packets(sockQueue[c]), Packets(mgrQueue))
          /\ c = clientSocket => Below(WireApps, Apps(writeQueue[c]) \cup Packets(sockQueue[c]))

\* As long as no connection was closed or failed, every packet that was added is
\* in exactly one of the queues or on the wire, in the order of the calls.
NothingLostWhileConnected ==
    /\ InOrder
    /\ closed \cup broken = {} =>
          \A n \in 1 .. added :
             \/ n \in Packets(mgrQueue) \cup WireApps
             \/ /\ clientSocket # NoSocket
                /\ n \in Packets(sockQueue[clientSocket]) \cup Apps(writeQueue[clientSocket])

\* Disconnect() is final: afterwards no socket is created and nothing more is
\* sent, on the current socket or on one the manager dropped earlier.
StoppedIsFinal == [][stopped => stopped' /\ created' = created /\ wire' = wire]_vars

\* run() returns, and main() with it, only after Disconnect() or when
\* Initialize() started nothing.
NoSilentExit ==
    [][process' = "halted" => stopped \/ ~(conf.enabled /\ conf.resolves)]_vars

\* The client keeps the promise of ServerView.
View == INSTANCE ServerView
ServerViewSpec == View!Spec

\* Only a malformed payload can end the process other than through main().
EndsOrderly ==
    /\ process # "nullDeref"
    /\ process = "threw" => ServerPackets \cap {"authMalformed", "pongMalformed"} # {}

-----------------------------------------------------------------------------
(***************************************************************************)
(* Liveness                                                                *)
(***************************************************************************)
Ended == process \notin {"init", "running"}

\* After Disconnect() the io_context runs out of work, whatever the server does,
\* and the process ends.
StoppedEnds == stopped ~> Ended

\* A closed socket is replaced, or the manager gives up.
ClosedIsReplaced == \A c \in Sockets : c \in closed ~> created > c \/ stopped \/ Ended

\* Every call of write_some() returns: the peer goes on reading, or its connection
\* fails.  The code cannot bring this about, since it sets no limit of time.
WritesReturn == WF_vars(Flush)

\* A packet does not stay in the manager's queue while there are connections,
\* provided that write_some() returns: a peer that keeps its connection and reads
\* nothing stops the io thread inside Socket::Update(), and with it the loop that
\* empties the queue.
QueueIsDrained ==
    WritesReturn =>
        ((created > 0 /\ mgrQueue # << >>) ~> (mgrQueue = << >> \/ stopped \/ Ended))
=============================================================================
