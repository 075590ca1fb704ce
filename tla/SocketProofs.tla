---------------------------- MODULE SocketProofs ----------------------------
(***************************************************************************)
(* Proofs about Socket, for every number and length of buffers and every   *)
(* size of the kernel's send buffer.                                       *)
(***************************************************************************)
EXTENDS Socket, TLAPS

\* The loop of Update() runs only while no write waits: without this, the loop could
\* empty the queue under a waiting handler.
LoopDoesNotWait == pc = "loop" => ~writing

\* The inductive invariant.
SocketInv == StreamInv /\ LoopDoesNotWait /\ DelayedCloseLosesNothing

LEMMA InitSocket == Init => SocketInv
<1> SUFFICES ASSUME Init PROVE SocketInv
  OBVIOUS
<1>1. TypeOK
  <2>1. writeQueue \in Seq(Buffer) /\ DOMAIN writeQueue = {} /\ wire \in Seq(Nat)
    BY DEF Init
  <2>2. space \in 0 .. Capacity /\ buffers \in 0 .. MaxBuffers /\ total \in Nat
    BY SocketBounds DEF Init
  <2>3. /\ pc \in {"idle", "loop"} /\ closed \in BOOLEAN /\ closing \in BOOLEAN
        /\ writing \in BOOLEAN /\ failed \in BOOLEAN /\ abrupt \in BOOLEAN
        /\ nonBlocking \in BOOLEAN
    BY Zenon DEF Init
  <2> QED
    BY <2>1, <2>2, <2>3, Zenon DEF TypeOK
<1>2. StreamIsPrefix /\ NothingSkipped
  BY DEF Init, StreamIsPrefix, NothingSkipped
<1>3. WaitsWithBuffer /\ LoopDoesNotWait /\ DelayedCloseLosesNothing
  BY Zenon DEF Init, WaitsWithBuffer, LoopDoesNotWait, DelayedCloseLosesNothing
<1> QED
  BY <1>1, <1>2, <1>3 DEF SocketInv, StreamInv

-----------------------------------------------------------------------------
(***************************************************************************)
(* The queue: what a buffer at its end and a step at its front leave       *)
(***************************************************************************)

\* The parts of the invariant that are about the queue, for a queue q whose first
\* unsent byte is the one behind n and whose last is t.
Contiguous(q, n, t) ==
    /\ \A i \in 1 .. Len(q) - 1 : q[i].wpos = q[i + 1].rpos
    /\ IF q = << >> THEN n = t ELSE Head(q).rpos = n /\ q[Len(q)].wpos = t
Proper(q) == \A i \in DOMAIN q : q[i].rpos <= q[i].wpos

\* A buffer of new bytes continues the queue.
LEMMA AppendContiguous ==
    ASSUME NEW q \in Seq(Buffer), NEW n \in Nat, NEW t \in Nat, NEW len \in Nat,
           Proper(q)
    PROVE  LET b == [rpos |-> t, wpos |-> t + len]
           IN /\ Append(q, b) \in Seq(Buffer) /\ Proper(Append(q, b))
              /\ Contiguous(q, n, t) => Contiguous(Append(q, b), n, t + len)
<1> DEFINE b == [rpos |-> t, wpos |-> t + len]
           r == Append(q, b)
<1>1. b \in Buffer /\ r \in Seq(Buffer) /\ Len(r) = Len(q) + 1
  BY DEF Buffer
<1>2. \A i \in 1 .. Len(q) : r[i] = q[i]
  OBVIOUS
<1>3. r[Len(q) + 1] = b
  OBVIOUS
<1>4. Proper(r)
  BY <1>1, <1>2, <1>3 DEF Proper, Buffer
<1>5. Contiguous(q, n, t) => Contiguous(r, n, t + len)
  <2> HIDE DEF r
  <2> SUFFICES ASSUME Contiguous(q, n, t) PROVE Contiguous(r, n, t + len)
    OBVIOUS
  <2>1. r # << >> /\ Head(r) = r[1] /\ b.rpos = t /\ b.wpos = t + len
    BY <1>1
  <2>2. CASE q = << >>
    <3>1. Len(q) = 0 /\ Len(r) = 1
      BY <1>1, <2>2
    <3> QED
      BY <1>3, <2>1, <2>2, <3>1 DEF Contiguous
  <2>3. CASE q # << >>
    <3>1. Len(q) > 0 /\ Head(q) = q[1] /\ r[1] = q[1]
      BY <1>2, <2>3
    <3>2. ASSUME NEW i \in 1 .. Len(r) - 1 PROVE r[i].wpos = r[i + 1].rpos
      <4>1. CASE i = Len(q)
        BY <1>1, <1>2, <1>3, <2>1, <2>3, <3>1, <4>1 DEF Contiguous
      <4>2. CASE i < Len(q)
        BY <1>1, <1>2, <2>3, <4>2, SMTT(30) DEF Contiguous
      <4> QED
        BY <1>1, <4>1, <4>2
    <3> QED
      BY <1>1, <1>3, <2>1, <2>3, <3>1, <3>2 DEF Contiguous
  <2> QED
    BY <2>2, <2>3
<1> QED
  BY <1>1, <1>4, <1>5

\* Without its first buffer, the queue begins behind that buffer.
LEMMA TailContiguous ==
    ASSUME NEW q \in Seq(Buffer), NEW n \in Nat, NEW t \in Nat, Proper(q), q # << >>
    PROVE  /\ Tail(q) \in Seq(Buffer) /\ Proper(Tail(q))
           /\ Contiguous(q, n, t) => Contiguous(Tail(q), Head(q).wpos, t)
<1> DEFINE r == Tail(q)
<1>1. r \in Seq(Buffer) /\ Len(r) = Len(q) - 1 /\ Head(q) = q[1] /\ Len(q) > 0
  OBVIOUS
<1>2. \A i \in 1 .. Len(r) : r[i] = q[i + 1]
  OBVIOUS
<1>3. r # << >> => Head(r) = q[2] /\ r[Len(r)] = q[Len(q)] /\ Len(r) > 0
  BY <1>1, <1>2
<1>4. r = << >> => Len(q) = 1
  <2> HIDE DEF r
  <2> QED
    BY <1>1
<1>5. Proper(r)
  BY <1>1, <1>2 DEF Proper
<1>6. ASSUME Contiguous(q, n, t) PROVE Contiguous(r, Head(q).wpos, t)
  <2>1. CASE r = << >>
    BY <1>1, <1>4, <1>6, <2>1 DEF Contiguous
  <2>2. CASE r # << >>
    BY <1>1, <1>2, <1>3, <1>6, <2>2, SMTT(30) DEF Contiguous
  <2> QED
    BY <2>1, <2>2
<1> QED
  BY <1>1, <1>5, <1>6

\* Sending a part of the first buffer moves the beginning of the queue by that part.
LEMMA PartContiguous ==
    ASSUME NEW q \in Seq(Buffer), NEW n \in Nat, NEW t \in Nat, NEW k \in Nat,
           Proper(q), q # << >>, k <= ActiveSize(Head(q))
    PROVE  LET r == [q EXCEPT ![1] = [rpos |-> @.rpos + k, wpos |-> @.wpos]]
           IN /\ r \in Seq(Buffer) /\ Proper(r) /\ r # << >>
              /\ Contiguous(q, n, t) => Contiguous(r, n + k, t)
<1> DEFINE r == [q EXCEPT ![1] = [rpos |-> @.rpos + k, wpos |-> @.wpos]]
<1>1. Head(q) = q[1] /\ Len(q) \in Nat /\ Len(q) > 0 /\ q[1] \in Buffer
  OBVIOUS
<1>2. r \in Seq(Buffer) /\ Len(r) = Len(q)
  BY <1>1 DEF Buffer
<1>3. /\ r[1].rpos = q[1].rpos + k /\ r[1].wpos = q[1].wpos
      /\ \A i \in 2 .. Len(q) : r[i] = q[i]
  BY <1>1 DEF Buffer
<1> HIDE DEF r
<1>4. Head(r) = r[1] /\ r # << >>
  BY <1>1, <1>2
<1>5. \A i \in 1 .. Len(q) : r[i].wpos = q[i].wpos
  BY <1>3
<1>6. Proper(r)
  <2> SUFFICES ASSUME NEW i \in 1 .. Len(q) PROVE r[i].rpos <= r[i].wpos
    BY <1>2 DEF Proper
  <2>1. CASE i = 1
    BY <1>1, <1>3, <2>1 DEF ActiveSize, Buffer
  <2>2. CASE i # 1
    BY <1>3, <2>2 DEF Proper
  <2> QED
    BY <2>1, <2>2
<1>7. Contiguous(q, n, t) => Contiguous(r, n + k, t)
  <2> SUFFICES ASSUME Contiguous(q, n, t) PROVE Contiguous(r, n + k, t)
    OBVIOUS
  <2>1. \A i \in 1 .. Len(r) - 1 : r[i].wpos = r[i + 1].rpos
    BY <1>1, <1>2, <1>3, <1>5 DEF Contiguous
  <2> QED
    BY <1>1, <1>2, <1>3, <1>4, <1>5, <2>1 DEF Contiguous
<1> QED
  BY <1>2, <1>4, <1>6, <1>7 DEF r

\* The stream grows by the next bytes.
LEMMA AcceptPrefix ==
    ASSUME NEW w \in Seq(Nat), NEW k \in Nat, \A i \in DOMAIN w : w[i] = i
    PROVE  LET v == w \o [i \in 1 .. k |-> Len(w) + i]
           IN v \in Seq(Nat) /\ Len(v) = Len(w) + k /\ \A i \in DOMAIN v : v[i] = i
OBVIOUS

-----------------------------------------------------------------------------
(***************************************************************************)
(* One lemma per action                                                    *)
(***************************************************************************)

\* The invariant, with its parts about the queue in one place.
LEMMA InvParts ==
    SocketInv <=>
        /\ TypeOK /\ StreamIsPrefix /\ WaitsWithBuffer /\ LoopDoesNotWait
        /\ DelayedCloseLosesNothing
        /\ ~failed /\ ~closed => Contiguous(writeQueue, Len(wire), total)
BY DEF SocketInv, StreamInv, NothingSkipped, Contiguous

LEMMA QueuePacketInv ==
    ASSUME SocketInv, NEW len \in 0 .. MaxLength, QueuePacket(len) PROVE SocketInv'
<1>1. TypeOK /\ Proper(writeQueue) /\ Len(wire) \in Nat /\ len \in Nat
  BY SocketBounds DEF SocketInv, StreamInv, TypeOK, Proper
<1>2. /\ writeQueue' \in Seq(Buffer) /\ Proper(writeQueue')
      /\ Contiguous(writeQueue, Len(wire), total) => Contiguous(writeQueue', Len(wire), total + len)
  BY <1>1, AppendContiguous DEF QueuePacket, TypeOK
<1>3. TypeOK'
  BY <1>1, <1>2, SocketBounds DEF TypeOK, QueuePacket, Proper
<1>4. ~failed' /\ ~closed' => Contiguous(writeQueue', Len(wire'), total')
  BY <1>2, InvParts DEF QueuePacket
<1>5. StreamIsPrefix' /\ LoopDoesNotWait' /\ DelayedCloseLosesNothing'
  BY InvParts DEF QueuePacket, StreamIsPrefix, LoopDoesNotWait, DelayedCloseLosesNothing, IsOpen
<1>6. WaitsWithBuffer'
  BY <1>1 DEF QueuePacket, WaitsWithBuffer, TypeOK
<1> QED
  BY <1>3, <1>4, <1>5, <1>6 DEF SocketInv, StreamInv, NothingSkipped, Contiguous

\* The steps that leave the queue and the stream alone.
LEMMA QuietInv ==
    ASSUME SocketInv,
           CloseSocket \/ DelayedCloseSocket \/ Update \/ PeerReads \/ PeerResets
    PROVE  SocketInv'
<1>0. TypeOK
  BY DEF SocketInv, StreamInv
<1>1. TypeOK'
  <2>1. CASE CloseSocket
    BY <1>0, <2>1 DEF TypeOK, CloseSocket
  <2>2. CASE DelayedCloseSocket
    BY <1>0, <2>2 DEF TypeOK, DelayedCloseSocket
  <2>3. CASE Update
    BY <1>0, <2>3 DEF TypeOK, Update
  <2>4. CASE PeerReads
    BY <1>0, <2>4, SocketBounds DEF TypeOK, PeerReads
  <2>5. CASE PeerResets
    BY <1>0, <2>5 DEF TypeOK, PeerResets
  <2> QED
    BY <2>1, <2>2, <2>3, <2>4, <2>5
<1>2. UNCHANGED <<writeQueue, wire, total, writing>>
  BY DEF CloseSocket, DelayedCloseSocket, Update, PeerReads, PeerResets
<1>3. (~failed' /\ ~closed') => (~failed /\ ~closed)
  BY DEF CloseSocket, DelayedCloseSocket, Update, PeerReads, PeerResets
<1>4. StreamIsPrefix' /\ NothingSkipped' /\ WaitsWithBuffer'
  BY <1>2, <1>3 DEF SocketInv, StreamInv, StreamIsPrefix, NothingSkipped, WaitsWithBuffer
<1>5. LoopDoesNotWait'
  BY DEF SocketInv, LoopDoesNotWait, CloseSocket, DelayedCloseSocket, Update,
     PeerReads, PeerResets
<1>6. DelayedCloseLosesNothing'
  BY DEF SocketInv, DelayedCloseLosesNothing, CloseSocket, DelayedCloseSocket, Update,
     PeerReads, PeerResets
<1> QED
  BY <1>1, <1>4, <1>5, <1>6 DEF SocketInv, StreamInv

\* HandleQueue() called where no write waits any more: by the loop of Update(), or by
\* the handler, which resets _isWritingAsync first.
LEMMA HandleQueueInv ==
    ASSUME SocketInv, NEW again \in {"idle", "loop"}, HandleQueue(FALSE, again, "idle"),
           UNCHANGED <<closing, failed, buffers, total, abrupt, nonBlocking>>
    PROVE  SocketInv'
<1> DEFINE size == ActiveSize(Head(writeQueue))
           n == Len(wire)
<1>1. TypeOK /\ Proper(writeQueue) /\ n \in Nat /\ writeQueue \in Seq(Buffer) /\ total \in Nat
  BY DEF SocketInv, StreamInv, TypeOK, Proper
<1>2. /\ StreamIsPrefix /\ WaitsWithBuffer /\ LoopDoesNotWait /\ DelayedCloseLosesNothing
      /\ ~failed /\ ~closed => Contiguous(writeQueue, n, total)
  BY InvParts
<1>3. ASSUME writeQueue # << >>
      PROVE  /\ Head(writeQueue) \in Buffer /\ size \in Nat
             /\ Len(writeQueue) \in Nat /\ Len(writeQueue) > 0
             /\ Head(writeQueue).wpos = Head(writeQueue).rpos + size
  <2>1. /\ Head(writeQueue) = writeQueue[1] /\ 1 \in DOMAIN writeQueue
        /\ Len(writeQueue) \in Nat /\ Len(writeQueue) > 0 /\ writeQueue[1] \in Buffer
    BY <1>1, <1>3
  <2>2. /\ writeQueue[1].rpos \in Nat /\ writeQueue[1].wpos \in Nat
        /\ writeQueue[1].rpos <= writeQueue[1].wpos
    BY <1>1, <2>1 DEF Proper, Buffer
  <2> QED
    BY <2>1, <2>2 DEF ActiveSize
<1>4. ASSUME writeQueue # << >>
      PROVE  /\ Tail(writeQueue) \in Seq(Buffer) /\ Proper(Tail(writeQueue))
             /\ Contiguous(writeQueue, n, total)
                   => Contiguous(Tail(writeQueue), n + size, total)
  <2>1. Contiguous(writeQueue, n, total) => Head(writeQueue).rpos = n
    BY <1>4 DEF Contiguous
  <2> QED
    BY <1>1, <1>3, <1>4, <2>1, TailContiguous
<1>5. ASSUME writeQueue # << >>, Len(writeQueue) = 1, Contiguous(writeQueue, n, total)
      PROVE  n + size = total
  BY <1>1, <1>3, <1>5 DEF Contiguous
<1>6. ASSUME NEW k \in Nat, ~failed, ~closed, writeQueue # << >>, k <= space, Accept(k)
      PROVE  /\ wire' \in Seq(Nat) /\ Len(wire') = n + k /\ StreamIsPrefix'
             /\ space' \in 0 .. Capacity
  <2>1. Head(writeQueue).rpos = n
    BY <1>2, <1>6 DEF Contiguous
  <2>2. wire' = wire \o [i \in 1 .. k |-> n + i]
    BY <1>6, <2>1 DEF Accept
  <2>3. wire' \in Seq(Nat) /\ Len(wire') = n + k /\ \A i \in DOMAIN wire' : wire'[i] = i
    BY <1>1, <1>2, <2>2, AcceptPrefix DEF TypeOK, StreamIsPrefix
  <2>4. space' \in 0 .. Capacity
    BY <1>1, <1>6, SocketBounds DEF TypeOK, Accept
  <2> QED
    BY <2>3, <2>4 DEF StreamIsPrefix
<1>7. CASE /\ writeQueue = << >> /\ pc' = "idle" /\ writing' = FALSE
           /\ UNCHANGED <<writeQueue, closed, wire, space>>
  <2>1. TypeOK'
    BY <1>1, <1>7 DEF TypeOK
  <2>2. StreamIsPrefix' /\ NothingSkipped' /\ DelayedCloseLosesNothing'
    BY <1>2, <1>7 DEF StreamIsPrefix, NothingSkipped, DelayedCloseLosesNothing, Contiguous
  <2>3. WaitsWithBuffer' /\ LoopDoesNotWait'
    BY <1>7 DEF WaitsWithBuffer, LoopDoesNotWait
  <2> QED
    BY <2>1, <2>2, <2>3 DEF SocketInv, StreamInv
<1>8. CASE /\ writeQueue # << >> /\ (size = 0 \/ failed \/ closed)
           /\ Pop /\ pc' = "idle" /\ writing' = FALSE
           /\ UNCHANGED <<wire, space>>
  <2>1. TypeOK'
    BY <1>1, <1>4, <1>8 DEF TypeOK, Pop, Proper
  <2>a. size = 0 => n + size = n
    BY <1>1
  <2> HIDE DEF size, n
  <2>2. ~failed' /\ ~closed' => Contiguous(writeQueue', n, total')
    BY <1>2, <1>4, <1>8, <2>a DEF Pop
  <2>3. closed' /\ ~failed' /\ ~abrupt' => n = total
    <3>1. CASE closed
      BY <1>2, <3>1 DEF DelayedCloseLosesNothing, n
    <3>2. CASE ~closed
      BY <1>2, <1>5, <1>8, <2>a, <3>2 DEF Pop
    <3> QED
      BY <3>1, <3>2
  <2> USE DEF n
  <2>4. WaitsWithBuffer' /\ LoopDoesNotWait' /\ StreamIsPrefix'
    BY <1>2, <1>8 DEF WaitsWithBuffer, LoopDoesNotWait, StreamIsPrefix
  <2> QED
    BY <1>8, <2>1, <2>2, <2>3, <2>4
       DEF SocketInv, StreamInv, NothingSkipped, DelayedCloseLosesNothing, Contiguous
<1>9. CASE /\ writeQueue # << >> /\ size > 0 /\ ~failed /\ ~closed /\ space = 0
           /\ AsyncProcessQueue /\ pc' = "idle"
           /\ UNCHANGED <<writeQueue, closed, wire, space>>
  <2>1. TypeOK'
    BY <1>1, <1>9 DEF TypeOK, AsyncProcessQueue
  <2>2. StreamIsPrefix' /\ NothingSkipped' /\ DelayedCloseLosesNothing'
    BY <1>2, <1>9 DEF StreamIsPrefix, NothingSkipped, DelayedCloseLosesNothing, Contiguous
  <2>3. WaitsWithBuffer' /\ LoopDoesNotWait'
    BY <1>9 DEF WaitsWithBuffer, LoopDoesNotWait
  <2> QED
    BY <2>1, <2>2, <2>3 DEF SocketInv, StreamInv
<1>10. CASE /\ writeQueue # << >> /\ ~failed /\ ~closed /\ space \in 1 .. size - 1
            /\ Accept(space) /\ ReadCompleted(space)
            /\ AsyncProcessQueue /\ pc' = "idle" /\ UNCHANGED closed
  <2>1. space \in Nat /\ space <= size
    BY <1>3, <1>10
  <2>2. /\ wire' \in Seq(Nat) /\ Len(wire') = n + space /\ StreamIsPrefix'
        /\ space' \in 0 .. Capacity
    BY <1>6, <1>10, <2>1
  <2>3. /\ writeQueue' \in Seq(Buffer) /\ Proper(writeQueue') /\ writeQueue' # << >>
        /\ Contiguous(writeQueue', n + space, total)
    BY <1>1, <1>2, <1>10, <2>1, PartContiguous DEF ReadCompleted
  <2>4. TypeOK'
    BY <1>1, <1>10, <2>2, <2>3 DEF TypeOK, AsyncProcessQueue, Proper
  <2>5. WaitsWithBuffer' /\ LoopDoesNotWait' /\ DelayedCloseLosesNothing'
    BY <1>10, <2>3 DEF WaitsWithBuffer, LoopDoesNotWait, DelayedCloseLosesNothing
  <2> QED
    BY <2>2, <2>3, <2>4, <2>5 DEF SocketInv, StreamInv, NothingSkipped, Contiguous
<1>11. CASE /\ writeQueue # << >> /\ ~failed /\ ~closed /\ size \in 1 .. space
            /\ Accept(size) /\ Pop /\ writing' = FALSE
            /\ pc' = IF Len(writeQueue) > 1 THEN again ELSE "idle"
  <2>1. size \in Nat /\ size <= space
    BY <1>3, <1>11
  <2>2. /\ wire' \in Seq(Nat) /\ Len(wire') = n + size /\ StreamIsPrefix'
        /\ space' \in 0 .. Capacity
    BY <1>6, <1>11, <2>1
  <2>3. TypeOK'
    BY <1>1, <1>4, <1>11, <2>2 DEF TypeOK, Pop, Proper
  <2>4. Contiguous(writeQueue', Len(wire'), total')
    BY <1>2, <1>4, <1>11, <2>2 DEF Pop
  <2>5. DelayedCloseLosesNothing'
    BY <1>2, <1>5, <1>11, <2>2 DEF Pop, DelayedCloseLosesNothing
  <2>6. WaitsWithBuffer' /\ LoopDoesNotWait'
    BY <1>11 DEF WaitsWithBuffer, LoopDoesNotWait
  <2> QED
    BY <2>2, <2>3, <2>4, <2>5, <2>6 DEF SocketInv, StreamInv, NothingSkipped, Contiguous
<1> QED
  BY <1>7, <1>8, <1>9, <1>10, <1>11 DEF HandleQueue

LEMMA NextSocket == SocketInv /\ [Next]_vars => SocketInv'
<1> SUFFICES ASSUME SocketInv, [Next]_vars PROVE SocketInv'
  OBVIOUS
<1>1. ASSUME NEW len \in 0 .. MaxLength, QueuePacket(len) PROVE SocketInv'
  BY <1>1, QueuePacketInv
<1>2. CASE CloseSocket \/ DelayedCloseSocket \/ Update \/ PeerReads \/ PeerResets
  BY <1>2, QuietInv
<1>3. CASE UpdateLoop
  <2>1. writing = FALSE
    BY <1>3 DEF SocketInv, StreamInv, TypeOK, LoopDoesNotWait, UpdateLoop
  <2> QED
    BY <1>3, <2>1, HandleQueueInv DEF UpdateLoop
<1>4. CASE WriteHandlerWrapper
  BY <1>4, HandleQueueInv DEF WriteHandlerWrapper
<1>5. CASE UNCHANGED vars
  BY <1>5 DEF vars, SocketInv, StreamInv, TypeOK, StreamIsPrefix, NothingSkipped,
     WaitsWithBuffer, LoopDoesNotWait, DelayedCloseLosesNothing
<1> QED
  BY <1>1, <1>2, <1>3, <1>4, <1>5 DEF Next

-----------------------------------------------------------------------------
LEMMA SocketInvariant == Spec => []SocketInv
BY InitSocket, NextSocket, PTL DEF Spec

\* The write path of Socket.h, for every number and length of buffers and every size of
\* the kernel's send buffer: what the peer receives is a prefix of what was queued, across
\* partial writes and waits; until a failure or a close the queue holds exactly the rest;
\* and a handler that waits for a writable socket finds a buffer to go on with.
THEOREM StreamCorrect == Spec => []StreamInv
<1>1. SocketInv => StreamInv
  BY DEF SocketInv
<1> QED
  BY <1>1, SocketInvariant, PTL

\* DelayedCloseSocket() never closes over unsent bytes: closed without a failure and
\* without CloseSocket(), the socket has sent everything that was queued.
THEOREM DelayedCloseCorrect == Spec => []DelayedCloseLosesNothing
<1>1. SocketInv => DelayedCloseLosesNothing
  BY DEF SocketInv
<1> QED
  BY <1>1, SocketInvariant, PTL
=============================================================================
