------------------------------- MODULE Socket -------------------------------
(***************************************************************************)
(* The write path of Socket<T> (Socket.h, the path without IOCP), byte by  *)
(* byte, with the kernel's send buffer and a peer that reads from it.  The *)
(* owner's thread calls Update() once in a while; write handlers run on    *)
(* the same thread.  Bytes are numbered 1, 2, ... in the order they were   *)
(* queued: a MessageBuffer is the interval of bytes it still has to send.  *)
(***************************************************************************)
EXTENDS Integers, Sequences

CONSTANTS
    MaxBuffers, \* bound: calls of QueuePacket
    MaxLength,  \* bound: length of a buffer; SendPacket also queues empty ones
    Capacity    \* bound: size of the kernel's send buffer

ASSUME SocketBounds ==
    MaxBuffers \in Nat /\ MaxLength \in Nat /\ Capacity \in Nat \ {0}

VARIABLES
    pc,         \* "idle", or "loop" inside the loop of Update()
    closed,     \* _closed
    closing,    \* _closing
    writing,    \* _isWritingAsync
    writeQueue, \* _writeQueue: the bytes from .rpos to .wpos are unsent
    failed,     \* the connection was reset by the peer
    space,      \* free space of the kernel's send buffer
    buffers,    \* number of buffers queued
    total,      \* number of bytes queued
    wire,       \* the bytes the kernel accepted, in order
    abrupt,     \* history: CloseSocket() was called by the owner
    nonBlocking \* the owner made the tcp::socket non_blocking; fixed at the start

vars == <<pc, closed, closing, writing, writeQueue, failed, space, buffers,
          total, wire, abrupt, nonBlocking>>

Buffer == [rpos : Nat, wpos : Nat]

TypeOK ==
    /\ pc \in {"idle", "loop"}
    /\ closed \in BOOLEAN /\ closing \in BOOLEAN /\ writing \in BOOLEAN
    /\ failed \in BOOLEAN /\ abrupt \in BOOLEAN /\ nonBlocking \in BOOLEAN
    /\ writeQueue \in Seq(Buffer)
    /\ \A i \in DOMAIN writeQueue : writeQueue[i].rpos <= writeQueue[i].wpos
    /\ space \in 0 .. Capacity
    /\ buffers \in 0 .. MaxBuffers /\ total \in Nat
    /\ wire \in Seq(Nat)

Init ==
    /\ pc = "idle" /\ closed = FALSE /\ closing = FALSE /\ writing = FALSE
    /\ writeQueue = << >> /\ failed = FALSE /\ space = Capacity
    /\ buffers = 0 /\ total = 0 /\ wire = << >> /\ abrupt = FALSE
    /\ nonBlocking \in BOOLEAN

IsOpen == ~closed /\ ~closing

\* GetActiveSize(): the bytes a buffer still has to send.
ActiveSize(b) == b.wpos - b.rpos

-----------------------------------------------------------------------------
\* QueuePacket(), which SendPacket() calls on an open socket only.
QueuePacket(len) ==
    /\ pc = "idle" /\ IsOpen /\ buffers < MaxBuffers
    /\ writeQueue' = Append(writeQueue, [rpos |-> total, wpos |-> total + len])
    /\ buffers' = buffers + 1 /\ total' = total + len
    /\ UNCHANGED <<pc, closed, closing, writing, failed, space, wire, abrupt,
                   nonBlocking>>

\* CloseSocket() called by the owner, or by the read handler after an error.
CloseSocket ==
    /\ pc = "idle" /\ ~closed
    /\ closed' = TRUE /\ abrupt' = TRUE
    /\ UNCHANGED <<pc, closing, writing, writeQueue, failed, space, buffers, total, wire,
                   nonBlocking>>

DelayedCloseSocket ==
    /\ pc = "idle" /\ ~closing
    /\ closing' = TRUE
    /\ UNCHANGED <<pc, closed, writing, writeQueue, failed, space, buffers, total, wire,
                   abrupt, nonBlocking>>

\* Mutants of Pop: the delayed close does not wait for the queue to be empty;
\* it is forgotten.
PopClosesEarly ==
    writeQueue' = Tail(writeQueue) /\ closed' = (closed \/ closing)
PopNeverCloses ==
    writeQueue' = Tail(writeQueue) /\ UNCHANGED closed

\* _writeQueue.pop(), and CloseSocket() when a delayed close has waited for it.
Pop ==
    /\ writeQueue' = Tail(writeQueue)
    /\ closed' = (closed \/ (closing /\ Len(writeQueue) = 1))

\* write_some() accepts the next n bytes of the front buffer.
Accept(n) ==
    /\ wire' = wire \o [i \in 1 .. n |-> Head(writeQueue).rpos + i]
    /\ space' = space - n

\* Mutant of ReadCompleted: the whole buffer is popped.
ReadPops(n) == writeQueue' = Tail(writeQueue)

\* ReadCompleted() of the front buffer: n bytes of it are sent.
ReadCompleted(n) ==
    writeQueue' = [writeQueue EXCEPT ![1] = [rpos |-> @.rpos + n, wpos |-> @.wpos]]

\* AsyncProcessQueue(): wait until the socket is writable.
AsyncProcessQueue == writing' = TRUE

\* HandleQueue().  write_some() of a socket that is not non_blocking does not report
\* would_block: it waits in the thread until the kernel takes something, and the step
\* is not possible before.  It may take a part of the buffer on either kind, since
\* the first async_read_some() makes the descriptor non-blocking underneath.  `wait`
\* is _isWritingAsync at the call; the caller goes on at `again` when HandleQueue()
\* returns true and at `done` when it returns false.
HandleQueue(wait, again, done) ==
    LET front == Head(writeQueue)
        size  == ActiveSize(front)
    IN \* nothing queued
       \/ /\ writeQueue = << >>
          /\ pc' = done /\ writing' = wait
          /\ UNCHANGED <<writeQueue, closed, wire, space>>
       \* an error other than would_block, or no bytes to send
       \/ /\ writeQueue # << >> /\ (size = 0 \/ failed \/ closed)
          /\ Pop /\ pc' = done /\ writing' = wait
          /\ UNCHANGED <<wire, space>>
       \* would_block
       \/ /\ writeQueue # << >> /\ size > 0 /\ ~failed /\ ~closed /\ space = 0
          /\ nonBlocking
          /\ AsyncProcessQueue /\ pc' = done
          /\ UNCHANGED <<writeQueue, closed, wire, space>>
       \* a part of the buffer is written
       \/ /\ writeQueue # << >> /\ ~failed /\ ~closed /\ space \in 1 .. size - 1
          /\ Accept(space)
          /\ ReadCompleted(space)
          /\ AsyncProcessQueue /\ pc' = done
          /\ UNCHANGED closed
       \* the whole buffer is written
       \/ /\ writeQueue # << >> /\ ~failed /\ ~closed /\ size \in 1 .. space
          /\ Accept(size)
          /\ Pop /\ writing' = wait
          /\ pc' = IF Len(writeQueue) > 1 THEN again ELSE done

\* Mutant of Update: it runs the loop for a delayed close only.
UpdateOnlyClosing ==
    /\ pc = "idle" /\ ~closed /\ ~writing /\ closing
    /\ pc' = "loop"
    /\ UNCHANGED <<closed, closing, writing, writeQueue, failed, space, buffers, total, wire,
                   abrupt, nonBlocking>>

\* Update(): nothing to do on a closed socket, while a write waits, or when
\* there is nothing to send and nothing to close; else the loop.
Update ==
    /\ pc = "idle" /\ ~closed /\ ~writing /\ (writeQueue # << >> \/ closing)
    /\ pc' = "loop"
    /\ UNCHANGED <<closed, closing, writing, writeQueue, failed, space, buffers, total, wire,
                   abrupt, nonBlocking>>

UpdateLoop ==
    /\ pc = "loop"
    /\ HandleQueue(writing, "loop", "idle")
    /\ UNCHANGED <<closing, failed, buffers, total, abrupt, nonBlocking>>

\* WriteHandlerWrapper(): the kernel reports the socket writable.
WriteHandlerWrapper ==
    /\ pc = "idle" /\ writing /\ (space > 0 \/ failed \/ closed)
    /\ HandleQueue(FALSE, "idle", "idle")
    /\ UNCHANGED <<closing, failed, buffers, total, abrupt, nonBlocking>>

\* The peer reads everything the kernel holds; the peer resets the connection.
PeerReads ==
    /\ space < Capacity
    /\ space' = Capacity
    /\ UNCHANGED <<pc, closed, closing, writing, writeQueue, failed, buffers, total, wire,
                   abrupt, nonBlocking>>

PeerResets ==
    /\ ~failed
    /\ failed' = TRUE
    /\ UNCHANGED <<pc, closed, closing, writing, writeQueue, space, buffers, total, wire,
                   abrupt, nonBlocking>>

Next ==
    \/ \E len \in 0 .. MaxLength : QueuePacket(len)
    \/ CloseSocket \/ DelayedCloseSocket
    \/ Update \/ UpdateLoop \/ WriteHandlerWrapper
    \/ PeerReads \/ PeerResets

Spec == Init /\ [][Next]_vars

\* The manager calls Update() every millisecond, the thread does not stop inside
\* it, write handlers of a writable socket run, and the peer keeps reading.
Fairness ==
    /\ WF_vars(Update) /\ WF_vars(UpdateLoop)
    /\ SF_vars(WriteHandlerWrapper) /\ WF_vars(PeerReads)

FairSpec == Spec /\ Fairness

-----------------------------------------------------------------------------
\* The peer receives the bytes that were queued, in order, without a gap and
\* none of them twice: a write that was accepted in part goes on exactly where
\* it stopped, across the wait for a writable socket.
StreamIsPrefix == \A i \in DOMAIN wire : wire[i] = i

\* Until the connection fails or is closed, the unsent bytes are exactly the
\* rest of the stream.
NothingSkipped ==
    ~failed /\ ~closed =>
        /\ \A i \in 1 .. Len(writeQueue) - 1 : writeQueue[i].wpos = writeQueue[i + 1].rpos
        /\ IF writeQueue = << >>
              THEN Len(wire) = total
              ELSE /\ Head(writeQueue).rpos = Len(wire)
                   /\ writeQueue[Len(writeQueue)].wpos = total

\* A wait for a writable socket always has a buffer to go on with.
WaitsWithBuffer == writing => writeQueue # << >>

\* The queue and the stream fit together, before and after a failure.
StreamInv == TypeOK /\ StreamIsPrefix /\ NothingSkipped /\ WaitsWithBuffer

\* DelayedCloseSocket() closes after the last byte: unless the connection failed
\* or CloseSocket() was called, a closed socket has sent everything.
DelayedCloseLosesNothing == closed /\ ~failed /\ ~abrupt => Len(wire) = total

\* A delayed close with something left to send closes the socket.
ClosesAfterDraining == (closing /\ writeQueue # << >>) ~> closed

\* "Marks the socket for closing after write buffer becomes empty": a socket so
\* marked is closed in the end.
DelayedCloseCloses == closing ~> closed

\* What is queued is sent, as long as the connection stands.
QueueIsSent == \A k \in 1 .. MaxBuffers * MaxLength :
    (total >= k) ~> (Len(wire) >= k \/ failed \/ closed)
=============================================================================
