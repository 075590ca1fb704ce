---------------------------- MODULE PacketQueue ----------------------------
(***************************************************************************)
(* PacketQueue (DefaultPacketQueue, CheckPacketQueue): any thread adds     *)
(* packets, one takes them, also by way of a container whose rest it puts  *)
(* back in front.  Every operation is under the lock.  Packets are         *)
(* numbered in the order they are added.                                   *)
(***************************************************************************)
EXTENDS Integers, Sequences

CONSTANT MaxPackets   \* bound: packets that are added

VARIABLES _queue, _canceled,
          accepted,   \* packets added so far
          container,  \* packets the consumer has taken and not handled
          result,     \* what the last GetNextPacket() set, 0 at first
          handled,    \* history: packets handled, in order
          deleted     \* history: packets the destructor deleted

vars == <<_queue, _canceled, accepted, container, result, handled, deleted>>

Init ==
    /\ _queue = << >> /\ _canceled = FALSE /\ accepted = 0 /\ container = << >>
    /\ result = 0 /\ handled = << >> /\ deleted = << >>

AddPacket ==
    /\ accepted < MaxPackets /\ deleted = << >>
    /\ accepted' = accepted + 1 /\ _queue' = Append(_queue, accepted')
    /\ UNCHANGED <<_canceled, container, result, handled, deleted>>

\* GetNextPacket(result): false, and nothing set, without a packet.
GetNextPacket ==
    /\ _queue # << >> /\ container = << >>
    /\ result' = Head(_queue) /\ handled' = Append(handled, result')
    /\ _queue' = Tail(_queue)
    /\ UNCHANGED <<_canceled, accepted, container, deleted>>

\* Mutant of GetNextPacketIf: the packet is taken before check() is asked.
TakeThenCheck ==
    /\ _queue # << >> /\ container = << >>
    /\ result' = Head(_queue) /\ _queue' = Tail(_queue)
    /\ \E check \in BOOLEAN : handled' = IF check THEN Append(handled, result') ELSE handled
    /\ UNCHANGED <<_canceled, accepted, container, deleted>>

\* GetNextPacket(result, check): a packet check() refuses stays in the queue, though
\* result is set to it.
GetNextPacketIf ==
    /\ _queue # << >> /\ container = << >>
    /\ result' = Head(_queue)
    /\ \E check \in BOOLEAN :
        IF check THEN _queue' = Tail(_queue) /\ handled' = Append(handled, result')
        ELSE UNCHANGED <<_queue, handled>>
    /\ UNCHANGED <<_canceled, accepted, container, deleted>>

\* The consumer collects packets, handles some and puts the rest back.
Collect ==
    /\ _queue # << >>
    /\ result' = Head(_queue) /\ container' = Append(container, result')
    /\ _queue' = Tail(_queue)
    /\ UNCHANGED <<_canceled, accepted, handled, deleted>>
HandleCollected ==
    /\ container # << >>
    /\ handled' = Append(handled, Head(container)) /\ container' = Tail(container)
    /\ UNCHANGED <<_queue, _canceled, accepted, result, deleted>>
ReadContainer ==
    /\ container # << >>
    /\ _queue' = container \o _queue /\ container' = << >>
    /\ UNCHANGED <<_canceled, accepted, result, handled, deleted>>

\* Cancel(): nothing in the queue asks for the flag.
Cancel ==
    /\ _canceled' = TRUE
    /\ UNCHANGED <<_queue, accepted, container, result, handled, deleted>>

Destroy ==
    /\ container = << >> /\ _queue # << >>
    /\ deleted' = _queue /\ _queue' = << >>
    /\ UNCHANGED <<_canceled, accepted, container, result, handled>>

Next ==
    \/ AddPacket \/ GetNextPacket \/ GetNextPacketIf
    \/ Collect \/ HandleCollected \/ ReadContainer \/ Cancel \/ Destroy

-----------------------------------------------------------------------------
\* Packets are handled in the order they were added, each once, whatever was refused or
\* put back meanwhile and whoever added others; the rest is deleted with the queue.
PacketsInOrder == handled \o container \o _queue \o deleted = [i \in 1 .. accepted |-> i]
=============================================================================
