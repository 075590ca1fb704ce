----------------------------- MODULE FifoQueue -----------------------------
(***************************************************************************)
(* What both MPSCQueues promise: a queue, with an Enqueue() that takes     *)
(* effect at one moment and a Dequeue() that hands over the oldest item.   *)
(* Dequeue() may also return false at any time, which changes nothing.     *)
(***************************************************************************)
EXTENDS Sequences

CONSTANTS Items, \* the items
          None   \* not an item

VARIABLES items, \* the items in the queue
          out    \* the item handed over last

Init == items = << >> /\ out = None

Enqueue == items' \in {Append(items, x) : x \in Items} /\ UNCHANGED out

Dequeue ==
    /\ items # << >>
    /\ out' = Head(items) /\ items' = Tail(items)

Next == Enqueue \/ Dequeue

Spec == Init /\ [][Next]_<<items, out>>
=============================================================================
