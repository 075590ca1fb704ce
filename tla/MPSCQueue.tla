----------------------------- MODULE MPSCQueue -----------------------------
(***************************************************************************)
(* MPSCQueue: a linked list that many threads append to and one thread     *)
(* takes from, without locks.  MPSCQueueIntrusive uses a link inside the   *)
(* items and a dummy item, which the consumer appends when it wants to     *)
(* hand over the last item; MPSCQueueNonIntrusive allocates a node for     *)
(* each item and keeps the node of the last one handed over.  Which of the *)
(* two it is, the template's arguments decide.                             *)
(*                                                                         *)
(* Every access to _head and to a link is an action of its own, in some    *)
(* total order: what the release stores, the acquire loads and the         *)
(* exchange guarantee for what they publish.  _tail is the consumer's.     *)
(* Nodes are the items, or the addresses of Node objects; an item that was *)
(* handed over may be enqueued again, an address allocated again.          *)
(***************************************************************************)
EXTENDS Integers, Sequences, FiniteSets

CONSTANTS
    Producers, \* the threads that call Enqueue()
    Consumer,  \* the thread that calls Dequeue()
    Nodes,     \* bound: the items, or the addresses
    Dummy,     \* _dummyPtr
    Null

Threads == Producers \cup {Consumer}
Links   == Nodes \cup {Dummy}

ASSUME LinksAssumption ==
    IsFiniteSet(Nodes) /\ Dummy \notin Nodes /\ Null \notin Links /\ Consumer \notin Producers

VARIABLES
    intrusive, \* IntrusiveLink != nullptr
    head,      \* _head
    tail,      \* _tail
    next,      \* IntrusiveLink, or Next, of each node
    unused,    \* the items that the callers have, or the addresses without a Node
    pc,        \* of each thread in Enqueue(): "exchange" or "link" next, else "out"
    node,      \* the node of that call
    prev,      \* its prevHead
    dq,        \* where Dequeue() is: "out"; intrusive: the "second" load, the "head"
               \* load, Enqueue(_dummyPtr) ("dummy"), the "last" load; else "advance"
    out,       \* the node handed over last
    phase,     \* "open", "closing" in the destructor, "gone" after it
    chain,     \* history: the nodes from the tail on, in the order of the exchanges
    quiet      \* history: no producer was between exchange and link in this Dequeue()

enqVars == <<pc, node, prev>>
vars == <<intrusive, head, tail, next, unused, enqVars, dq, out, phase, chain, quiet>>

TypeOK ==
    /\ intrusive \in BOOLEAN
    /\ head \in Links /\ tail \in Links /\ unused \subseteq Nodes
    /\ next \in [Links -> Links \cup {Null}]
    /\ pc \in [Threads -> {"out", "exchange", "link"}]
    /\ node \in [Threads -> Links \cup {Null}] /\ prev \in [Threads -> Links \cup {Null}]
    /\ dq \in {"out", "second", "head", "dummy", "last", "advance"}
    /\ out \in Nodes \cup {Null} /\ phase \in {"open", "closing", "gone"}
    /\ chain \in Seq(Links) /\ quiet \in BOOLEAN

\* The list begins with the dummy, or with a Node without Data.
Init ==
    /\ intrusive \in BOOLEAN
    /\ head \in IF intrusive THEN {Dummy} ELSE Nodes
    /\ tail = head /\ unused = Nodes \ {head}
    /\ next = [n \in Links |-> Null]
    /\ pc = [t \in Threads |-> "out"]
    /\ node = [t \in Threads |-> Null] /\ prev = [t \in Threads |-> Null]
    /\ dq = "out" /\ out = Null /\ phase = "open"
    /\ chain = <<head>> /\ quiet = TRUE

-----------------------------------------------------------------------------
(***************************************************************************)
(* Enqueue(), by producers and, for the dummy, by the consumer             *)
(***************************************************************************)
StoreNull(t, n) ==
    /\ pc[t] = "out"
    /\ next' = [next EXCEPT ![n] = Null]
    /\ pc' = [pc EXCEPT ![t] = "exchange"] /\ node' = [node EXCEPT ![t] = n]
    /\ UNCHANGED <<intrusive, head, tail, prev, dq, out, phase, chain, quiet>>

\* A producer enqueues an item that a caller has, or allocates a Node.
Enqueue(p, n) == phase = "open" /\ n \in unused /\ StoreNull(p, n) /\ unused' = unused \ {n}

Exchange(t) ==
    /\ pc[t] = "exchange"
    /\ head' = node[t] /\ prev' = [prev EXCEPT ![t] = head]
    /\ pc' = [pc EXCEPT ![t] = "link"]
    /\ chain' = Append(chain, node[t]) /\ quiet' = (quiet /\ t = Consumer)
    /\ UNCHANGED <<intrusive, tail, next, unused, node, dq, out, phase>>

\* Mutant of Linked: the node is linked to the head that is current by now.
LinkedLate(t) == [next EXCEPT ![head] = node[t]]

\* Mutant of Linked: the node is linked to the tail.
LinkedToTail(t) == [next EXCEPT ![tail] = node[t]]

Linked(t) == [next EXCEPT ![prev[t]] = node[t]]

\* The last step; the consumer goes on in Dequeue().
Link(t) ==
    /\ pc[t] = "link"
    /\ next' = Linked(t)
    /\ pc' = [pc EXCEPT ![t] = "out"]
    /\ node' = [node EXCEPT ![t] = Null] /\ prev' = [prev EXCEPT ![t] = Null]
    /\ dq' = IF t = Consumer THEN "last" ELSE dq
    /\ UNCHANGED <<intrusive, head, tail, unused, out, phase, chain, quiet>>

-----------------------------------------------------------------------------
(***************************************************************************)
(* Dequeue()                                                               *)
(***************************************************************************)

\* No Enqueue() so far in this call, which begins when dq = "out".
QuietSoFar == IF dq = "out" THEN \A p \in Producers : pc[p] # "link" ELSE quiet

\* A step of Dequeue() to s.
Goes(s) ==
    /\ dq' = s /\ quiet' = QuietSoFar
    /\ UNCHANGED <<intrusive, head, next, enqVars>>

\* Dequeue() returns false.  The destructor's loop ends then, and the non-intrusive
\* queue deletes its last Node.
ReturnFalse ==
    /\ Goes("out")
    /\ phase' = IF phase = "closing" THEN "gone" ELSE phase
    /\ unused' = IF phase = "closing" /\ ~intrusive THEN unused \cup {head} ELSE unused
    /\ UNCHANGED <<tail, out, chain>>

\* Mutant of HandOver: the memory that the new tail uses is given up.
HandOverNext(n) ==
    /\ Goes("out")
    /\ tail' = next[tail] /\ unused' = unused \cup {next[tail]}
    /\ out' = n /\ chain' = Tail(chain)
    /\ UNCHANGED phase

\* Dequeue() returns the item of n and gives the old tail up: to the caller, or with
\* delete.
HandOver(n) ==
    /\ Goes("out")
    /\ tail' = next[tail] /\ unused' = unused \cup {tail}
    /\ out' = n /\ chain' = Tail(chain)
    /\ UNCHANGED phase

\* A call begins, with the load of the tail's link.
Begins == phase # "gone" /\ dq = "out"

\* No node behind the dummy, or behind the Node handed over last.
FindsNothing == Begins /\ (intrusive => tail = Dummy) /\ next[tail] = Null /\ ReturnFalse

\* Non-intrusive: a Node is there.
Load ==
    /\ Begins /\ ~intrusive /\ next[tail] # Null
    /\ Goes("advance") /\ UNCHANGED <<tail, unused, out, phase, chain>>
Advance == dq = "advance" /\ HandOver(next[tail])

\* Intrusive, at the dummy.
SkipDummy ==
    /\ Begins /\ intrusive /\ tail = Dummy /\ next[Dummy] # Null
    /\ Goes("second") /\ tail' = next[Dummy] /\ chain' = Tail(chain)
    /\ UNCHANGED <<unused, out, phase>>

\* Intrusive, at an item.
AtItem == intrusive /\ ((Begins /\ tail # Dummy) \/ dq = "second")

Found == AtItem /\ next[tail] # Null /\ HandOver(tail)
NoLink ==
    /\ AtItem /\ next[tail] = Null
    /\ Goes("head") /\ UNCHANGED <<tail, unused, out, phase, chain>>

\* Mutant of HeadBehind: the dummy is appended whoever is last.
HeadBehindNever == FALSE

\* tail != head: an Enqueue() came behind the tail after the load of its link.
HeadBehind == tail # head

LoadHead ==
    /\ dq = "head"
    /\ \/ HeadBehind /\ ReturnFalse
       \/ ~HeadBehind /\ Goes("dummy") /\ UNCHANGED <<tail, unused, out, phase, chain>>

EnqueueDummy == dq = "dummy" /\ StoreNull(Consumer, Dummy) /\ UNCHANGED unused

\* The load after Enqueue(_dummyPtr): another thread may have come before the dummy.
LastFound == dq = "last" /\ next[tail] # Null /\ HandOver(tail)
LastNotFound == dq = "last" /\ next[tail] = Null /\ ReturnFalse

Dequeue ==
    \/ FindsNothing \/ Load \/ Advance
    \/ SkipDummy \/ Found \/ NoLink \/ LoadHead
    \/ EnqueueDummy \/ Exchange(Consumer) \/ Link(Consumer)
    \/ LastFound \/ LastNotFound

\* The destructor runs when no thread is inside a method and none calls one again.
Destroy ==
    /\ phase = "open" /\ dq = "out" /\ \A t \in Threads : pc[t] = "out"
    /\ phase' = "closing"
    /\ UNCHANGED <<intrusive, head, tail, next, unused, enqVars, dq, out, chain, quiet>>

-----------------------------------------------------------------------------
Next ==
    \/ Dequeue \/ Destroy
    \/ \E p \in Producers : Exchange(p) \/ Link(p) \/ \E n \in Nodes : Enqueue(p, n)

Spec == Init /\ [][Next]_vars

\* A thread inside Enqueue() goes on, and the consumer calls Dequeue() again and
\* again; no one has to call Enqueue() or to destroy the queue.
FairSpec ==
    Spec /\ WF_vars(Dequeue) /\ \A p \in Producers : WF_vars(Exchange(p) \/ Link(p))

-----------------------------------------------------------------------------
(***************************************************************************)
(* Properties                                                              *)
(***************************************************************************)
Linking(n) == {t \in Threads : pc[t] = "link" /\ prev[t] = n}

\* n is behind m, linked or about to be.
Joined(m, n) ==
    \/ next[m] = n /\ Linking(m) = {}
    \/ next[m] = Null /\ \E t \in Threads : Linking(m) = {t} /\ node[t] = n

\* The links are those of the chain: from _tail on each node leads to the next, or
\* one thread is about to link it, and _head is the last.
LinksChain ==
    /\ chain # << >> /\ chain[1] = tail /\ chain[Len(chain)] = head
    /\ \A i \in 1 .. Len(chain) - 1 : Joined(chain[i], chain[i + 1])
    /\ next[head] = Null /\ Linking(head) = {}

\* The chain without the dummy, which is in it once at most.
Without(q, x) ==
    IF \E i \in DOMAIN q : q[i] = x
       THEN LET d == CHOOSE i \in DOMAIN q : q[i] = x
            IN [i \in 1 .. Len(q) - 1 |-> IF i < d THEN q[i] ELSE q[i + 1]]
       ELSE q

\* The nodes whose items are still to be handed over.
Queue == IF intrusive THEN Without(chain, Dummy) ELSE Tail(chain)

\* Enqueue() takes effect with its exchange, long before the node can be reached, and
\* Dequeue() when it moves the tail: seen so, the queue is a FIFO queue, wherever the
\* dummy is, whatever is reused and however long a thread is delayed.
Fifo == INSTANCE FifoQueue WITH Items <- Nodes, None <- Null, items <- Queue
FifoSpec == Fifo!Spec

\* Memory that was given up (deleted, or handed over to a caller who may delete it) is
\* left alone: the list does not lead to it and no thread is about to write to it,
\* above all no producer that was delayed between its exchange and its last step.
NoUseAfterFree ==
    phase # "gone" =>
        \A n \in unused :
            /\ \A i \in DOMAIN chain : chain[i] # n
            /\ \A t \in Threads : (pc[t] # "out" => node[t] # n) /\ (pc[t] = "link" => prev[t] # n)

\* The destructor deletes every item that was left in the queue, and every Node.
AllFreed == phase = "gone" => unused = Nodes

\* The list is well-formed and leads to no memory that was given up, and in the end
\* all memory is given up.
MemorySafe == TypeOK /\ LinksChain /\ NoUseAfterFree /\ AllFreed

ReturnsFalse ==
    \/ dq = "out" /\ (intrusive => tail = Dummy) /\ next[tail] = Null
    \/ dq = "head" /\ tail # head
    \/ dq = "last" /\ next[tail] = Null

\* Dequeue() returns false on a queue with items only if some Enqueue() was between
\* its exchange and its last step during the call; it need not be so at the end.
FalseMeansPending == ReturnsFalse => Queue = << >> \/ ~QuietSoFar

\* What was enqueued is dequeued, though a producer cuts the queue between its steps
\* and the consumer then finds nothing of what others enqueued behind.
ItemsArrive ==
    \A n \in Nodes :
        (\E p \in Producers : pc[p] = "link" /\ node[p] = n)
            ~> (n \in unused \/ (~intrusive /\ tail = n))
=============================================================================
