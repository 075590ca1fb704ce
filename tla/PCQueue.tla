------------------------------ MODULE PCQueue ------------------------------
(***************************************************************************)
(* ProducerConsumerQueue: a queue under a mutex with a condition variable. *)
(*                                                                         *)
(* Every method but Size() holds _queueLock from its first line to its     *)
(* last, so each is one action; WaitAndPop() gives the lock up in          *)
(* _condition.wait() only and is one action up to there and one for each   *)
(* time it gets the lock back.  Push() and Cancel() come from any thread,  *)
(* at any time.  Size(), which reads without the lock and changes nothing, *)
(* is left out.  The values are numbered in the order they are pushed.     *)
(***************************************************************************)
EXTENDS Integers, Sequences, FiniteSets

CONSTANTS
    Consumers, \* the threads that call Pop() and WaitAndPop(), finitely many
    MaxPushes  \* bound: calls of Push

VARIABLES
    queue,    \* _queue
    shutdown, \* _shutdown
    pc,       \* of each consumer: "out" of the queue's methods, "waiting" for the
              \* condition, "woken" and about to take the lock again
    pushed,   \* number of values that were pushed
    taken,    \* history: the values that were popped, in that order
    deleted   \* history: number of values that Cancel() deleted

vars == <<queue, shutdown, pc, pushed, taken, deleted>>

TypeOK ==
    /\ queue \in Seq(1 .. pushed) /\ taken \in Seq(1 .. pushed)
    /\ pushed \in 0 .. MaxPushes /\ deleted \in 0 .. pushed
    /\ shutdown \in BOOLEAN
    /\ pc \in [Consumers -> {"out", "waiting", "woken"}]

Init ==
    /\ queue = << >> /\ shutdown = FALSE
    /\ pc = [c \in Consumers |-> "out"]
    /\ pushed = 0 /\ taken = << >> /\ deleted = 0

Waiting == {c \in Consumers : pc[c] = "waiting"}
Woken   == {c \in Consumers : pc[c] = "woken"}

-----------------------------------------------------------------------------
\* Mutant of NotifyOne: a notification only when the queue was empty.
NotifyFirst ==
    IF Waiting = {} \/ queue # << >>
       THEN pc' = pc
       ELSE \E c \in Waiting : pc' = [pc EXCEPT ![c] = "woken"]

\* notify_one(): wakes one of the waiting threads, if there are any.
NotifyOne ==
    IF Waiting = {}
       THEN pc' = pc
       ELSE \E c \in Waiting : pc' = [pc EXCEPT ![c] = "woken"]

\* notify_all()
NotifyAll == pc' = [c \in Consumers |-> IF c \in Waiting THEN "woken" ELSE pc[c]]

\* Push() does not ask for _shutdown.
Push ==
    /\ pushed < MaxPushes
    /\ pushed' = pushed + 1
    /\ queue' = Append(queue, pushed + 1)
    /\ NotifyOne
    /\ UNCHANGED <<shutdown, taken, deleted>>

\* Mutant of Take: the value stays in the queue.
TakeCopies ==
    /\ taken' = Append(taken, Head(queue))
    /\ queue' = queue

\* The front of the queue is handed out.
Take ==
    /\ taken' = Append(taken, Head(queue))
    /\ queue' = Tail(queue)

\* The rest of Pop() and of WaitAndPop() when it does not wait: nothing is handed
\* out after Cancel().
Leave(c) ==
    /\ pc' = [pc EXCEPT ![c] = "out"]
    /\ IF queue = << >> \/ shutdown THEN UNCHANGED <<queue, taken>> ELSE Take
    /\ UNCHANGED <<shutdown, pushed, deleted>>

Pop(c) == pc[c] = "out" /\ Leave(c)

\* The condition of WaitAndPop()'s loop.
MustWait == queue = << >> /\ ~shutdown

\* WaitAndPop(): from its call, and from every return of wait(), to the next wait()
\* or to its end.
Wait(c) ==
    /\ MustWait
    /\ pc' = [pc EXCEPT ![c] = "waiting"]
    /\ UNCHANGED <<queue, shutdown, pushed, taken, deleted>>

WaitAndPop(c) == pc[c] = "out" /\ (Wait(c) \/ (~MustWait /\ Leave(c)))
Resume(c) == pc[c] = "woken" /\ (Wait(c) \/ (~MustWait /\ Leave(c)))

\* A condition variable may wake a thread that nobody notified.
SpuriousWakeup(c) ==
    /\ pc[c] = "waiting"
    /\ pc' = [pc EXCEPT ![c] = "woken"]
    /\ UNCHANGED <<queue, shutdown, pushed, taken, deleted>>

Cancel ==
    /\ queue' = << >> /\ deleted' = deleted + Len(queue)
    /\ shutdown' = TRUE
    /\ NotifyAll
    /\ UNCHANGED <<pushed, taken>>

-----------------------------------------------------------------------------
Next ==
    \/ Push \/ Cancel
    \/ \E c \in Consumers : Pop(c) \/ WaitAndPop(c) \/ Resume(c) \/ SpuriousWakeup(c)

Spec == Init /\ [][Next]_vars

\* A woken thread gets the lock, which is only held over bounded sections; nobody
\* has to call anything, and wait() need not wake anyone by itself.
FairSpec == Spec /\ \A c \in Consumers : WF_vars(Resume(c))

-----------------------------------------------------------------------------
(***************************************************************************)
(* Properties                                                              *)
(***************************************************************************)

\* Push() notifies one thread, without a look at who waits or how many values are
\* there; between the notification and the moment the thread has the lock, others
\* pop, push and start to wait.  Still, while any thread waits, a woken thread is on
\* its way for every value, and none waits once Cancel() was called.
NoLostWakeup ==
    Waiting # {} => ~shutdown /\ Len(queue) <= Cardinality(Woken)

\* Values are handed out in the order they were pushed, each once, and every value
\* was handed out, deleted by Cancel() or is still there.
NothingLost ==
    /\ \A k \in 1 .. Len(taken) : taken[k] = k
    /\ \A k \in 1 .. Len(queue) : queue[k] = pushed - Len(queue) + k
    /\ Len(taken) + deleted + Len(queue) = pushed

\* No thread waits for ever beside a queue that has values, and after Cancel() every
\* call of WaitAndPop() returns.
WaiterIsServed ==
    \A c \in Consumers :
        /\ (pc[c] = "waiting" /\ queue # << >>) ~> (pc[c] # "waiting" \/ queue = << >>)
        /\ shutdown ~> (pc[c] = "out")
=============================================================================
