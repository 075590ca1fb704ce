---------------------------- MODULE LockedQueue ----------------------------
(***************************************************************************)
(* PCQueue beside the lock-free queues: its definitions under the name     *)
(* Locked, and place for its pc, so that a module can speak of both kinds. *)
(***************************************************************************)
EXTENDS Integers, Sequences, FiniteSets

CONSTANTS Consumers, MaxPushes

ASSUME ConsumersAssumption == IsFiniteSet(Consumers)
ASSUME PushBound == MaxPushes \in Nat

VARIABLES queue, shutdown, place, pushed, taken, deleted

lockedVars == <<queue, shutdown, place, pushed, taken, deleted>>

Locked == INSTANCE PCQueue WITH pc <- place

LockedSpec == Locked!Spec
LockedFairSpec == Locked!FairSpec

-----------------------------------------------------------------------------
\* The variables of ProducerConsumerQueue have their types.
LockedTypes == Locked!TypeOK

\* While a thread waits, a woken one is on its way for every value in the queue, and
\* none waits after Cancel(), though Push() notifies one thread without a look.
NoLostWakeup == Locked!NoLostWakeup

\* Values are handed out in the order of Push(), each once, and every value was handed
\* out, deleted by Cancel() or is still there.
NothingLost == Locked!NothingLost

\* No thread waits for ever in WaitAndPop() beside values, or after Cancel().
WaiterIsServed == Locked!WaiterIsServed
=============================================================================
