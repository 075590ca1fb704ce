--------------------------- MODULE TaskScheduler ---------------------------
(***************************************************************************)
(* TaskScheduler and TaskContext: callables that run in Update(), at a     *)
(* time or at the next tick, and that may themselves schedule, repeat,     *)
(* delay, reschedule and cancel.                                           *)
(*                                                                         *)
(* One thread.  While no callable runs (pc = "idle") or inside one         *)
(* ("asyncRun", "taskRun"), the program may call any method; a callable is *)
(* the calls it makes before it returns.  Tasks are numbered in the order  *)
(* they are scheduled.  A TaskContext is a reference to its task that can  *)
(* be copied and kept, so it stays usable after its callable returned.     *)
(***************************************************************************)
EXTENDS Integers, Sequences, FiniteSets

CONSTANTS
    Groups,    \* the group ids in use
    Durations, \* the durations in use
    MaxTasks,  \* bound: tasks scheduled
    MaxTicks,  \* bound: calls of Update
    MaxCalls   \* bound: calls of the other methods

NoGroup == 0

ASSUME GroupsAssumption == Groups \subseteq Nat \ {NoGroup}
ASSUME DurationsAssumption == Durations \subseteq Nat
ASSUME TaskBounds == MaxTasks \in Nat /\ MaxTicks \in Nat /\ MaxCalls \in Nat

VARIABLES
    pc,        \* "idle", in Dispatch() before ("async", "task") or inside
               \* ("asyncRun", "taskRun") a callable, or "undefined" behaviour
    now,       \* _now
    clock,     \* the last reading of clock_t::now()
    valid,     \* what _predicate() returns
    alive,     \* FALSE once the scheduler is destroyed
    tasks,     \* the Task objects that were created
    holder,    \* _task_holder, the multiset in its order
    contexts,  \* the newest TaskContext of each task that was invoked
    asyncs,    \* how many callables _asyncHolder has
    tick,      \* number of calls of Update
    calls,     \* number of calls of the other methods
    runs,      \* history: how often each task was invoked
    cancelled  \* history: the tasks that a cancel removed from the holder

queueVars == <<tasks, holder, contexts, asyncs>>
histVars  == <<runs, cancelled>>
vars == <<pc, now, clock, valid, alive, queueVars, tick, calls, histVars>>

Task == [end : Nat, duration : Nat, group : Groups \cup {NoGroup}, repeated : Nat]

TypeOK ==
    /\ pc \in {"idle", "async", "asyncRun", "task", "taskRun", "undefined"}
    /\ now \in Nat /\ clock \in Nat /\ valid \in BOOLEAN /\ alive \in BOOLEAN
    /\ tasks \in Seq(Task) /\ Len(tasks) <= MaxTasks
    /\ holder \in Seq(DOMAIN tasks)
    /\ contexts \in [DOMAIN tasks -> {"none", "fresh", "consumed"}]
    /\ asyncs \in Nat
    /\ tick \in 0 .. MaxTicks /\ calls \in 0 .. MaxCalls
    /\ runs \in [DOMAIN tasks -> Nat] /\ cancelled \subseteq DOMAIN tasks

Init ==
    /\ pc = "idle" /\ now = 0 /\ clock = 0 /\ valid = TRUE /\ alive = TRUE
    /\ tasks = << >> /\ holder = << >> /\ contexts = << >> /\ asyncs = 0
    /\ tick = 0 /\ calls = 0
    /\ runs = << >> /\ cancelled = {}

-----------------------------------------------------------------------------
(***************************************************************************)
(* TaskQueue: a multiset of tasks ordered by _end.                         *)
(***************************************************************************)
Members(q) == {q[k] : k \in DOMAIN q}

\* Push(): in front of the first task that ends later.
Push(q, t, end) ==
    LET n == CHOOSE n \in 0 .. Len(q) :
                 /\ \A k \in 1 .. n : end[q[k]] <= end[t]
                 /\ n < Len(q) => end[q[n + 1]] > end[t]
    IN SubSeq(q, 1, n) \o <<t>> \o SubSeq(q, n + 1, Len(q))

RemoveIf(q, S) ==
    LET left[k \in 0 .. Len(q)] ==
            IF k = 0 THEN << >> ELSE IF q[k] \in S THEN left[k - 1] ELSE Append(left[k - 1], q[k])
    IN left[Len(q)]

\* Mutant of ModifyIf: the tasks are modified where they are.
ModifyInPlace(q, S, end) == q

\* ModifyIf(): the tasks in S, which the filter gave a new end, are taken out and
\* inserted again in their order.
ModifyIf(q, S, end) ==
    LET inserted[k \in 0 .. Len(q)] ==
            IF k = 0 THEN RemoveIf(q, S)
            ELSE IF q[k] \in S THEN Push(inserted[k - 1], q[k], end) ELSE inserted[k - 1]
    IN inserted[Len(q)]

Ends == [t \in DOMAIN tasks |-> tasks[t].end]
InGroup(g) == {t \in DOMAIN tasks : tasks[t].group = g}

-----------------------------------------------------------------------------
(***************************************************************************)
(* The methods, called from outside or from within a callable.             *)
(***************************************************************************)
Calling == pc \in {"idle", "asyncRun", "taskRun"} /\ calls < MaxCalls /\ calls' = calls + 1

\* TaskContext::Dispatch(): on a destroyed scheduler a context does nothing.
HasContext(t) == t \in DOMAIN tasks /\ contexts[t] # "none"

\* ScheduleAt() and InsertTask() of a new task.
ScheduleAt(base, d, g) ==
    LET t == Len(tasks) + 1
        new == [end |-> base + d, duration |-> d, group |-> g, repeated |-> 0]
    IN /\ t <= MaxTasks
       /\ tasks' = Append(tasks, new)
       /\ holder' = Push(holder, t, Append(Ends, base + d))
       /\ contexts' = Append(contexts, "none") /\ runs' = Append(runs, 0)
       /\ UNCHANGED <<pc, now, clock, valid, alive, asyncs, tick, cancelled>>

\* Schedule(), relative to the time of the last Update(); not for task callables.
Schedule(d, g) == Calling /\ alive /\ pc # "taskRun" /\ ScheduleAt(now, d, g)

\* TaskContext::Schedule(), relative to the end of the context's task.
ContextSchedule(t, d, g) ==
    Calling /\ alive /\ HasContext(t) /\ ScheduleAt(tasks[t].end, d, g)

\* Async(), of the scheduler or through a context.
Async ==
    /\ Calling /\ alive
    /\ asyncs' = asyncs + 1
    /\ UNCHANGED <<pc, now, clock, valid, alive, tasks, holder, contexts, tick, histVars>>

\* Mutant of Remaining: the filter matches nothing.
RemainingAll(S) == holder

\* What a cancel of the tasks S leaves in the holder.
Remaining(S) == RemoveIf(holder, S)

CancelAll ==
    /\ Calling /\ alive
    /\ holder' = << >> /\ asyncs' = 0
    /\ cancelled' = cancelled \cup Members(holder)
    /\ UNCHANGED <<pc, now, clock, valid, alive, tasks, contexts, tick, runs>>

\* CancelGroup() for one group, CancelGroupsOf() for several.
CancelGroupsOf(G) ==
    LET S == UNION {InGroup(g) : g \in G} IN
    /\ Calling /\ alive
    /\ holder' = Remaining(S)
    /\ cancelled' = cancelled \cup (Members(holder) \cap S)
    /\ UNCHANGED <<pc, now, clock, valid, alive, tasks, contexts, asyncs, tick, runs>>

Ending(task, end) ==
    [end |-> end, duration |-> task.duration, group |-> task.group, repeated |-> task.repeated]

\* Gives the tasks S, of those in the holder, new ends.
Modify(S, newEnd) ==
    LET M == Members(holder) \cap S
        changed == [t \in DOMAIN tasks |-> IF t \in M THEN Ending(tasks[t], newEnd[t]) ELSE tasks[t]]
    IN /\ Calling /\ alive
       /\ tasks' = changed
       /\ holder' = ModifyIf(holder, M, [t \in DOMAIN tasks |-> changed[t].end])
       /\ UNCHANGED <<pc, now, clock, valid, alive, contexts, asyncs, tick, histVars>>

Delayed(d)     == [t \in DOMAIN tasks |-> tasks[t].end + d]
Rescheduled(d) == [t \in DOMAIN tasks |-> now + d]

DelayAll(d) == Modify(DOMAIN tasks, Delayed(d))
DelayGroup(g, d) == Modify(InGroup(g), Delayed(d))
RescheduleAll(d) == Modify(DOMAIN tasks, Rescheduled(d))
RescheduleGroup(g, d) == Modify(InGroup(g), Rescheduled(d))

\* The methods of a TaskContext are the scheduler's: Dispatch() calls them if it lives.
\* (RescheduleAll() of a context does not compile when it is used.)
ContextCancels(t) ==
    HasContext(t) /\ (Async \/ CancelAll \/ \E G \in SUBSET Groups : CancelGroupsOf(G))
ContextDelays(t, d) ==
    HasContext(t) /\ (DelayAll(d) \/ \E g \in Groups : DelayGroup(g, d))
ContextReschedules(t, d) ==
    HasContext(t) /\ \E g \in Groups : RescheduleGroup(g, d)

\* Dispatch() of InsertTask(): nothing when the scheduler is gone.
Reinsert(t, end) == holder' = IF alive THEN Push(holder, t, end) ELSE holder

\* AssertOnConsumed() aborts on a second call.
AssertOnConsumed(t) == contexts[t] = "fresh"

\* Repeat(), once for each context.
Repeat(t, d) ==
    LET repeat == [end |-> tasks[t].end + d, duration |-> d, group |-> tasks[t].group,
                   repeated |-> tasks[t].repeated + 1] IN
    /\ Calling /\ HasContext(t) /\ AssertOnConsumed(t)
    /\ tasks' = [tasks EXCEPT ![t] = repeat]
    /\ contexts' = [contexts EXCEPT ![t] = "consumed"]
    /\ Reinsert(t, [Ends EXCEPT ![t] = repeat.end])
    /\ UNCHANGED <<pc, now, clock, valid, alive, asyncs, tick, histVars>>

\* SetGroup() and ClearGroup(): also while the task is in the holder.
SetGroup(t, g) ==
    /\ Calling /\ HasContext(t)
    /\ tasks' = [tasks EXCEPT ![t] = [end |-> tasks[t].end, duration |-> tasks[t].duration,
                                      group |-> g, repeated |-> tasks[t].repeated]]
    /\ UNCHANGED <<pc, now, clock, valid, alive, holder, contexts, asyncs, tick, histVars>>

\* What the validator returns changes, by itself or by SetValidator() and
\* ClearValidator().
SetValidator ==
    /\ Calling /\ alive
    /\ valid' = ~valid
    /\ UNCHANGED <<pc, now, clock, alive, queueVars, tick, histVars>>

\* The scheduler is destroyed by its owner, outside of Update().
Destroy ==
    /\ pc = "idle" /\ alive
    /\ alive' = FALSE /\ holder' = << >> /\ asyncs' = 0
    /\ UNCHANGED <<pc, now, clock, valid, tasks, contexts, tick, calls, histVars>>

-----------------------------------------------------------------------------
(***************************************************************************)
(* Update() and Dispatch()                                                 *)
(***************************************************************************)

\* Dispatch() starts, or ends at once when the validator says no.
StartDispatch == pc' = IF valid THEN "async" ELSE "idle"

Tick ==
    /\ pc = "idle" /\ alive /\ tick < MaxTicks
    /\ tick' = tick + 1
    /\ StartDispatch
    /\ UNCHANGED <<valid, alive, queueVars, calls, histVars>>

\* Update(difftime), which lets _now run ahead of the clock.
UpdateBy(d) == Tick /\ now' = now + d /\ UNCHANGED clock

\* Update(), d after the last reading of the clock; it may set _now back.
Update(d) == Tick /\ clock' = clock + d /\ now' = clock + d

\* The callable at the front runs; it is popped when it returns.
RunAsync ==
    /\ pc = "async" /\ asyncs # 0
    /\ pc' = "asyncRun"
    /\ UNCHANGED <<now, clock, valid, alive, queueVars, tick, calls, histVars>>

\* After each callable the validator is asked again.
AfterCallable(next) == IF valid THEN next ELSE "idle"

\* pop(): undefined on an empty queue, which CancelAll() in the callable leaves.
AsyncReturns ==
    /\ pc = "asyncRun"
    /\ IF asyncs = 0
          THEN pc' = "undefined" /\ UNCHANGED asyncs
          ELSE pc' = AfterCallable("async") /\ asyncs' = asyncs - 1
    /\ UNCHANGED <<now, clock, valid, alive, tasks, holder, contexts, tick, calls, histVars>>

AsyncsDone ==
    /\ pc = "async" /\ asyncs = 0
    /\ pc' = "task"
    /\ UNCHANGED <<now, clock, valid, alive, queueVars, tick, calls, histVars>>

First == Head(holder)
Due == holder # << >> /\ tasks[First].end <= now

\* Mutant of Pop: the task is only looked at (First()).
PopKeeps == holder' = holder /\ contexts' = [contexts EXCEPT ![Head(holder)] = "fresh"]

\* Pop() and the TaskContext built from its result.
Pop == holder' = Tail(holder) /\ contexts' = [contexts EXCEPT ![Head(holder)] = "fresh"]

Invoke ==
    /\ pc = "task" /\ Due
    /\ Pop
    /\ runs' = [runs EXCEPT ![Head(holder)] = @ + 1]
    /\ pc' = "taskRun"
    /\ UNCHANGED <<now, clock, valid, alive, tasks, asyncs, tick, calls, cancelled>>

TaskReturns ==
    /\ pc = "taskRun"
    /\ pc' = AfterCallable("task")
    /\ UNCHANGED <<now, clock, valid, alive, queueVars, tick, calls, histVars>>

\* No task is due: callback(), whose calls are those of an idle scheduler.
Finish ==
    /\ pc = "task" /\ ~Due
    /\ pc' = "idle"
    /\ UNCHANGED <<now, clock, valid, alive, queueVars, tick, calls, histVars>>

-----------------------------------------------------------------------------
Methods ==
    \/ Async \/ CancelAll \/ SetValidator
    \/ \E d \in Durations :
        \/ \E g \in Groups \cup {NoGroup} :
            Schedule(d, g) \/ \E t \in DOMAIN tasks : ContextSchedule(t, d, g)
        \/ \E t \in DOMAIN tasks :
            Repeat(t, d) \/ ContextDelays(t, d) \/ ContextReschedules(t, d)
        \/ DelayAll(d) \/ RescheduleAll(d)
        \/ \E g \in Groups : DelayGroup(g, d) \/ RescheduleGroup(g, d)
    \/ \E G \in SUBSET Groups : CancelGroupsOf(G)
    \/ \E t \in DOMAIN tasks :
        ContextCancels(t) \/ \E g \in Groups \cup {NoGroup} : SetGroup(t, g)

Dispatch ==
    RunAsync \/ AsyncReturns \/ AsyncsDone \/ Invoke \/ TaskReturns \/ Finish

Next ==
    \/ Methods \/ Dispatch \/ Destroy
    \/ \E d \in Durations : UpdateBy(d) \/ Update(d)

Spec == Init /\ [][Next]_vars

-----------------------------------------------------------------------------
(***************************************************************************)
(* Properties                                                              *)
(***************************************************************************)

\* Tasks are shared objects and their ends change while they are in the multiset
\* (Repeat, Delay, Reschedule): it stays ordered all the same, which First() and
\* every insertion rely on.
Ordered ==
    \A k \in 1 .. Len(holder) - 1 : tasks[holder[k]].end <= tasks[holder[k + 1]].end

\* The multiset is in order, and every variable has its type.
SchedulerInv == TypeOK /\ Ordered

Waiting(t) == Cardinality({k \in DOMAIN holder : holder[k] = t})

\* Every Schedule() and every Repeat() of a live scheduler is one invocation, had or
\* awaited, unless it was cancelled: whatever is delayed, rescheduled, moved to
\* another group or cancelled from wherever, no task is lost and none runs twice.
RunsAreScheduled ==
    alive => \A t \in DOMAIN tasks :
        runs[t] + Waiting(t) + (IF t \in cancelled THEN 1 ELSE 0) = tasks[t].repeated + 1

\* A task that was cancelled while it waited is not invoked any more: no context
\* can bring it back.
CancelledIsFinal == \A t \in cancelled : t \notin Members(holder) /\ contexts[t] # "fresh"

\* "Its safe to modify the TaskScheduler from within the callable."
AsyncMayModify == pc # "undefined"
=============================================================================
