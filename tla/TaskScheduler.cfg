\* Two tasks, one group, durations of none and one: everything a callable may do.
SPECIFICATION Spec
CONSTANTS
    Groups = {1}
    Durations = {0, 1}
    MaxTasks = 2
    MaxTicks = 2
    MaxCalls = 5
INVARIANTS
    SchedulerInv
    RunsAreScheduled
    CancelledIsFinal
CHECK_DEADLOCK FALSE
