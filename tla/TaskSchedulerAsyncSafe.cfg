\* A callable added with Async() cancels everything.
SPECIFICATION Spec
CONSTANTS
    Groups = {1}
    Durations = {0, 1}
    MaxTasks = 2
    MaxTicks = 2
    MaxCalls = 4
INVARIANT
    AsyncMayModify
CHECK_DEADLOCK FALSE
