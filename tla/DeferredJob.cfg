SPECIFICATION Spec
CONSTANTS
    Mains = {m1}
    Schedules = {"burst"}
    Fires <- MCFires
    Cyclic = {"burst"}
    Window = 1
    Lookahead = 0
    Grace = 1
    MaxPerJob = 2
    PlanRetry = 3
    Backoff = 1
    MaxTime = 5
    MaxJobs = 1
    MaxProvisions = 1
    MaxAborts = 0
    MaxErrors = 1
    MaxReturns = 0
INVARIANT OnSchedule
CHECK_DEADLOCK FALSE
