SPECIFICATION Spec
CONSTANTS
    Mains = {m1, m2}
    Schedules = {"burst", "once"}
    Fires <- MCFires
    Cyclic = {"burst"}
    Window = 1
    Lookahead = 0
    Grace = 1
    MaxPerJob = 2
    PlanRetry = 2
    Backoff = 1
    MaxTime = 4
    MaxJobs = 2
    MaxProvisions = 2
    MaxAborts = 1
    MaxErrors = 1
    MaxReturns = 1
INVARIANTS Accounted CatchUpStandsAlone BacklogGoesOn
PROPERTY ClockMovesOn
CHECK_DEADLOCK FALSE
