CONSTANTS
  Mains = {m1, m2}
  Execs = {e1}
  MaxWaits = 1
  MaxFaults = 2
  None = None
SPECIFICATION FairSpec
INVARIANTS
  LeadersHoldTheKey
  OneRunAtATime
PROPERTIES
  EventuallyOneLeader
  SuccessIsFinal
  EveryExecutionEnds
CHECK_DEADLOCK FALSE
