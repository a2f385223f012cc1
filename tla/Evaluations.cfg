CONSTANTS
  Limit = 2
  TestRuns = {"t1"}
  AgentRuns = {"a1"}
  Size = 2
SPECIFICATION FairSpec
INVARIANTS
  SlotsBalanced
  NoIdleSlot
PROPERTY Answered
CHECK_DEADLOCK FALSE
