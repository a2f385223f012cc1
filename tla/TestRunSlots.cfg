CONSTANTS
  Limit = 1
  TestRuns = {"t1", "t2", "t3"}
  AgentRuns = {}
  Size = 1
SPECIFICATION TurnSpec
INVARIANT EvictionFreesTheSlot
CHECK_DEADLOCK FALSE
