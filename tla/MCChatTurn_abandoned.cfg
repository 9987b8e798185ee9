CONSTANTS
  MaxTurns = 2
  Symbols = {"s1"}
  Costs = {2}
  Cap = 2
  MaxPauses = 0
  MaxFaults = 0
  MaxCrashes = 0
  NoSession = NoSession
SPECIFICATION Spec
INVARIANT AbandonedTurnLeavesRecord
CHECK_DEADLOCK FALSE
