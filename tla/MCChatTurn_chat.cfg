CONSTANTS
  MaxTurns = 3
  Symbols = {"s1"}
  Costs = {2}
  Cap = 2
  MaxPauses = 1
  MaxFaults = 1
  MaxCrashes = 1
  NoSession = NoSession
SPECIFICATION BoundedSpec
INVARIANTS AnswerNotShadowed StartedTurnsAreRecorded CheckedTurnsBounded SessionsContiguous NoReaderNoTurn
PROPERTY AnswersClose
CHECK_DEADLOCK FALSE
