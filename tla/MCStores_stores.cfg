CONSTANTS
  x1 = x1 x2 = x2 x3 = x3 s1 = s1 i1 = i1 i2 = i2 i3 = i3 i4 = i4 u1 = u1 c1 = c1 c2 = c2
  Tabs = {x1, x2, x3}
  MaxSaves = 4
  NoLayout = NoLayout
  Posts = {x1, x2, x3}
  Setups = {s1}
  EntryPrices = {199, 200}
  Window = 1
  Tolerance = 5
  Undated = Undated
  Nothing = Nothing
  MaxClock = 2
  MaxSignals = 3
  SampleSize = 2
  Rows <- EvaluatedRows
  MaxRows = 3
  NoId = NoId
  Names = {x1, x2, x3}
  Quantities = {1, 2}
  Levels = {90, 100}
  Stops = {91, 99}
  NoStop = NoStop
  NoHolding = NoHolding
  NoOrderYet = NoOrderYet
  Capital = 500
  MaxPositions = 2
  MaxRiskPct = 3
  MaxLossPct = 3
  AssumedPct = 5
  DayLength = 2
  SessionOpen = 1
  MaxTime = 2
  MaxFills = 3
  Adds = {x1, x2, x3}
  Items = {i1, i2, i3, i4}
  MaxItems = 2
  NoAdd = NoAdd
  Users = {u1}
  Checks = {c1, c2}
  Caps = {0, 2}
  DefaultCap = 1
  NoOverride = NoOverride
  NoCheck = NoCheck
  Unread = Unread
  Failed = Failed
  TurnCosts = {0, 1}
  MaxTurns = 2
  MaxDay = 1
  Streams <- AgentStreams
  MaxEvents = 2
SPECIFICATION StoresSpec
SYMMETRY StoresSymmetry
INVARIANTS StoresTypeOK SavesReplaceWhatTheyShow RestatementsOverlap AnnouncedOnce ReportIsTrue WatchlistBounded GateAgreesWithAdmin FramesSurviveCuts
PROPERTIES GateKeepsLimits
CHECK_DEADLOCK FALSE
