SPECIFICATION Spec
CONSTANTS
  IdModulus = 4
  Clients = {c, d}
  Periods <- MCPeriods
  MaxTime = 3
  MaxPosts = 2
  MaxStarts = 1
  MaxUpdates = 2
PROPERTIES DueWorksRun KillReturns
CHECK_DEADLOCK FALSE
