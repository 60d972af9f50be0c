SPECIFICATION Spec
CONSTANTS
  IdModulus = 4
  Clients = {c}
  Periods <- MCPeriods
  MaxTime = 3
  MaxPosts = 1
  MaxStarts = 1
  MaxUpdates = 0
PROPERTIES NextFromNow
CHECK_DEADLOCK FALSE
