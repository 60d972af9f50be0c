SPECIFICATION TestSpec
CONSTANTS
  IdModulus = 8
  Clients = {c}
  Periods <- MCPeriods
  MaxTime = 3
  MaxPosts = 2
  MaxStarts = 1
  MaxUpdates = 1
  MaxForwards = 1
PROPERTIES AllCancelled
CHECK_DEADLOCK FALSE
