SPECIFICATION TestSpec
CONSTANTS
  IdModulus = 8
  Clients = {c}
  Periods <- MCPeriods
  MaxTime = 3
  MaxPosts = 2
  MaxStarts = 1
  MaxUpdates = 1
  MaxForwards = 2
INVARIANTS ForwardToken NoDueWorkAsleep
PROPERTIES CompletedWhenDone ForwardReturns
CHECK_DEADLOCK FALSE
