SPECIFICATION Spec
CONSTANTS
  IdModulus = 3
  Clients = {c, d}
  Periods <- MCPeriods
  MaxTime = 2
  MaxPosts = 3
  MaxStarts = 2
  MaxUpdates = 1
SYMMETRY MCSymmetry
INVARIANTS TypeOK ClientIdsUnique StoppedIsEmpty WakesInTime WorkIdsUnique
PROPERTIES ImplementsSchedule
CHECK_DEADLOCK FALSE
