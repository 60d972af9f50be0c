SPECIFICATION Spec
CONSTANTS
  a = a
  b = b
  c = c
  Objects = {a, b, c}
  Listeners = {l}
  QidOf <- MCQidOf
  Ranges <- Both
  Waits <- AllWaits
  undefined_qid = 9
  nullptr = nullptr
  MaxMoves = 1
  MaxMessages = 3
  MaxTime = 2
INVARIANTS TypeOK BlockedOnlyWhenQuiet NoDanglingListener ReportedQueueHasData
PROPERTIES NothingOnlyAfterTime AllConsumed TimedPollReturns
CHECK_DEADLOCK FALSE
