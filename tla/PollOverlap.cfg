SPECIFICATION Spec
CONSTANTS
  a = a
  b = b
  c = c
  Objects = {a, b}
  Listeners = {l, k}
  QidOf <- MCQidOf
  Ranges <- Both
  Waits <- Infinite
  undefined_qid = 9
  nullptr = nullptr
  MaxMoves = 0
  MaxMessages = 2
  MaxTime = 1
INVARIANTS EachQueueSet
CHECK_DEADLOCK FALSE
