SPECIFICATION Spec
CONSTANTS
  Objects = {ctl, x, y}
  Clients = {c, d}
  Listeners <- MCListeners
  worker = worker
  control = ctl
  capacity = 2
  SerializeAlloc = TRUE
  AllowMove = FALSE
  MaxAllocations = 1
  MaxIdleCalls = 2
  MaxMessages = 2
  undefined_qid = 9
  nullptr = nullptr
PROPERTIES CallsReturn AllHandled
CHECK_DEADLOCK FALSE
