SPECIFICATION Spec
CONSTANTS
  Objects = {ctl, x}
  Clients = {c}
  Listeners <- MCListeners
  worker = worker
  control = ctl
  capacity = 1
  SerializeAlloc = TRUE
  AllowMove = FALSE
  MaxAllocations = 2
  MaxIdleCalls = 1
  MaxMessages = 1
  undefined_qid = 9
  nullptr = nullptr
INVARIANTS SlotFound
CHECK_DEADLOCK FALSE
