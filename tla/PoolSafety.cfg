SPECIFICATION Spec
CONSTANTS
  Objects = {ctl, x, y, z}
  Clients = {c, d}
  Listeners <- MCListeners
  worker = worker
  control = ctl
  capacity = 2
  SerializeAlloc = TRUE
  AllowMove = TRUE
  MaxAllocations = 2
  MaxIdleCalls = 2
  MaxMessages = 2
  undefined_qid = 9
  nullptr = nullptr
SYMMETRY MCSymmetry
INVARIANTS TypeOK NoUseAfterFree PauseToken PollExclusive DeletedUnheard AddedInOrder OwnHandler
PROPERTIES IdleIsIdle ImplementsServedChannels
CHECK_DEADLOCK FALSE
