SPECIFICATION Spec
CONSTANTS
  Objects = {a, b}
  Listeners = {l}
  Threads = {t1, t2}
  Qids <- MCQids
  undefined_qid = 9
  nullptr = nullptr
  MaxMessages = 2
SYMMETRY MCSymmetry
INVARIANTS TypeOK UniqueQid NothingLost DataReported
PROPERTIES DepartureReported ImplementsChannels
CHECK_DEADLOCK FALSE
