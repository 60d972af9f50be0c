SPECIFICATION Spec
CONSTANTS
  Qids <- MCQids
  Pointers <- MCPointers
INVARIANTS TypeOK ListAscending
PROPERTIES RecordsKept ImplementsReportedFlags
