SPECIFICATION Spec
CONSTANT
  MaxCount = 2
  Prompt = FALSE
INVARIANTS
  TypeOK
  KeepsListening
PROPERTIES
  ReportedOnce
  NoGaps
  ReportsItsLength
  EveryTransferHeard
