SPECIFICATION Spec
CONSTANTS
  HalfPages = 1
  Values = {v1, v2, v3}
  Delay = 2
  MaxCuts = 2
INVARIANTS
  TypeOK
  NeverMixed
  CommitKept
PROPERTIES
  FlushesSpaced
  CommitReachesFlash
