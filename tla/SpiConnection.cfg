CONSTANTS
  DisconnectTimeout = 5
  ClockWrap = 12
  LoopMillis = 2
SPECIFICATION FairSpec
INVARIANTS
  TypeOK
  GivenUpOnlyAfterSilence
PROPERTIES
  TransferConnects
  SilenceDisconnects
