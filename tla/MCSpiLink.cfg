CONSTANTS
  d1 = d1
  d2 = d2
  Payload <- MCPayload
SPECIFICATION FairSpec
INVARIANTS
  TypeOK
  InputDmaSafe
  OutputDmaSafe
  GoAheadHonoured
  NothingStranded
  OutputAnnounced
PROPERTIES
  ImplementsChannel
  BusyLineIsWorkedOff
