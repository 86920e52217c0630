CONSTANTS
  both = both
  k1 = k1
  k2 = k2
  Payload <- MCPayload
  InPacket <- MCInPacket
  PacketsOf <- MCPacketsOf
  OutPacket <- MCOutPacket
  FifoSize = 2
  MasterAsksBlindly = FALSE
SPECIFICATION Spec
INVARIANTS
  TypeOK
  SendNeverFails
  SendingMeansPending
PROPERTIES
  OnlyStaleStoreLosesInput
  ImplementsPipe
