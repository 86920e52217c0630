CONSTANTS
  both = both
  k1 = k1
  k2 = k2
  Payload <- MCPayload
  InPacket <- MCInPacket
  PacketsOf <- MCPacketsOf
  OutPacket <- MCOutPacket
  FifoSize = 1
  MasterAsksBlindly = FALSE
SPECIFICATION FairSpec
PROPERTIES
  AnnouncedInputIsRead
