SPECIFICATION Spec
CONSTANTS
  BufferSize = 6
  PacketSize = 2
  InternalBufferSize = 5
  Messages <- MCMessages
  Lengths = {1, 5, 6}
INVARIANTS
  DataInIsValid
