SPECIFICATION Spec
CONSTANTS
  NoAnswer = NoAnswer
  ByteBits = 2
  ByteSize = 4
  BaseBytes = 2
  MapBytes = 2
  WordBits = 5
  MaxSafe = 11
  HoldMs = 2
  MaxClock = 2
  Reports <- MCReports
  Nonces <- MCNonces
PROPERTIES
  ImplementsAllocator
