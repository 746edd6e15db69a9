SPECIFICATION Spec
CONSTANTS
  NoState = NoState
  Window = 2
  HoldTime = 3
  ClientWrites = {c1}
  FileWrites = {}
  PrivacyWrites = {p1}
  CallerWrites = {}
  Registrations = {}
  MaxRetries = 2
  Resubmissions = {}
  MaxForeign = 1
  Patience = 2
INVARIANTS
  NoSharedNonce
  UnsettledKeepsNonce
  SeenIsUsed
  NonceInWindow
PROPERTIES
  SeenUsedStaysSeen
