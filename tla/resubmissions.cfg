SPECIFICATION FairSpec
CONSTANTS
  NoState = NoState
  Window = 1
  HoldTime = 1
  ClientWrites = {}
  FileWrites = {}
  PrivacyWrites = {}
  CallerWrites = {a1}
  Registrations = {r1}
  MaxRetries = 1
  Resubmissions = {s1}
  MaxForeign = 0
  Patience = 0
INVARIANTS
  RefusedFirstPostIsGone
  NonceRefusalNeverHidesLanding
PROPERTIES
  CallsReturn
  WindowReopens
