SPECIFICATION Spec
CONSTANTS
  NoState = NoState
  Window = 2
  HoldTime = 2
  ClientWrites = {c1, c2}
  FileWrites = {}
  PrivacyWrites = {}
  CallerWrites = {}
  Registrations = {}
  MaxRetries = 0
  Resubmissions = {s1, s2}
  MaxForeign = 0
  Patience = 1
PROPERTIES
  NoOtherWriteTakesIt
