SPECIFICATION Spec
CONSTANTS
  ValA = ValA
  ValB = ValB
  ValC = ValC
  NumEndpoints = 1
  Values = {v}
  Genesis = g
  MaxHeight = 3
  MinValidators = 1
  Callers = {c1, c2}
  ValidatorSets <- MCValidatorSets
  Drift = 0
  SyncEvery = 1
  TrustNum = 1
  TrustDen = 2
  SignBytesMatch = TRUE
  Through = "storage"
  MaxTrusts = 2
  MaxFaults = 1
  MaxCrashes = 1
  MaxChanges = 1
SYMMETRY CallerSymmetry
CHECK_DEADLOCK FALSE
INVARIANTS
  ChainedToTrust
PROPERTIES
  SyncedIsHeld
  ImportRestores
  LeftBehind
