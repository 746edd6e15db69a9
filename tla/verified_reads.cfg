SPECIFICATION Spec
CONSTANTS
  Absent = Absent
  NoInit = NoInit
  NoReader = NoReader
  Pending = Pending
  NumEndpoints = 2
  Values = {Absent, v}
  FirstValues = {Absent}
  Genesis = g
  MaxHeight = 3
  Readers = {r1, r2}
  MinValidators = 1
  MaxLag = 0
  MaxFaults = 1
SYMMETRY ReaderSymmetry
CHECK_DEADLOCK FALSE
INVARIANTS
  HonestProofMatches
  OneClient
PROPERTIES
  VerifiedValue
  RangeFollowsMajority
