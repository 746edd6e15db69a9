SPECIFICATION Spec
CONSTANTS
  NoExp = NoExp
  Precision = 3
  MinPower <- MCMinPower
  MaxPower = 1
  IntMax = 90
  IntMin <- MCIntMin
  ExpMax = 1
  Over = 2
  Under <- MCUnder
  RoundingDigits = 4
  MaxDigits = 2
  Dot = 0
  High = {4}
  Low = {5}
  MaxUnit = 6
  Logical = {}
  MaxFilterFields = 1
  MaxFieldLength = 3
  MaxFilterValueLength = 4
  MaxCount = 9
  DefaultLimit = 2
  Strings = {"p", "s"}
  PrivateTokens = {"p"}
  Literals = {"1"}
  BadTokens = {"bad"}
  Space = " "
  MaxNesting = 2
  DomainTag <- MCDomainTag
  MaxByte = 9
  AddressLen = 1
  TopicLen = 1
  Nibbles = {0, 1}
  ValueV = ValueV
  ValueW = ValueW
  ShortValue = ShortValue
  Short = {ShortValue}
  Applied <- MCApplied
  NoRoot = NoRoot
  Root0 = Root0
  Root1 = Root1
  Root2 = Root2
  Sentences <- MCSentences
  Alphabetical <- MCAlphabetical
  Unit = 6
  StringTokens <- MCStringTokens
  Decoded <- MCDecoded
  IllFormed = {"lone"}
  U32Tokens = {"1"}
  AtomTokens = {"1.0", "null"}
  Blank = " "
  FieldTypes = {"string"}
  NamesInOrder <- MCNamesInOrder
  Absent = Absent
  Deepest = 6
  Alphabet <- MCAlphabet
  Width <- MCWidth
  MaxSafe = 7
  DidUnits = {"a", "b"}
  MaxDid = 4
  MaxId = 3
  DigestLength = 1
CHECK_DEADLOCK FALSE
INVARIANTS
  ReadsTheNearestDouble
  EqualByValue
  ReadsAsWritten
  AcceptedIsTheSelection
  HonestAnswersPass
  ProvenIsSo
  CompleteIsAll
  ProvenIsInTheTrie
  TransformedIsReached
  SchemaIsTheChains
  SignedIsOneWrite
