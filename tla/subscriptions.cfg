SPECIFICATION SubscriptionsSpec
CONSTANTS
  NoCache = NoCache
  NoFetch = NoFetch
  NoDid = NoDid
  NoTimer = NoTimer
  Infinity = Infinity
  IndexerDids = {1, 2}
  Callers = {a, b}
  Fetches = {f1, f2}
  CacheTtl = 1
  HttpTimeout = 1
  MaxChanges = 1
  MaxEvictions = 1
  MaxInvalidations = 1
  MaxFaults = 1
  IndexerSubs = {a, b}
  ValidatorSubs = {}
  NoReconnect = {b}
  MaxAttempts = 1
  MaxBackoff = 2
  DeadDids = {}
  MaxOutages = 1
  MaxDrops = 1
  MaxUnsubscribes = 1
SYMMETRY FetchSymmetry
INVARIANTS
  StaleBound
  OneFetchWakesAll
  OneConnection
  OverIsOver
