SPECIFICATION FairRouting
CONSTANTS
  NoCache = NoCache
  NoFetch = NoFetch
  NoDid = NoDid
  NoTimer = NoTimer
  Infinity = Infinity
  IndexerDids = {1, 2}
  Callers = {a, p, q}
  Fetches = {f1}
  CacheTtl = 3
  HttpTimeout = 1
  MaxChanges = 0
  MaxEvictions = 0
  MaxInvalidations = 0
  MaxFaults = 0
  IndexerSubs = {a}
  ValidatorSubs = {v}
  NoReconnect = {}
  MaxAttempts = Infinity
  MaxBackoff = 3
  DeadDids = {1}
  MaxOutages = 0
  MaxDrops = 1
  MaxUnsubscribes = 0
  IndexerQueries = {p}
  AutoQueries = {q}
PROPERTIES
  QueriesAreServed
