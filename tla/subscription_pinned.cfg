SPECIFICATION FairSubscriptions
CONSTANTS
  NoCache = NoCache
  NoFetch = NoFetch
  NoDid = NoDid
  NoTimer = NoTimer
  Infinity = Infinity
  IndexerDids = {1, 2}
  Callers = {a}
  Fetches = {f1}
  CacheTtl = 4
  HttpTimeout = 1
  MaxChanges = 0
  MaxEvictions = 0
  MaxInvalidations = 0
  MaxFaults = 0
  IndexerSubs = {a}
  ValidatorSubs = {}
  NoReconnect = {}
  MaxAttempts = Infinity
  MaxBackoff = 4
  DeadDids = {1}
  MaxOutages = 0
  MaxDrops = 0
  MaxUnsubscribes = 0
PROPERTIES
  GetsThrough
