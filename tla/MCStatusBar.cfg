SPECIFICATION PartsSpec
CONSTANTS
  Kinds = {"action", "drain", "transfer", "report", "poll"}
  MaxClaims = 2
  MaxGen = 1
  MaxNews = 2
  LineKinds = {"edge", "record"}
  Times = {1, 2}
  Buffer = 1
  PausedBuffer = 2
  Height = 1
  MaxPushed = 3
  MaxKeys = 2
  Procs = {p1, p2}
  Nobody = nobody
  MaxDirs = 2
  Secrets = {tls, token}
  NoSecret = nosecret
  Values = {v1, v2}
  Unpinned = unpinned
  MaxRequests = 2
  MaxWrites = 2
CHECK_DEADLOCK FALSE
INVARIANTS NewestConfirms PlaintextAccounted
PROPERTIES OutcomesSeen LinesStay NothingUnseenOverwritten
