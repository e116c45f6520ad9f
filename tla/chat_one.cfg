SPECIFICATION FairSpec
CONSTANTS
  a1 = a1
  a2 = a2
  r1 = r1
  r2 = r2
  u = u
  v = v
  cheap = cheap
  opus = opus
  NoEntry = NoEntry
  Requests = {r1}
  Clients = {u}
  Turns = 2
  Fallback <- MCFallback
  Allowed = {opus, cheap}
  Failures <- MCFailures
  MaxWaits = 1
  Accounts = {a1, a2}
  Models = {cheap, opus}
  FreeModels = {cheap}
  ProCanaries = {opus}
  DroughtFree = {cheap}
  TierRPM <- MCTierRPM
  Minute = 1
  Windows = {1}
  Percents = {0, 3}
  DiskMayFail = FALSE
  MaxTime = 1
  MaxInflight = 1
  Cascades = {1, 2, 3, 4, 5, 6}
  Ports = {1}
  Capacity = 2
  TTL = 1
INVARIANTS TypeOK OneVoice
PROPERTIES EveryRequestEnds
