SPECIFICATION ReuseSpec
CONSTANTS
  a1 = a1
  a2 = a2
  r1 = r1
  r2 = r2
  u = u
  v = v
  cheap = cheap
  opus = opus
  NoEntry = NoEntry
  Requests = {r1, r2}
  Clients = {u, v}
  Turns = 2
  Fallback <- MCNoFallback
  Allowed = {opus}
  Failures = {{"model"}}
  MaxWaits = 0
  Accounts = {a1, a2}
  Models = {opus}
  FreeModels = {opus}
  ProCanaries = {opus}
  DroughtFree = {opus}
  TierRPM <- MCTierRPM
  Minute = 1
  Windows = {1}
  Percents = {0}
  DiskMayFail = FALSE
  MaxTime = 0
  MaxInflight = 2
  Cascades = {1, 2, 3, 4, 5, 6}
  Ports = {1}
  Capacity = 2
  TTL = 1
SYMMETRY Symmetry
PROPERTIES UsesConvPool 
