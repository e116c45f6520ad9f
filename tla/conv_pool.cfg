SPECIFICATION MCSpec
CONSTANTS
  Fingerprints = {f1, f2, f3}
  Cascades = {k1, k2, k3}
  Accounts = {a1}
  Ports = {p1, p2}
  Capacity = 2
  TTL = 1
  MaxTime = 3
  Keys = {k1, k2, k3}
  Callers = {c1, c2}
  MaxItems = 2
  CacheTTL = 1
  Stall = 1
  MaxDamage = 1
  CacheTime = 4
  Sessions = {1, 2, 3, 4}
  None = None
  MaxKept = 1
  MaxWait = 3
  IdleGrace = 1
  NoGrowthStall = 1
  ColdStall = 2
  Deadline = 2
  StallRetryMin = 2
  MaxTransient = 1
  MaxSteps = 2
  MaxText = 2
SYMMETRY IdsAlike
INVARIANTS Exclusive PartTypeOK IndexBacked NothingLeaks DeliveredOnce SaidOnce WholeAnswer
PROPERTIES NeverResumedStale EvictsOldest LivesItsTime PayloadFits FailureIsNoStall
