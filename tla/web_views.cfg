SPECIFICATION MCSpec
CONSTANTS
  Nothing = Nothing
  MaxCalls = 2
  Accounts = {"a"}
  Tiers = {"pro", "free"}
  Listed = 2
  MaxHistory = 1
  Ids = {"i"}
  Ranges = {1, 2}
  MaxHour = 1
  Models = {"m"}
  Providers = {"x"}
  MaxAttempts = 3
  Cap = 2
  MaxEntries = 5
  RingCap = 3
  MaxBuffer = 3
  Replay = 2
  Backlog = 1
INVARIANTS TypeOK  NothingBuried ReadsTrue
PROPERTIES PolledViewsCatchUp SpinnersEnd 
CHECK_DEADLOCK FALSE
