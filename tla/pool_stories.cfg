SPECIFICATION StoriesSpec
CONSTANTS
  a1 = a1
  a2 = a2
  cheap = cheap
  opus = opus
  Accounts = {a1}
  Models = {opus}
  FreeModels = {opus}
  ProCanaries = {opus}
  DroughtFree = {opus}
  TierRPM <- MCTierRPM
  Minute = 1
  Windows = {1}
  Percents = {0}
  DiskMayFail = TRUE
  MaxTime = 3
  MaxInflight = 1
PROPERTIES RestartKeepsQuarantine MembershipDurable ManualTierSticks
