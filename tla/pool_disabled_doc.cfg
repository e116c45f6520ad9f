SPECIFICATION DurableSpec
CONSTANTS
  a1 = a1
  a2 = a2
  cheap = cheap
  opus = opus
  Accounts = {a1}
  Models <- MCModels
  FreeModels = {cheap}
  ProCanaries = {opus}
  DroughtFree = {cheap}
  TierRPM <- MCTierRPM
  Minute = 1
  Windows = {1}
  Percents = {0}
  DiskMayFail = FALSE
  MaxTime = 6
  MaxInflight = 1
PROPERTIES DisabledStaysOut
