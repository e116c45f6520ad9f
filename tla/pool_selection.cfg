SPECIFICATION SelectionSpec
CONSTANTS
  a1 = a1
  a2 = a2
  cheap = cheap
  opus = opus
  Accounts <- MCAccounts
  Models = {opus}
  FreeModels = {}
  ProCanaries = {opus}
  DroughtFree = {}
  TierRPM <- MCTierRPM
  Minute = 1
  Windows = {1}
  Percents = {0}
  DiskMayFail = FALSE
  MaxTime = 2
  MaxInflight = 1
SYMMETRY Symmetry
INVARIANTS RefusalExplained 
 
