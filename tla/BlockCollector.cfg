SPECIFICATION FairSpec
CONSTANTS
  None = None
  Chains = {"hub"}
  Heights = {1, 2, 3}
  Txs <- SomeTxs
  MaxFaults = 1
INVARIANTS
  TypeOK
  NoGaps
  SavedOnce
PROPERTIES
  NeverLost
  CollectorsProgress
CHECK_DEADLOCK FALSE
