SPECIFICATION FairSpec
CONSTANTS
  None = None
  Configs <- SomeChains
  MaxOps = 4
  Clients = {"collector"}
INVARIANTS
  TypeOK
  NoQueryDuringRestart
  QueryHasClient
PROPERTIES
  NodesStart
  AllReturn
CHECK_DEADLOCK FALSE
