SPECIFICATION FairSpec
CONSTANTS
  MaxContainers = 2
  Amounts = {1, 2}
  MaxTransfers = 2
INVARIANTS
  TypeOK
  RunningIsOwned
  ReleasedIsReported
  SuccessIsDelivery
PROPERTIES
  KeepsPromise
CHECK_DEADLOCK FALSE
