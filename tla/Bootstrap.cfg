SPECIFICATION Spec
CONSTANTS
  None = None
  DymHubs = {"dym"}
  CelesHubs = {"celes"}
  DymRollApps = {"rollapp"}
  GmRollApps = {"gm"}
  NumVals <- TwoCelesVals
  NumFull <- FullNodes
  RollUps <- AllRollUps
  Links <- HubLinks
  BuildArgs <- SeveralArgs
  MaxBuilds = 2
INVARIANTS
  TypeOK
  GenesisAgreement
  RollAppKnownToHub
  PhasesReady
PROPERTIES
  NothingRedone
CHECK_DEADLOCK FALSE
