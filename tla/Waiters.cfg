SPECIFICATION FairSpec
CONSTANTS
  Main = main
  Others = {n1}
  Delta = 2
  BatchSize = 2
  Target = 3
  MaxHeight = 5
  MaxRounds = 2
  MaxFaults = 1
  None = None
INVARIANTS TypeOK PollComplete WaitTruthful
PROPERTY WaitersReturn
CHECK_DEADLOCK FALSE
