SPECIFICATION FairSpec
CONSTANTS
  None = None
  c1 = c1
  c2 = c2
  Callers = {c1, c2}
  KindsOf <- MCKindsOf
  Names = {n1}
  MaxContainers <- MCMaxContainers
  MaxRuns = 3
  KeepContainers = {2}
  KeepVolumesOnFailure = TRUE
INVARIANTS
  TypeOK
  JobOutcome
PROPERTIES
  CleanSlate
  JobsReturn
CHECK_DEADLOCK FALSE
