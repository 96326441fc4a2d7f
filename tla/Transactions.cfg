SPECIFICATION FairSpec
CONSTANTS
  c1 = c1
  c2 = c2
  k1 = k1
  None = None
  Callers = {c1, c2}
  Keys = {k1}
  KeyOf <- MCKeyOf
  OpsOf <- MCOpsOf
  Calls <- MCCalls
  MaxLag = 2
  MaxTries = 2
  MaxFaults = 1
INVARIANTS TypeOK SequenceFresh AnswersTruthful
PROPERTY CallsReturn
CHECK_DEADLOCK FALSE
