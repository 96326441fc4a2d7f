SPECIFICATION ReportFairSpec
CONSTANTS
  t1 = t1
  t2 = t2
  Tests = {t1, t2}
  Uses <- MCUses
  k1 = k1
  k2 = k2
  Closers = {k1, k2}
  Cap = 2
INVARIANTS
  ReportComplete
PROPERTIES
  CloseEnds
CHECK_DEADLOCK FALSE
