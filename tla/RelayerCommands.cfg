SPECIFICATION Spec
CONSTANTS
  None = None
  c1 = c1
  c2 = c2
  r1 = r1
  r2 = r2
  Callers = {c1, c2}
  Dsts = {r1, r2}
  CallsOf <- MCCallsOf
  MaxCalls <- MCMaxCalls
  MaxMade = 3
INVARIANTS
  TypeOK
  WalletSigns
  TransferChannelFound
CHECK_DEADLOCK FALSE
