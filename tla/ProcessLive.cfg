CONSTANTS
  c1 = c1
  c2 = c2
  Calls = {c1, c2}
  MaxWorkers <- MCMaxWorkers
  Rejected = {}
  Cancellable = {c1}
  CrashAt = {}
  OpenAtStop = {}
  RegistersFirst = TRUE
  ExitsFirst = TRUE
  Free = Free
  STOP = STOP
SPECIFICATION FairSpec
CHECK_DEADLOCK FALSE
PROPERTY EveryCallReturns
