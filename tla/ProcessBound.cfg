CONSTANTS
  c2 = c2
  c1 = c1
  Calls = {c1, c2}
  MaxWorkers <- MCMaxWorkers
  Rejected = {}
  Cancellable = {c1}
  CrashAt = {}
  OpenAtStop = {}
  RegistersFirst = TRUE
  ExitsFirst = TRUE
  Free = Free
  STOP = STOP
SPECIFICATION Spec
CHECK_DEADLOCK FALSE
INVARIANT StageBound
