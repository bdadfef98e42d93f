CONSTANTS
  c1 = c1
  c2 = c2
  c3 = c3
  Calls = {c1, c2, c3}
  MaxWorkers <- MCMaxWorkers
  Rejected = {c3}
  Cancellable = {}
  CrashAt = {"step", "release", "result"}
  OpenAtStop = {0, 1}
  RegistersFirst = FALSE
  ExitsFirst = FALSE
  Free = Free
  STOP = STOP
SPECIFICATION Spec
SYMMETRY Symm
CHECK_DEADLOCK FALSE
INVARIANTS TypeOK PermitsConserved NoStrayProcess ProcessAnswerSound
