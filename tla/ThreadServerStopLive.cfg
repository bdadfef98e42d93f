CONSTANTS
  c1 = c1
  c2 = c2
  i1 = i1
  i2 = i2
  Calls = {c1}
  Ids = {i1, i2}
  IdOf <- UniqueIds
  MaxStarts = 1
  Workers <- MCWorkers
  StageOf <- MCStageOf
  GenOf <- MCGenOf
  MaxWorkers <- MCMaxWorkers
  Rejected = {}
  Unmapped = {}
  Cancellable = {}
  StopAllowed = TRUE
  SleepSuffices = TRUE
  HandlerFaults = {}
  NoCall = NoCall
  NoWorker = NoWorker
  STOP = STOP
SPECIFICATION FairSpec
CHECK_DEADLOCK FALSE
PROPERTY EveryCallReturns
