CONSTANTS
  c1 = c1
  c2 = c2
  i1 = i1
  i2 = i2
  Calls = {c1, c2}
  Ids = {i1, i2}
  IdOf <- UniqueIds
  MaxStarts = 1
  Workers <- MCWorkers
  StageOf <- MCStageOf
  GenOf <- MCGenOf
  MaxWorkers <- MCMaxWorkers
  Rejected = {}
  Unmapped = {}
  Cancellable = {i1}
  StopAllowed = FALSE
  SleepSuffices = FALSE
  HandlerFaults = {"exception_func", "final_result"}
  NoCall = NoCall
  NoWorker = NoWorker
  STOP = STOP
SPECIFICATION SafeSpec
CHECK_DEADLOCK FALSE
INVARIANTS OneWorkerPerJob AnswerSound RunOnLiveRuntime  OneWorkerOnRestart
PROPERTY StageOnce
