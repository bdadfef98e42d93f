SPECIFICATION ProgressSpec
CONSTANTS
  Parts = {"training", "dispatcher", "agent"}
  EpochLen = 2
  Epochs = 3
  TotalSteps = 6
  SaveFreq = 4
  Warmup = 3
  MaxCrashes = 2
  m1 = m1
  m2 = m2
  w1 = w1
  w2 = w2
  s1 = s1
  s2 = s2
  NoTask = NoTask
  Messages <- MCMessages
  Workers <- MCWorkers
  ServerOf <- MCServerOf
  Outcomes = {"cmd", "think", "ask", "finish", "malformed", "rate_limited", "null"}
  MaxIter = 2
CONSTRAINT Undisturbed
INVARIANTS TypesOK Aligned TrackedIsComplete OvershootBounded MessageConserved WorkerConserved AttemptsBounded EventsInOrder CommandsAnswered
PROPERTIES TrainingEnds CallReturns RunEnds
CHECK_DEADLOCK FALSE
