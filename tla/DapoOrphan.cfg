SPECIFICATION ComponentsSpec
CONSTANTS
  Parts = {"dapo"}
  Timeout = 3
  MaxTime = 7
  Address = {1, 2, 3, 4, 5}
  MaxWeight = 3
  Instances = {a, b}
  Trajectories = {0, 1}
  PoolSize = 2
  Request = 1
  Draw = 2
  MaxRounds = 2
  MaxEvents = 2
  Nothing = Nothing
  Policies = {"forgetting", "summary", "attention", "recent", "masking", "window"}
  MaxSize = 6
  KeepFirst = 1
  MaxCalls = 2
  MaxRanked = 1
  MaxLength = 14
  MaxLines = 3
  MaxPieces = 2
  MaxKeys = 2
  x1 = x1
  x2 = x2
  Batch <- MCBatch
  Answers <- MCAnswers
  NumTrajectories = 2
  MaxStarting = 3
  TotalLen = 3
  UseErrorMask = TRUE
  MaxModelLen = 12
  MaxToolCalls = 2
  MaxReply = 2
  MaxReplies = 3
  Menus <- MCMenus
  MaxTurns = 7
SYMMETRY Symm
INVARIANT RoundAccounted
CHECK_DEADLOCK FALSE
