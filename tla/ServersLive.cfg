CONSTANTS
  c1 = c1
  c2 = c2
  Calls = {c1, c2}
  Ids = {c1, c2}
  IdOf <- MCIdOf
  Addresses = {a1}
  Slots = 1
  MaxStarts = 2
  MaxControl = 2
  Controls = {"status", "cancel", "add", "clear", "stop"}
  TimersFire = FALSE
  AckTimeouts = FALSE
  CrashAllowed = FALSE
  NoCall = NoCall
  NoWorker = NoWorker
  STOP = STOP
SPECIFICATION LiveSpec
CHECK_DEADLOCK FALSE
PROPERTIES EveryCallReturns AckMatches EveryRequestAnswered
