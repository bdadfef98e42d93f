SPECIFICATION Spec
CONSTANTS
  Calls = {c1, c2}
  Ids = {c1, c2}
  IdOf <- MCIdOf
  Addresses = {a1}
  Slots = 1
  MaxStarts = 1
  MaxControl = 2
  Controls = {"status", "stop"}
  TimersFire = TRUE
  AckTimeouts = FALSE
  CrashAllowed = FALSE
  NoCall = NoCall
  STOP = STOP
CHECK_DEADLOCK FALSE
PROPERTY AckMatches
