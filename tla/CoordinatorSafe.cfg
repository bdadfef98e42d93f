SPECIFICATION Spec
CONSTANTS
  Calls = {c1, c2}
  Ids = {c1, c2}
  IdOf <- MCIdOf
  Addresses = {a1}
  Slots = 1
  MaxStarts = 2
  MaxControl = 2
  Controls = {"add", "clear", "stop", "status", "cancel"}
  TimersFire = TRUE
  AckTimeouts = TRUE
  CrashAllowed = TRUE
  NoCall = NoCall
  STOP = STOP
CHECK_DEADLOCK FALSE
SYMMETRY Symm
CONSTRAINTS QueriesLast OneCrash
INVARIANTS NoGhostFuture WaiterReachable SuccessIsEarned AddressesAgree
