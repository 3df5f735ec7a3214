CONSTANTS
  Masters = {0, 1, 2}
  NumGates = 2
  MaxGates = 3
  Requests = {}
  NO_PPC_WAIT = TRUE
  Resetters = {}
  MaxResets = 0
SPECIFICATION LockSpec
INVARIANT MutualExclusion
PROPERTY GateIsGranted
