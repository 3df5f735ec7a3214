CONSTANTS
  Masters = {0, 2}
  NumGates = 2
  MaxGates = 3
  Requests = {}
  NO_PPC_WAIT = FALSE
  Resetters = {2}
  MaxResets = 1
SPECIFICATION DriverSpec
PROPERTIES
  ResetGateFrees
  ResetReturns
