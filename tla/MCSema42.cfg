CONSTANTS
  Masters = {0, 1}
  NumGates = 2
  MaxGates = 3
  Requests <- MCRequests
SPECIFICATION Spec
INVARIANTS
  TypeOK
  WaitingHoldsKey
PROPERTIES
  KeepsLockPromise
  EveryAccessReturns
