CONSTANTS
  Masters = {1, 2}
  Codes = 4
  UnlockKeys <- MCUnlockKeys
  FixedKeys <- MCFixedKeys
  MaxCount = 3
  MinLoad = 1
  MaxTime = 2
  ResetCR <- OnLocked
  ResetTO = 2
  Never = Never
  Requests <- MCRequests
  MaxActs = 1
SPECIFICATION Spec
INVARIANTS TypeOK  BitesInTime
PROPERTIES  LockHolds TimeGoesOn
