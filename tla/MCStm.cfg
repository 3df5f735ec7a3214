CONSTANTS
  Channels = {1, 2}
  RollOver = 4
  MaxTime = 4
  MaxCPS = 1
  Requests <- MCRequests
  MaxActs = 4
SPECIFICATION Spec
INVARIANTS TypeOK NoMatchIsPassed LineShowsFlag
PROPERTIES IsEagerTimer MatchesRecur
