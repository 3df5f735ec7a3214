CONSTANTS
  Events = {1, 2, 3, 4}
  Initiators = {1, 2}
  Horizon = 3
  MaxActs = 3
SPECIFICATION Spec
INVARIANTS TypeOK WakesInTime NoneForgotten
PROPERTIES IsCalendar Answered
