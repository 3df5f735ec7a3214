CONSTANTS
  m = m
  t = t
  u = u
  a = a
  b = b
  ma = ma
  ta = ta
  ua = ua
  Methods = {}
  Threads = {t, u}
  Initialized = {t, u}
  Events = {a, b}
  time_out_event <- TimeOuts
  Static <- StaticSensitivity
  Calls <- PauseCalls
  Waits <- PauseWaits
  NoTime = NoTime
  None = None
  MaxActs = 2
SPECIFICATION Spec
CHECK_DEADLOCK FALSE
PROPERTIES EndedWaitRuns
