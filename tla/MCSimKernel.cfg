CONSTANTS
  m = m
  t = t
  u = u
  a = a
  b = b
  ma = ma
  ta = ta
  ua = ua
  Methods = {m}
  Threads = {t}
  Initialized = {t}
  Events = {a, b}
  time_out_event <- TimeOuts
  Static <- StaticSensitivity
  Calls <- PlainCalls
  Waits <- PlainWaits
  NoTime = NoTime
  None = None
  MaxActs = 3
SPECIFICATION Spec
CHECK_DEADLOCK FALSE
INVARIANTS TypeOK WaitingIsSensitive SensitiveIsWaiting QueuedOnce
PROPERTIES EndedWaitRuns TimesOut
