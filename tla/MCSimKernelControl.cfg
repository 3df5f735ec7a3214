CONSTANTS
  m = m
  t = t
  u = u
  a = a
  b = b
  ma = ma
  ta = ta
  ua = ua
  Methods = {m}
  Threads = {t, u}
  Initialized = {m, t, u}
  Events = {a, b}
  time_out_event <- TimeOuts
  Static <- StaticSensitivity
  Calls <- ControlCalls
  Waits <- ControlWaits
  NoTime = NoTime
  None = None
  MaxActs = 2
SPECIFICATION Spec
CHECK_DEADLOCK FALSE
INVARIANTS PendingIsQueued 
