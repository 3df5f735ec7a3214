CONSTANTS
  Processors = {0, 1}
  Masters = {0, 1}
  NumSwIrqs = 1
  NumHwIrqs = 2
  MaxPriority = 3
  Cycle = 1
  HwLatency = 1
  SwLatency = 2
  Requests = {}
  Never = Never
  Corrupt = Corrupt
  MaxDepth = 4
  MaxActs = 1
  Setup <- SharedSetup
SPECIFICATION HandlerSpec
INVARIANTS
  LifoMatchesFrames
  NestingRaisesPriority
PROPERTY HighestIsServed
