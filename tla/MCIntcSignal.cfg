CONSTANTS
  Processors = {0}
  Masters = {0}
  NumSwIrqs = 1
  NumHwIrqs = 1
  MaxPriority = 2
  Cycle = 1
  HwLatency = 1
  SwLatency = 2
  Requests <- SignalRequests
  Never = Never
  Corrupt = Corrupt
  MaxDepth = 2
  MaxActs = 1
SPECIFICATION Spec
PROPERTY Signalled
