CONSTANTS
  Processors = {0}
  Masters = {1}
  NumSwIrqs = 1
  NumHwIrqs = 2
  MaxPriority = 2
  Cycle = 1
  HwLatency = 1
  SwLatency = 2
  Requests <- SoftwareRequests
  Never = Never
  Corrupt = Corrupt
  MaxDepth = 2
  MaxActs = 2
SPECIFICATION Spec
INVARIANTS
  TypeOK
  TreeIsSound
  NoMissedSelection
  NoMissedOutput
