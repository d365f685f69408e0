SPECIFICATION HalSpec
CONSTANTS
  f1 = f1  f2 = f2  f3 = f3
  Flow = {f1, f2, f3}
  TestKeys <- MCNoTestKeys
  Slot = {0, 1}
  Candidates <- MCCandidates
  NoFlow = NoFlow  NoThread = NoThread
  U32 = 3
  TtlInit = 4  TtlFloor = 3  TtlStep = 2  TtlBound = 4
  QueueMax = 1
  ConstEntries = 1
  EarlyTraffic = TRUE
INVARIANT CountersDescribeTable
