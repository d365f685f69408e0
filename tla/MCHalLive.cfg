SPECIFICATION FairHalSpec
CONSTANTS
  f1 = f1  f2 = f2  f3 = f3
  Flow = {f1, f2}
  TestKeys <- MCNoTestKeys
  Slot = {0}
  Candidates <- MCOneSlot
  NoFlow = NoFlow  NoThread = NoThread
  U32 = 2
  TtlInit = 1  TtlFloor = 1  TtlStep = 1  TtlBound = 1
  QueueMax = 2
  ConstEntries = 1
  EarlyTraffic = FALSE
PROPERTIES LearnAcknowledged AgingReturns DigestSettled
