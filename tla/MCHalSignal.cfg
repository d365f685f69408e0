SPECIFICATION SigSpec
CONSTANTS
  f1 = f1
  Flow = {f1}
  TestKeys <- MCTestKeys
  Slot = {0}
  Candidates <- MCCandidates
  NoFlow = NoFlow  NoThread = NoThread
  U32 = 2
  TtlInit = 1  TtlFloor = 1  TtlStep = 1  TtlBound = 1
  QueueMax = 1
  ConstEntries = 1
  EarlyTraffic = FALSE
PROPERTY SignalEndsProcess
CHECK_DEADLOCK FALSE
