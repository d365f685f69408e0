SPECIFICATION HalSpec
CONSTANTS
  f1 = f1  f2 = f2  f3 = f3
  Flow = {f1, f2, f3}
  TestKeys <- MCTestKeys
  Slot = {0, 1}
  Candidates <- MCCandidates
  NoFlow = NoFlow  NoThread = NoThread
  U32 = 3
  TtlInit = 3  TtlFloor = 2  TtlStep = 1  TtlBound = 3
  QueueMax = 1
  ConstEntries = 1
  EarlyTraffic = FALSE
INVARIANTS HalTypeOK BufferIsCallers CountsConserved CountersDescribeTable EntryCarriesIndex
PROPERTY ShortenOnlyWhenFull
SYMMETRY Symm
