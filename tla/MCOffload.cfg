SPECIFICATION OffloadSpec
CONSTANTS
  f1 = f1  f2 = f2
  Flow = {f1, f2}
  TestKeys <- MCTestKeys
  Slot = {0}
  Candidates <- MCCandidates
  NoFlow = NoFlow  NoThread = NoThread
  U32 = 2
  TtlInit = 1  TtlFloor = 1  TtlStep = 1  TtlBound = 1
  QueueMax = 1
  ConstEntries = 1
  EarlyTraffic = FALSE
  Bucket = {0, 1}
  Fingerprint = {1, 2}
  HIT_COUNT = 2
  CountMax = 3
  PktMax = 1
  Crc16 <- MCCrc16
  Hash1 <- MCHash1
  Cuckoo <- MCCuckoo
  HashMask = 2
  HASH_BUCKET = 2
  Traffic <- MCTraffic
INVARIANTS OffloadTypeOK
PROPERTIES RefinesHal HitTouchesOwnBucket
