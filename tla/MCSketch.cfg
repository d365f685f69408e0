SPECIFICATION MCSpec
CONSTANTS
  Bucket = {0, 1}
  Fingerprint = {1, 2, 3}
  HIT_COUNT = 3
  CountMax = 5
  PktMax = 7
INVARIANTS SketchTypeOK FlagMeansFullRun
PROPERTY RefinesActiveFlow
