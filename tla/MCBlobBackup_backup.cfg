SPECIFICATION FairSpec
CONSTANTS
  Keys = {k1}
  Writers = {w1, w2, w3}
  NoKey = NoKey
  MaxCrashes = 1
INVARIANTS RestoredIsWhole
PROPERTY BodyArrives
CHECK_DEADLOCK FALSE
