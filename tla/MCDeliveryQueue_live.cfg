SPECIFICATION FairSpec
CONSTANTS
  i1 = i1  i2 = i2  w1 = w1  w2 = w2  b1 = b1  b2 = b2
  NoItem = NoItem
  Items <- Items2
  Workers <- Workers2
  Blobs = {b1, b2}
  BlobOf <- OwnBlob
  Origin <- OriginNdr
  MaxRetries = 1
  Delays <- Delays1
  MaxLag = 1
  MaxMX = 2
  UseRelay = FALSE
  Backend = "fs"
  LateErrors = TRUE
  DbFaults = FALSE
  MaxCrashes = 0
INVARIANTS ExhaustedIsBounced ReferencedBlobExists
PROPERTY EventuallyLeaves
CHECK_DEADLOCK FALSE
