SPECIFICATION FairSpec
CONSTANTS
  i1 = i1  i2 = i2  w1 = w1  w2 = w2  b1 = b1  b2 = b2
  NoItem = NoItem
  Items <- Items1
  Workers <- Workers1
  Blobs = {b1}
  BlobOf <- SharedBlob
  Origin <- OriginSmtp
  MaxRetries = 1
  Delays <- Delays1
  MaxLag = 1
  MaxMX = 1
  UseRelay = FALSE
  Backend = "sqlite"
  LateErrors = FALSE
  DbFaults = FALSE
  MaxCrashes = 1
PROPERTY EventuallyLeaves
CHECK_DEADLOCK FALSE
