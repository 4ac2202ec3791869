SPECIFICATION Spec
CONSTANTS
  i1 = i1  i2 = i2  w1 = w1  w2 = w2  b1 = b1  b2 = b2
  NoItem = NoItem
  Items <- Items2
  Workers <- Workers2
  Blobs = {b1}
  BlobOf <- SharedBlob
  Origin <- OriginSmtp
  MaxRetries = 1
  Delays <- Delays1
  MaxLag = 1
  MaxMX = 1
  UseRelay = TRUE
  Backend = "sqlite"
  LateErrors = FALSE
  DbFaults = TRUE
  MaxCrashes = 1
INVARIANTS ExclusiveClaim NothingVanishes AtMostOnce HonestBounce ReferencedBlobExists
PROPERTY ImplementsLeaseQueue
CHECK_DEADLOCK FALSE
