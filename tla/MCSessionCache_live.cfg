SPECIFICATION FairSpec
CONSTANTS
  Tokens = {t1, t2}
  Requests = {r1, r2}
  NoToken = NoToken
  Expiry = 1
  TTL = 2
  MaxSize = 1
INVARIANTS CacheBounded
PROPERTIES AcceptedInTime RevocationTakesEffect
