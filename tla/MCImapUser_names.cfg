SPECIFICATION Spec
CONSTANTS
  Sessions = {s1, s2}
  Names = {"a", "b"}
  MaxBoxes = 2
  NoName = NoName
  TTL = 1
  MaxSize = 0
INVARIANTS TypeOK NameCacheAgrees SubscriptionsExact ChangesReachIdlers
SYMMETRY Symmetry
CHECK_DEADLOCK FALSE
