SPECIFICATION FairLimiterSpec
CONSTANTS
  Addresses = {a1, a2}
  Unit = 3
  Burst = 2
  PerTick = 2
  IdleTicks = 5
INVARIANTS RateBound
PROPERTY NeverStarved
