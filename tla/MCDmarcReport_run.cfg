SPECIFICATION FairSpec
CONSTANTS
  r1 = r1  r2 = r2  r3 = r3  r4 = r4  d1 = d1  d2 = d2  d3 = d3  u1 = u1  u2 = u2
  NoDomain = NoDomain
  Results = {r1, r2, r3, r4}
  Domains = {d1, d2, d3}
  DomainOf <- Owner
  Rua <- Published
  Broken = {d3}
  MaxFaults = 2
INVARIANTS ReportedOnce UnreportedHasCause
PROPERTY EventuallySent
CHECK_DEADLOCK FALSE
