SPECIFICATION Spec
CONSTANTS
  c1 = c1
  c2 = c2
  me = me
  alice = alice
  bob = bob
  root = root
  home = home
  corp = corp
  Conns = {c1, c2}
  Clients = {me}
  Client <- OneClient
  Rcpts = {alice, bob, root}
  Domains = {home, corp}
  DomainOf <- TwoDomains
  Hostname = home
  NoRcpt = NoRcpt
  NoDomain = NoDomain
  Delay = 1
  MaxRecipients = 2
  MaxFaults = 1
SYMMETRY Swap
CONSTRAINT Bounds
INVARIANTS TypeOK SettledOnce NoRelay HonestReport
PROPERTIES GreylistWaits GreylistEnds
CHECK_DEADLOCK FALSE
