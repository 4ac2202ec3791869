SPECIFICATION FairSpec
CONSTANTS
  Emails = {"ann", "bob"}
  Passwords = {"p", "q"}
  MaxUsers = 2
  MaxChanges = 1
  Logins = {l1}
  NoRow = NoRow
  TTL = 1
  MaxSize = 1
INVARIANTS TypeOK LoginWasGranted StaleForOneLifetime CreatedIsFound
PROPERTY EventuallyCoherent
CHECK_DEADLOCK FALSE
