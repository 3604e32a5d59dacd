SPECIFICATION CalmSpec
CONSTANTS
  Subs = {s1, s2}
  Ids = {i1, i2}
  Accounts = {a1}
  Nobody = nobody
  MaxAttempts = 1
  MaxItems = 2
  LastKey = 0
  Hazards = {"crash", "disk"}
SYMMETRY Symmetric
INVARIANTS TypeOK
PROPERTIES KeepsThePromise SentUnderItsOwner
CHECK_DEADLOCK FALSE
