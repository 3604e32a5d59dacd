SPECIFICATION FairSpec
CONSTANTS
  Subs = {s1}
  Ids = {i1, i2}
  Accounts = {a1}
  Nobody = nobody
  MaxAttempts = 2
  MaxItems = 2
  LastKey = 1
  Hazards = {"crash", "disk", "aged"}
PROPERTY QueueDrains
CHECK_DEADLOCK FALSE
