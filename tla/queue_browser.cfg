SPECIFICATION FairSpec
CONSTANTS
  Subs = {s1}
  Tabs = {t1, t2}
  Worker = sw
  MaxAttempts = 2
  LastKey = 2
  Hazards = {"crash", "aged"}
INVARIANTS TypeOK StoredOnce
PROPERTIES KeepsThePromise QueueDrains
CHECK_DEADLOCK FALSE
