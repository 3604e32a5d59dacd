SPECIFICATION Spec
CONSTANTS
  Subs = {s1}
  Tabs = {t1, t2}
  Worker = sw
  MaxAttempts = 2
  LastKey = 2
  Hazards = {}
SYMMETRY Symmetry
INVARIANT StoredOnce
CHECK_DEADLOCK FALSE
