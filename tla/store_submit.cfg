SPECIFICATION Spec
CONSTANTS
  Plain = {r1, r2}
  Envelopes = {}
  Deleters = {}
  Enablers = {e1, e2, e3}
  Repairers = {}
  Quota = 1
  HasScript = TRUE
  Hazards = {"crash", "cut", "mysql"}
  None = None
SYMMETRY Symmetry
INVARIANTS TypeOK RefusedIsNotStored ActedIsNotRetried AnsweredWithinQuota
PROPERTY PrivateForGood
CHECK_DEADLOCK FALSE
