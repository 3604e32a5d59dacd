SPECIFICATION FairSpec
CONSTANTS
  Plain = {}
  Envelopes = {r1, r2}
  Deleters = {d1}
  Enablers = {}
  Repairers = {p1}
  Quota = 1
  HasScript = FALSE
  Hazards = {"crash", "mysql", "sqlite"}
  None = None
INVARIANTS CreatedIsStored AnsweredWithinQuota
PROPERTY DriftEnds
CHECK_DEADLOCK FALSE
