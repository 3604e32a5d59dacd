SPECIFICATION Spec
CONSTANTS
  Plain = {r1, r2}
  Envelopes = {}
  Deleters = {d1}
  Enablers = {e1, e2}
  Repairers = {}
  Quota = 0
  HasScript = FALSE
  Hazards = {"cut", "mysql"}
  None = None
SYMMETRY Symmetry
INVARIANTS CreatedIsMirrored PrivateFormHoldsNoPlaintext EnabledIsPrivate
PROPERTY KeepsTheBook
CHECK_DEADLOCK FALSE
