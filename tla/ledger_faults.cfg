SPECIFICATION OneKeySpec
CONSTANTS
  Requests = {r1, r2, r3}
  FormKeys = {k1}
  AppKeys = {k2}
  Payloads = {p1, p2}
  Hazards = {"slow", "ledger", "expiry", "enabling", "links"}
  None = None
SYMMETRY Symmetry
INVARIANTS TypeOK CompletedByItsLease ReplayNamesAnAcceptedTwin
PROPERTY RowOutlivesOthers
CHECK_DEADLOCK FALSE
