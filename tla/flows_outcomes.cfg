SPECIFICATION Spec
CONSTANTS
  Sources = {s1}
  Kinds = {"client", "cloud", "deep"}
  Root <- OwnRoot
  Bindings = {b1, b2}
  Listens <- OnError
  Runners = {w1}
  MaxDepth = 1
  MaxAttempts = 2
  Hazards = {"crash", "sql"}
  None = None
SYMMETRY Symmetry
INVARIANTS DispatchedIsHandled EventTellsTheOutcome
CHECK_DEADLOCK FALSE
