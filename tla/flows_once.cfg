SPECIFICATION FairSpec
CONSTANTS
  Sources = {s1}
  Kinds = {"client", "deep"}
  Root <- OwnRoot
  Bindings = {b1}
  Listens <- OnError
  Runners = {w1, w2}
  MaxDepth = 1
  MaxAttempts = 2
  Hazards = {"crash", "slow", "sql"}
  None = None
INVARIANTS TypeOK ExecutedOnce
PROPERTIES RunsOnce EveryRunEnds EveryOutcomeIsSettled
CHECK_DEADLOCK FALSE
