SPECIFICATION FairSpec
CONSTANTS
  a1 = a1
  a2 = a2
  e1 = e1
  e2 = e2
  e3 = e3
  c1 = c1
  r1 = r1
  r2 = r2
  Apps = {a1, a2}
  Events = {e1, e2, e3}
  Correlations = {c1}
  Correlation <- CorrelationMC
  Runs = {r1, r2}
  AppOf <- AppOfMC
  Intents = {r2}
  MaxActive = 2
  MaxStarts = 3
  Overflow = Overflow
  None = None
INVARIANTS TypeOK LoadedIsOpen EventsInOrder
PROPERTY QueuedIsTaken
CHECK_DEADLOCK FALSE
