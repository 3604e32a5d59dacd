SPECIFICATION FairSpec
CONSTANTS
  Requests = {r1, r2, r3}
  FormKeys = {}
  AppKeys = {k1}
  Payloads = {p1, p2}
  Hazards = {"crash"}
  None = None
INVARIANTS OneStoredPerKey OnePipelinePerKey ScriptActsOncePerKey
PROPERTIES SubmitsOnce EveryCopyIsAnswered
CHECK_DEADLOCK FALSE
