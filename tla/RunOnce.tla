------------------------------ MODULE RunOnce ------------------------------
(***************************************************************************)
(* What the flow service promises of every run: it is queued or started    *)
(* once, or refused; it runs once and ends once; and its subscribers are   *)
(* told at most once, of the outcome it has for good.  Runs live side by   *)
(* side and several may move in one step.                                  *)
(***************************************************************************)
CONSTANTS Runs, Outcomes

VARIABLES
  state,  \* state[r]: where the run is in its life
  told    \* told[r]: the outcome its subscribers are told of, or "none"

vars == <<state, told>>

Init ==
  /\ state = [r \in Runs |-> "none"]
  /\ told = [r \in Runs |-> "none"]

Lives(r) ==
  \/ state'[r] = state[r]
  \/ state[r] = "none" /\ state'[r] \in {"queued", "running", "error"}
  \/ state[r] = "queued" /\ state'[r] = "running"
  \/ state[r] = "running" /\ state'[r] \in Outcomes

Tells(r) ==
  \/ told'[r] = told[r]
  \/ told[r] = "none" /\ state'[r] \in Outcomes /\ told'[r] = state'[r]

Next == \A r \in Runs : Lives(r) /\ Tells(r)

Spec == Init /\ [][Next]_vars
=============================================================================
