---------------------------- MODULE ResponseBook ----------------------------
(***************************************************************************)
(* What a form promises those who answer it and its owner, as if it kept   *)
(* one book: a submission is told once what became of it; who is told      *)
(* "created" is in the book until the owner strikes it out; who is told    *)
(* anything else is not in it, and will not be; and what was struck out is *)
(* not written again.                                                      *)
(***************************************************************************)
CONSTANT Requests  \* submissions

VARIABLES
  kept,    \* the submissions the book holds
  erased,  \* the submissions the owner struck out
  told     \* told[r]: what the submission was told, or "none"

vars == <<kept, erased, told>>

Init ==
  /\ kept = {}
  /\ erased = {}
  /\ told = [r \in Requests |-> "none"]

Keep(r) ==
  /\ told[r] = "none"
  /\ r \notin kept \cup erased
  /\ kept' = kept \cup {r}
  /\ UNCHANGED <<erased, told>>

Confirm(r) ==
  /\ told[r] = "none"
  /\ r \in kept \cup erased
  /\ told' = [told EXCEPT ![r] = "created"]
  /\ UNCHANGED <<kept, erased>>

(* What the script kept out of the book was never in it.                   *)
TurnAway(r) ==
  /\ told[r] = "none"
  /\ \/ told' = [told EXCEPT ![r] = "opted_out"] /\ r \notin kept \cup erased
     \/ told' = [told EXCEPT ![r] = "script_ran"]
     \/ told' = [told EXCEPT ![r] = "refused"]
  /\ kept' = kept \ {r}
  /\ UNCHANGED erased

StrikeOut(S) ==
  /\ S \subseteq kept
  /\ kept' = kept \ S
  /\ erased' = erased \cup S
  /\ UNCHANGED told

Next ==
  \/ \E r \in Requests : Keep(r) \/ Confirm(r) \/ TurnAway(r)
  \/ \E S \in SUBSET kept : StrikeOut(S)

Spec == Init /\ [][Next]_vars
=============================================================================
