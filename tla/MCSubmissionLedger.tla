------------------------- MODULE MCSubmissionLedger -------------------------
(* TLC's instance of SubmissionLedger: requests and payloads are           *)
(* interchangeable, so their permutations are a symmetry.                  *)
EXTENDS SubmissionLedger, TLC

(* Every request is a copy of one submission.  No action reads another     *)
(* key's row, so requests of different keys only multiply the states.      *)
OneKeyInit == Init /\ \A r, s \in Requests : Key(r) = Key(s)
OneKeySpec == OneKeyInit /\ [][Next]_vars

Symmetry == Permutations(Requests) \cup Permutations(Payloads)
=============================================================================
