----------------------------- MODULE SubmitOnce -----------------------------
(***************************************************************************)
(* What the submission ledger promises the clients of one form: a          *)
(* submission key is given one response, once, and every client that is    *)
(* told of a response for that key is told of the same one.                *)
(***************************************************************************)
CONSTANTS Requests, Keys, None

VARIABLES
  key,     \* key[r]: the submission a request is a copy of
  result,  \* result[k]: the response the key was given, or None
  told     \* told[r]: the response the client was told of, or None

vars == <<key, result, told>>

Init ==
  /\ key \in [Requests -> Keys]
  /\ result = [k \in Keys |-> None]
  /\ told = [r \in Requests |-> None]

(* A copy's own response becomes the key's, and its client hears of it.    *)
Give(r) ==
  /\ told[r] = None
  /\ result[key[r]] = None
  /\ result' = [result EXCEPT ![key[r]] = r]
  /\ told' = [told EXCEPT ![r] = r]
  /\ UNCHANGED key

(* Another copy's client hears of the response the key already has.        *)
Tell(r) ==
  /\ told[r] = None
  /\ result[key[r]] # None
  /\ told' = [told EXCEPT ![r] = result[key[r]]]
  /\ UNCHANGED <<key, result>>

Next == \E r \in Requests : Give(r) \/ Tell(r)

Spec == Init /\ [][Next]_vars
=============================================================================
