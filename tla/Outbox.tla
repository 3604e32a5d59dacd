------------------------------- MODULE Outbox -------------------------------
(***************************************************************************)
(* What a device promises a person whose submission it keeps because the   *)
(* server could not be reached: it stays on the device until the server    *)
(* has stored it or the person, or the retention period, lets it go; one   *)
(* that was let go does not come back; and the server stores it once.      *)
(***************************************************************************)
EXTENDS Naturals

CONSTANT Subs  \* submissions

VARIABLES
  held,     \* the submissions the device keeps
  stored,   \* stored[s]: how many records the server has of s
  dropped   \* the submissions that were let go

vars == <<held, stored, dropped>>

Init ==
  /\ held = {}
  /\ stored = [s \in Subs |-> 0]
  /\ dropped = {}

Take(s) ==
  /\ s \notin held \cup dropped
  /\ held' = held \cup {s}
  /\ UNCHANGED <<stored, dropped>>

Store(s) ==
  /\ stored[s] = 0
  /\ stored' = [stored EXCEPT ![s] = 1]
  /\ UNCHANGED <<held, dropped>>

Release(S) ==
  /\ S \subseteq held
  /\ \A s \in S : stored[s] = 1
  /\ held' = held \ S
  /\ UNCHANGED <<stored, dropped>>

Drop(S) ==
  /\ S \subseteq held
  /\ held' = held \ S
  /\ dropped' = dropped \cup S
  /\ UNCHANGED stored

Next ==
  \/ \E s \in Subs : Take(s) \/ Store(s)
  \/ \E S \in SUBSET held : Release(S) \/ Drop(S)

Spec == Init /\ [][Next]_vars
=============================================================================
