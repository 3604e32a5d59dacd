----------------------------- MODULE MCFlowRuns -----------------------------
(* TLC's instances of FlowRuns: which tree an event's run belongs to, and  *)
(* what the bindings listen to.                                            *)
EXTENDS FlowRuns, TLC

(* Every event's run begins a tree of its own.                             *)
OwnRoot == [s \in Sources |-> s]

(* All runs are of one tree.                                               *)
OneRoot == [s \in Sources |-> CHOOSE r \in Sources : TRUE]

(* All bindings are for failures.                                          *)
OnError == [b \in Bindings |-> "error"]

Symmetry == Permutations(Runners) \cup Permutations(Bindings)
=============================================================================
