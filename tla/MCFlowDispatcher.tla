-------------------------- MODULE MCFlowDispatcher --------------------------
(* TLC's instance of FlowDispatcher: which event is about what, and which  *)
(* run belongs to which app.                                               *)
EXTENDS FlowDispatcher, TLC
CONSTANTS a1, a2, e1, e2, e3, c1, r1, r2
CorrelationMC == (e1 :> c1) @@ (e2 :> c1) @@ (e3 :> None)
AppOfMC == (r1 :> a1) @@ (r2 :> a1)
=============================================================================
