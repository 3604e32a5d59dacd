---------------------------- MODULE MCNativeQueue ----------------------------
(* TLC's instances of NativeQueue.                                         *)
EXTENDS NativeQueue, TLC

Symmetric == Permutations(Subs) \cup Permutations(Ids)
=============================================================================
