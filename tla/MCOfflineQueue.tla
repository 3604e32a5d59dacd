--------------------------- MODULE MCOfflineQueue ---------------------------
(* TLC's instances of OfflineQueue, and what it refutes of two tabs.       *)
EXTENDS OfflineQueue, TLC

Symmetry == Permutations(Tabs)

(* Only the person sends a failed submission again (runPass: "Terminal     *)
(* ('failed') items are skipped: only the person sends one again").        *)
FailedIsForThePerson ==
  [][\A s \in Subs :
       row[s].status = "failed" /\ row'[s].status = "pending" => Retry(s)]_vars

(* What the person discarded is not sent any more (discardSubmission: the  *)
(* service worker's copy "goes too").                                      *)
DiscardedIsNotSent ==
  [][\A c \in Clients :
       call[c] = Idle /\ call'[c].at = "sent" => call'[c].sub \notin gone]_vars
=============================================================================
