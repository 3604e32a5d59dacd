----------------------- MODULE ResponsePrivacyProofs -----------------------
(***************************************************************************)
(* Theorems about making a form private (FormEncryptionService), for any   *)
(* number of owners who try at the same time and any number of submissions *)
(* and deletions around them.  RowHeldHolds is free of assumptions.  The   *)
(* other two rest on one: no process dies half way.  A dead enabler leaves *)
(* a marker that two others can each take over, one of them removing the   *)
(* marker the other has just set, and then neither holds.                  *)
(***************************************************************************)
EXTENDS ResponseStoreProofs

NoCrash == "crash" \notin Hazards

-----------------------------------------------------------------------------
(* One owner at a time.                                                    *)

(* The steps between the commit of the marker and the end of the attempt.  *)
UnderWay == {"lockRow", "preflight", "activate", "abort"}

(* Without a crash no marker grows stale, so nobody takes one over.        *)
NeverRetaken ==
  /\ enc # "stale"
  /\ \A e \in Enablers : pc[e] \notin {"retake", "again"}

(* The marker stands for exactly one owner's attempt.                      *)
MarkerHasOwner == enc = "enabling" => \E e \in Enablers : pc[e] \in UnderWay
OwnerHasMarker == \A e \in Enablers : pc[e] \in UnderWay => enc = "enabling"
OneOwner == \A e, f \in Enablers : pc[e] \in UnderWay /\ pc[f] \in UnderWay => e = f

EnableInv ==
  TypeInv /\ NeverRetaken /\ MarkerHasOwner /\ OwnerHasMarker /\ OneOwner /\ EnabledIsPrivate

(* Nobody has begun.                                                       *)
LEMMA EnableInit == Init => EnableInv
<1> SUFFICES ASSUME Init PROVE EnableInv
  OBVIOUS
<1>1. \A e \in Enablers : pc[e] = "begin"
  BY ActorsAssumption DEF Init, Actors
<1>2. enc \in {"none", "active"} /\ enabled = {}
  BY DEF Init
<1> QED BY <1>1, <1>2, TypeInit
        DEF EnableInv, NeverRetaken, MarkerHasOwner, OwnerHasMarker, OneOwner,
            EnabledIsPrivate, UnderWay

(* An owner's step, by where it takes the attempt: to its start, on, or to *)
(* its end.                                                                *)
EnablerMove(e) ==
  \/ /\ enc = "none" /\ enc' = "enabling" /\ enabled' = enabled
     /\ pc[e] = "begin" /\ pc'[e] = "lockRow"
  \/ /\ enc' = enc /\ enabled' = enabled
     /\ pc[e] = "begin" /\ pc'[e] = "done"
  \/ /\ enc' = enc /\ enabled' = enabled
     /\ pc[e] \in UnderWay /\ pc'[e] \in UnderWay
  \/ /\ pc[e] = "activate" /\ pc'[e] = "done"
     /\ enc' = "active"
  \/ /\ pc[e] = "abort" /\ pc'[e] = "done"
     /\ enc' = "none" /\ enabled' = enabled

(* Which of them a step is.                                                *)
LEMMA EnablerMoves ==
  ASSUME EnableInv, NEW e \in Enablers, Enable(e)
  PROVE  /\ EnablerMove(e)
         /\ \A a \in Actors : a # e => pc'[a] = pc[a]
<1>t. TypeOK /\ e \in Actors
  BY DEF EnableInv, TypeInv, Actors
<1>m. pc[e] \in UnderWay => enc = "enabling"
  BY DEF EnableInv, OwnerHasMarker
<1>r. enc # "stale" /\ pc[e] \notin {"retake", "again"}
  BY DEF EnableInv, NeverRetaken
<1> USE DEF EnablerMove, Goto, UnderWay, Enabling
<1>1. \A a \in Actors : a # e => pc'[a] = pc[a]
  BY <1>t DEF Enable, Begin, Retake, BeginAgain, LockRow, Preflight, Activate, Abort, TypeOK
<1>2. CASE Begin(e)
  BY <1>t, <1>r, <1>2 DEF Begin, Retakable, TypeOK, EncStates
<1>3. CASE Retake(e) \/ BeginAgain(e)
  BY <1>r, <1>3 DEF Retake, BeginAgain
<1>4. CASE LockRow(e)
  BY <1>t, <1>4 DEF LockRow, TypeOK
<1>5. CASE Preflight(e)
  BY <1>t, <1>5 DEF Preflight, otherVars, encVars, TypeOK
<1>6. CASE Activate(e)
  BY <1>t, <1>m, <1>6 DEF Activate, TypeOK
<1>7. CASE Abort(e)
  BY <1>t, <1>m, <1>7 DEF Abort, WithoutMarker, TypeOK
<1> QED BY <1>1, <1>2, <1>3, <1>4, <1>5, <1>6, <1>7 DEF Enable

(* An owner's step keeps the marker and the attempts in step.              *)
LEMMA EnableKeeps ==
  ASSUME EnableInv, NEW e \in Enablers, Enable(e)
  PROVE  (NeverRetaken /\ MarkerHasOwner /\ OwnerHasMarker /\ OneOwner /\ EnabledIsPrivate)'
<1>1. EnablerMove(e) /\ \A f \in Enablers : f # e => pc'[f] = pc[f]
  BY EnablerMoves DEF Actors
<1>2. enc # "stale" /\ \A f \in Enablers : pc[f] \notin {"retake", "again"}
  BY DEF EnableInv, NeverRetaken
<1>3. \A f \in Enablers : pc[e] \in UnderWay /\ f # e => pc[f] \notin UnderWay
  BY DEF EnableInv, OneOwner
<1>4. \A f \in Enablers : pc[f] \in UnderWay => enc = "enabling"
  BY DEF EnableInv, OwnerHasMarker
<1>5. enc = "enabling" => \E f \in Enablers : pc[f] \in UnderWay
  BY DEF EnableInv, MarkerHasOwner
<1>6. enabled # {} => enc = "active"
  BY DEF EnableInv, EnabledIsPrivate
<1>7. NeverRetaken'
  BY <1>1, <1>2 DEF EnablerMove, NeverRetaken, UnderWay
<1>8. OwnerHasMarker'
  BY <1>1, <1>3, <1>4 DEF EnablerMove, OwnerHasMarker, UnderWay
<1>9. OneOwner'
  <2>1. \A f \in Enablers : pc'[e] \in UnderWay /\ f # e => pc'[f] \notin UnderWay
    BY <1>1, <1>3, <1>4 DEF EnablerMove, UnderWay
  <2>2. \A f, g \in Enablers : f # e /\ g # e /\ pc'[f] \in UnderWay /\ pc'[g] \in UnderWay => f = g
    BY <1>1 DEF EnableInv, OneOwner
  <2> QED BY <2>1, <2>2 DEF OneOwner
<1>10. MarkerHasOwner'
  BY <1>1, <1>5 DEF EnablerMove, MarkerHasOwner, UnderWay
<1>11. EnabledIsPrivate'
  BY <1>1, <1>4, <1>6 DEF EnablerMove, EnabledIsPrivate, UnderWay
<1> QED BY <1>7, <1>8, <1>9, <1>10, <1>11

(* The others neither set nor remove a marker, nor take the forms row, and  *)
(* leave every owner where it is.                                          *)
LEMMA OthersLeaveMarker ==
  ASSUME TypeInv,
         \/ \E r \in Requests : Submit(r) \/ Cut(r)
         \/ \E d \in Deleters : Delete(d)
         \/ \E p \in Repairers : Repair(p)
         \/ UNCHANGED vars
  PROVE  /\ enc' = enc /\ enabled' = enabled /\ formRow' = formRow
         /\ \A e \in Enablers : pc'[e] = pc[e] /\ seen'[e] = seen[e]
<1>t. /\ TypeOK
      /\ \A e \in Enablers : e \in Actors /\ e \notin Requests \cup Deleters \cup Repairers
      /\ Requests \cup Deleters \cup Repairers \subseteq Actors
  BY ActorsAssumption DEF TypeInv, Actors
<1> DEFINE Goal == /\ enc' = enc /\ enabled' = enabled /\ formRow' = formRow
                   /\ \A e \in Enablers : pc'[e] = pc[e] /\ seen'[e] = seen[e]
<1> USE DEF otherVars, encVars, Goto, Answer
<1>1. ASSUME NEW r \in Requests, Submit(r) PROVE Goal
  BY <1>t, <1>1 DEF Submit, Screen, Gate, HoldQuota, Script, Commit, Mirror, Undo, Recount,
                    Publish, TypeOK
<1>2. ASSUME NEW r \in Requests, Cut(r) PROVE Goal
  BY <1>2 DEF Cut
<1>3. ASSUME NEW d \in Deleters, Delete(d) PROVE Goal
  BY <1>t, <1>3 DEF Delete, DeleteOne, ListAll, Wipe, Unmirror, Recount, Publish, TypeOK
<1>4. ASSUME NEW p \in Repairers, Repair(p) PROVE Goal
  BY <1>t, <1>4 DEF Repair, Compare, Decide, ReadRows, ReadMetaIds, InsertMissing,
                    PruneOrphans, Report, Resync, TypeOK
<1>5. CASE UNCHANGED vars
  BY <1>5 DEF vars
<1> QED BY <1>1, <1>2, <1>3, <1>4, <1>5

(* Nor does time, while every marker has an owner at work.                 *)
LEMMA NothingGrowsStale == EnableInv => ~GrowStale
  BY DEF EnableInv, MarkerHasOwner, GrowStale, UnderWay

(* Every step preserves the invariant.                                     *)
LEMMA EnableNext ==
  ASSUME NoCrash
  PROVE  EnableInv /\ [Next]_vars => EnableInv'
<1> SUFFICES ASSUME EnableInv, [Next]_vars
             PROVE  (NeverRetaken /\ MarkerHasOwner /\ OwnerHasMarker /\ OneOwner
                       /\ EnabledIsPrivate)'
  BY TypeNext DEF EnableInv
<1>1. ASSUME enc' = enc, enabled' = enabled, \A e \in Enablers : pc'[e] = pc[e]
      PROVE  (NeverRetaken /\ MarkerHasOwner /\ OwnerHasMarker /\ OneOwner
                /\ EnabledIsPrivate)'
  BY <1>1 DEF EnableInv, NeverRetaken, MarkerHasOwner, OwnerHasMarker, OneOwner,
              EnabledIsPrivate
<1>2. \A a \in Actors : ~Crash(a)
  BY DEF NoCrash, Crash
<1> QED BY <1>1, <1>2, EnableKeeps, OthersLeaveMarker, NothingGrowsStale DEF Next, EnableInv

(* An owner who was told the form is private now has a private form, for   *)
(* good: no other attempt undoes it, and no cleanup of one.                *)
THEOREM EnabledIsPrivateHolds ==
  ASSUME NoCrash
  PROVE  Spec => []EnabledIsPrivate
<1>1. EnableInv => EnabledIsPrivate
  BY DEF EnableInv
<1>2. EnableInv /\ [Next]_vars => EnableInv'
  BY EnableNext
<1> QED BY EnableInit, <1>1, <1>2, PTL DEF Spec

-----------------------------------------------------------------------------
(* The forms row, whatever goes wrong.                                     *)

(* An owner works on the form, from its snapshot to its commit, only with  *)
(* the forms row; and the row is with nobody who has finished or died.     *)
RowHeld ==
  /\ \A e \in Enablers : pc[e] \in {"preflight", "activate"} => formRow = e
  /\ formRow # None => /\ formRow \in Enablers
                       /\ pc[formRow] \in {"preflight", "activate", "abort"}

RowInv == TypeInv /\ RowHeld

(* An owner's step takes the row only when it is free and gives up only    *)
(* its own.                                                                *)
LEMMA EnableKeepsRow ==
  ASSUME RowInv, NEW e \in Enablers, Enable(e)
  PROVE  RowHeld'
<1>t. TypeOK /\ e \in Actors /\ Enablers \subseteq Actors /\ None \notin Actors
  BY ActorsAssumption DEF RowInv, TypeInv, Actors
<1>h. RowHeld
  BY DEF RowInv
<1> USE DEF RowHeld, Goto
<1>1. CASE Begin(e) \/ Retake(e) \/ BeginAgain(e)
  BY <1>t, <1>h, <1>1 DEF Begin, Retake, BeginAgain, TypeOK
<1>2. CASE LockRow(e)
  BY <1>t, <1>h, <1>2 DEF LockRow, TypeOK
<1>3. CASE Preflight(e)
  BY <1>t, <1>h, <1>3 DEF Preflight, otherVars, encVars, TypeOK
<1>4. CASE Activate(e)
  BY <1>t, <1>h, <1>4 DEF Activate, TypeOK
<1>5. CASE Abort(e)
  BY <1>t, <1>h, <1>5 DEF Abort, TypeOK
<1> QED BY <1>1, <1>2, <1>3, <1>4, <1>5 DEF Enable

(* Two owners never prepare the form at once, each from a snapshot of its  *)
(* own: at most one is between its snapshot and its commit, even when a    *)
(* dead owner's marker was taken over twice (beginEnable, the FOR UPDATE   *)
(* of enable).                                                             *)
THEOREM RowHeldHolds == Spec => []RowHeld
<1>1. Init => RowHeld
  <2> SUFFICES ASSUME Init PROVE RowHeld
    OBVIOUS
  <2>1. formRow = None /\ \A e \in Enablers : pc[e] = "begin"
    BY ActorsAssumption DEF Init, Actors
  <2> QED BY <2>1 DEF RowHeld
<1>2. RowInv /\ [Next]_vars => RowHeld'
  <2> SUFFICES ASSUME RowInv, [Next]_vars PROVE RowHeld'
    OBVIOUS
  <2>t. TypeInv /\ TypeOK /\ RowHeld /\ Enablers \subseteq Actors /\ None \notin Actors
    BY ActorsAssumption DEF RowInv, TypeInv, Actors
  <2>1. ASSUME formRow' = formRow, \A e \in Enablers : pc'[e] = pc[e]
        PROVE  RowHeld'
    BY <2>t, <2>1 DEF RowHeld
  <2>2. CASE \/ \E r \in Requests : Submit(r) \/ Cut(r)
             \/ \E d \in Deleters : Delete(d)
             \/ \E p \in Repairers : Repair(p)
             \/ UNCHANGED vars
    BY <2>t, <2>1, <2>2, OthersLeaveMarker
  <2>3. CASE \E e \in Enablers : Enable(e)
    BY <2>3, EnableKeepsRow
  <2>4. ASSUME NEW a \in Actors, Crash(a) PROVE RowHeld'
    BY <2>t, <2>4 DEF Crash, Goto, RowHeld, TypeOK
  <2>5. CASE GrowStale
    BY <2>1, <2>5 DEF GrowStale
  <2> QED BY <2>2, <2>3, <2>4, <2>5 DEF Next
<1>3. RowInv /\ [Next]_vars => RowInv'
  BY <1>2, TypeNext DEF RowInv
<1> QED BY TypeInit, <1>1, <1>3, PTL DEF Spec, RowInv

-----------------------------------------------------------------------------
(* What stands behind a private form.                                      *)

(* Where no reconcile job copies a row it read earlier into the mirror,    *)
(* and the compensating delete works.                                      *)
Compensates == NoReconcile /\ "sqlite" \notin Hazards

(* Neither store holds plaintext for good.                                 *)
OnItsWayOut(r) == r \in sqlite => pc[r] \in {"mirror", "undo"}
Cleared == mirror \cap Plain = {} /\ \A r \in Plain : OnItsWayOut(r)

(* The owner's snapshot of the mirror loses nothing to the time that       *)
(* passes: while the marker stands the mirror takes no plaintext.          *)
PreflightKnows ==
  \A e \in Enablers :
    /\ pc[e] = "preflight" => mirror \cap Plain \subseteq seen[e]
    /\ pc[e] = "activate" => Cleared

PrivacyInv == EnableInv /\ (enc = "active" => Cleared) /\ PreflightKnows

(* Nothing is stored, whether the form is a private one or not.            *)
LEMMA PrivacyInit == Init => PrivacyInv
<1> SUFFICES ASSUME Init PROVE Cleared /\ PreflightKnows
  BY EnableInit DEF PrivacyInv
<1>1. \A e \in Enablers : pc[e] = "begin"
  BY ActorsAssumption DEF Init, Actors
<1>2. mirror = {} /\ sqlite = {}
  BY DEF Init
<1> QED BY <1>1, <1>2 DEF Cleared, OnItsWayOut, PreflightKnows

(* Past the marker a submission brings no plaintext into the mirror, and   *)
(* what it brought into SQLite it takes out again.                         *)
LEMMA SubmitKeepsCleared ==
  ASSUME Compensates, TypeInv, enc # "none", NEW r \in Requests, Submit(r)
  PROVE  /\ mirror' \cap Plain = mirror \cap Plain
         /\ Cleared => Cleared'
<1>t. /\ TypeOK /\ r \in Actors
      /\ Plain \cap Envelopes = {} /\ \A q \in Plain : q \in Requests
  BY ActorsAssumption DEF TypeInv, Actors, Requests
<1>o. OthersStep({r})
  BY SubmitAlone
<1> USE DEF Goto, Answer
<1>1. mirror' \cap Plain = mirror \cap Plain
  <2>1. CASE Mirror(r)
    BY <1>t, <2>1 DEF Mirror, MirrorAllowed
  <2>2. CASE ~Mirror(r)
    BY <2>2 DEF Submit, Screen, Gate, HoldQuota, Script, Commit, Undo, Recount, Publish
  <2> QED BY <2>1, <2>2
<1>2. ASSUME r \in Plain, OnItsWayOut(r) PROVE OnItsWayOut(r)'
  <2> USE <1>2, <1>t DEF OnItsWayOut, TypeOK
  <2>1. CASE Screen(r) \/ Gate(r) \/ HoldQuota(r) \/ Script(r)
    BY <2>1 DEF Screen, Gate, HoldQuota, Script
  <2>2. CASE Commit(r)
    BY <2>2 DEF Commit
  <2>3. CASE Mirror(r)
    BY <2>3 DEF Mirror, MirrorAllowed, AfterMirrorFailure
  <2>4. CASE Undo(r)
    BY <2>4 DEF Undo, Undone, Compensates
  <2>5. CASE Recount(r) \/ Publish(r)
    BY <2>5 DEF Recount, Publish
  <2> QED BY <2>1, <2>2, <2>3, <2>4, <2>5 DEF Submit
<1>3. ASSUME NEW q \in Plain, q # r, OnItsWayOut(q) PROVE OnItsWayOut(q)'
  BY <1>3, <1>t, <1>o DEF OthersStep, OnItsWayOut
<1> QED BY <1>1, <1>2, <1>3 DEF Cleared

(* Deletions only take away.                                               *)
LEMMA DeleteKeepsCleared ==
  ASSUME TypeInv, NEW d \in Deleters, Delete(d)
  PROVE  /\ mirror' \subseteq mirror
         /\ Cleared => Cleared'
<1>1. mirror' \subseteq mirror
  BY ActorsAssumption DEF Delete, DeleteOne, ListAll, Wipe, Unmirror, Recount, Publish, otherVars
<1>2. sqlite' \subseteq sqlite /\ \A q \in Requests : pc'[q] = pc[q]
  BY OtherActors DEF OthersStep
<1> QED BY <1>1, <1>2 DEF Cleared, OnItsWayOut, Requests

(* An owner's step leaves both stores alone; it turns the form private     *)
(* after it has found both of them empty.                                  *)
LEMMA EnableKeepsPrivacy ==
  ASSUME PrivacyInv, NEW e \in Enablers, Enable(e)
  PROVE  (enc' = "active" => Cleared') /\ PreflightKnows'
<1>t. TypeInv /\ TypeOK /\ EnableInv /\ e \in Actors /\ e \notin Requests
  BY ActorsAssumption DEF PrivacyInv, EnableInv, TypeInv, Actors
<1>1. EnablerMove(e) /\ \A a \in Actors : a # e => pc'[a] = pc[a]
  BY <1>t, EnablerMoves
<1>2. UNCHANGED <<sqlite, mirror>> /\ \A f \in Enablers : f # e => seen'[f] = seen[f]
  BY <1>t DEF Enable, Begin, Retake, BeginAgain, LockRow, Preflight, Activate, Abort,
              otherVars, TypeOK, Actors
<1>3. Cleared => Cleared'
  BY <1>t, <1>1, <1>2 DEF Cleared, OnItsWayOut, Requests, Actors
<1>4. enc' = "active" => Cleared'
  BY <1>1, <1>3 DEF EnablerMove, PrivacyInv, PreflightKnows
<1>5. pc'[e] = "preflight" => mirror' \cap Plain \subseteq seen'[e]
  <2>1. pc'[e] = "preflight" => LockRow(e)
    BY <1>t DEF Enable, Begin, Retake, BeginAgain, LockRow, Preflight, Activate, Abort, Goto,
                TypeOK
  <2> QED BY <1>t, <1>2, <2>1 DEF LockRow, TypeOK
<1>6. pc'[e] = "activate" => Cleared'
  <2> SUFFICES ASSUME pc'[e] = "activate" PROVE Cleared
    BY <1>3
  <2>1. pc[e] = "preflight" /\ Clear(e)
    BY <1>t DEF Enable, Begin, Retake, BeginAgain, LockRow, Preflight, Activate, Abort, Goto,
                TypeOK
  <2>2. mirror \cap Plain = {} /\ sqlite = {}
    BY <2>1 DEF Clear, PrivacyInv, PreflightKnows
  <2> QED BY <2>2 DEF Cleared, OnItsWayOut
<1>7. \A f \in Enablers : f # e => /\ pc'[f] = "preflight" => mirror' \cap Plain \subseteq seen'[f]
                                   /\ pc'[f] = "activate" => Cleared'
  BY <1>1, <1>2, <1>3 DEF PrivacyInv, PreflightKnows, Actors
<1> QED BY <1>4, <1>5, <1>6, <1>7 DEF PreflightKnows

(* Every step preserves the invariant.                                     *)
LEMMA PrivacyNext ==
  ASSUME NoCrash, Compensates
  PROVE  PrivacyInv /\ [Next]_vars => PrivacyInv'
<1> DEFINE Goal == (enc' = "active" => Cleared') /\ PreflightKnows'
<1> SUFFICES ASSUME PrivacyInv, [Next]_vars PROVE Goal
  BY EnableNext DEF PrivacyInv
<1>t. TypeInv /\ EnableInv
  BY DEF PrivacyInv, EnableInv
<1>m. \A e \in Enablers : pc[e] \in {"preflight", "activate"} => enc = "enabling"
  BY <1>t DEF EnableInv, OwnerHasMarker, UnderWay
<1>k. ASSUME enc' = enc, \A e \in Enablers : pc'[e] = pc[e] /\ seen'[e] = seen[e],
             enc # "none" => mirror' \cap Plain \subseteq mirror \cap Plain /\ (Cleared => Cleared')
      PROVE  Goal
  BY <1>k, <1>m DEF PrivacyInv, PreflightKnows
<1>1. ASSUME NEW r \in Requests, Submit(r) PROVE Goal
  BY <1>1, <1>k, <1>t, OthersLeaveMarker, SubmitKeepsCleared
<1>2. ASSUME NEW r \in Requests, Cut(r) PROVE Goal
  <2>1. UNCHANGED <<pc, sqlite, mirror>>
    BY <1>2 DEF Cut
  <2> QED BY <1>2, <1>k, <1>t, <2>1, OthersLeaveMarker DEF Cleared, OnItsWayOut
<1>3. ASSUME NEW d \in Deleters, Delete(d) PROVE Goal
  BY <1>3, <1>k, <1>t, OthersLeaveMarker, DeleteKeepsCleared
<1>4. CASE UNCHANGED vars
  BY <1>4, <1>k, <1>t, OthersLeaveMarker DEF Cleared, OnItsWayOut, vars
<1>5. \A a \in Actors : ~Crash(a)
  BY DEF NoCrash, Crash
<1>6. ~GrowStale
  BY <1>t, NothingGrowsStale
<1> QED BY <1>1, <1>2, <1>3, <1>4, <1>5, <1>6, EnableKeepsPrivacy
        DEF Next, Compensates, NoReconcile

(* A private form holds no plaintext response: not in the mirror, and in   *)
(* SQLite none but those whose own request is about to take them out,      *)
(* though submissions that passed the gate before the marker stood may     *)
(* commit at any time later.                                               *)
THEOREM PrivateFormHoldsNoPlaintextHolds ==
  ASSUME NoCrash, Compensates
  PROVE  Spec => []PrivateFormHoldsNoPlaintext
<1>1. PrivacyInv => PrivateFormHoldsNoPlaintext
  BY DEF PrivacyInv, Cleared, OnItsWayOut, PrivateFormHoldsNoPlaintext
<1>2. PrivacyInv /\ [Next]_vars => PrivacyInv'
  BY PrivacyNext
<1> QED BY PrivacyInit, <1>1, <1>2, PTL DEF Spec
=============================================================================
