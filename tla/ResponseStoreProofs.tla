------------------------ MODULE ResponseStoreProofs ------------------------
(***************************************************************************)
(* Theorems about ResponseStore, for any number of submissions, deletions, *)
(* enabling owners and reconcile jobs, and any cap.                        *)
(***************************************************************************)
EXTENDS ResponseStore, FiniteSetTheorems, TLAPS

-----------------------------------------------------------------------------
(* Type correctness.                                                       *)

(* Sets of responses can be counted.                                       *)
LEMMA CountTyped ==
  ASSUME NEW S, S \subseteq Requests
  PROVE  /\ IsFiniteSet(S)
         /\ Cardinality(S) \in 0 .. Cardinality(Requests)
<1>1. IsFiniteSet(Requests)
  BY ActorsAssumption
<1>2. IsFiniteSet(S) /\ Cardinality(S) <= Cardinality(Requests)
  BY <1>1, FS_Subset
<1>3. Cardinality(S) \in Nat /\ Cardinality(Requests) \in Nat
  BY <1>1, <1>2, FS_CardinalityType
<1> QED BY <1>2, <1>3

(* Only plaintext submissions run a script, so only they can have acted.   *)
ScriptIsPlain == \A r \in Requests : pc[r] = "script" => r \in Plain

TypeInv == TypeOK /\ ScriptIsPlain

(* Nothing is stored, nobody has begun.                                    *)
LEMMA TypeInit == Init => TypeInv
<1> SUFFICES ASSUME Init PROVE TypeInv
  OBVIOUS
<1>1. pc \in [Actors -> Steps \cup {"done", "dead"}]
  BY DEF Init, Actors, Steps, RequestSteps, DeleterSteps, EnablerSteps, RepairerSteps
<1>2. count \in 0 .. Cardinality(Requests)
  <2>1. Cardinality({}) \in 0 .. Cardinality(Requests)
    BY CountTyped
  <2> QED BY <2>1, FS_EmptySet DEF Init
<1>3. ScriptIsPlain
  BY DEF Init, ScriptIsPlain, Actors
<1> QED BY <1>1, <1>2, <1>3 DEF Init, TypeInv, TypeOK, Outcomes, EncStates

(* Every step keeps every variable in its set.                             *)
LEMMA TypeOKNext == TypeInv /\ [Next]_vars => TypeOK'
<1> SUFFICES ASSUME TypeOK, ScriptIsPlain, [Next]_vars PROVE TypeOK'
  BY DEF TypeInv
<1> USE DEF TypeOK, requestVars, encVars, otherVars
<1>a. /\ Requests \subseteq Actors /\ Deleters \subseteq Actors
      /\ Enablers \subseteq Actors /\ Repairers \subseteq Actors
      /\ Plain \subseteq Requests /\ Envelopes \subseteq Requests
  BY DEF Actors, Requests
<1>s. {"screen", "gate", "room", "script", "commit", "mirror", "undo", "recount", "publish",
       "delete", "wipe", "unmirror", "begin", "retake", "again", "lockRow", "preflight",
       "activate", "abort", "compare", "decide", "rows", "metaIds", "insert", "prune",
       "report", "resync"} \subseteq Steps
  BY DEF Steps, RequestSteps, DeleterSteps, EnablerSteps, RepairerSteps
<1>g. ASSUME NEW a \in Actors, NEW step \in Steps \cup {"done", "dead"}, Goto(a, step)
      PROVE  pc' \in [Actors -> Steps \cup {"done", "dead"}]
  BY <1>g DEF Goto
<1>n. ASSUME NEW r \in Requests, NEW out \in Outcomes, Answer(r, out)
      PROVE  /\ pc' \in [Actors -> Steps \cup {"done", "dead"}]
             /\ outcome' \in [Requests -> Outcomes]
  BY <1>n, <1>a DEF Answer, Goto
<1>u. \A r : Unlocked(r) \in Requests \cup {None}
  BY DEF Unlocked
<1>1. ASSUME NEW r \in Requests, Submit(r) PROVE TypeOK'
  <2>1. CASE Screen(r)
    BY <1>a, <1>s, <1>g, <1>n, <2>1 DEF Screen, Outcomes
  <2>2. CASE Gate(r)
    BY <1>a, <1>s, <1>g, <1>n, <2>2 DEF Gate, Outcomes
  <2>3. CASE HoldQuota(r)
    BY <1>a, <1>s, <1>g, <1>n, <2>3 DEF HoldQuota, Outcomes
  <2>4. CASE Script(r)
    <3>1. r \in Plain
      BY <2>4 DEF Script, ScriptIsPlain
    <3>2. acted' \subseteq Plain /\ lock' \in Requests \cup {None}
      BY <1>u, <2>4, <3>1 DEF Script
    <3>3. /\ pc' \in [Actors -> Steps \cup {"done", "dead"}]
          /\ outcome' \in [Requests -> Outcomes]
      BY <1>a, <1>s, <1>g, <1>n, <2>4 DEF Script, Outcomes
    <3> QED BY <2>4, <3>2, <3>3 DEF Script
  <2>5. CASE Commit(r)
    BY <1>a, <1>s, <1>g, <1>n, <1>u, <2>5 DEF Commit, NotStored, Outcomes
  <2>6. CASE Mirror(r)
    BY <1>a, <1>s, <1>g, <1>n, <2>6 DEF Mirror, AfterMirrorFailure
  <2>7. CASE Undo(r)
    BY <1>a, <1>s, <1>g, <1>n, <2>7 DEF Undo, Undone, UndoneAnswer, NotStored, Outcomes
  <2>8. CASE Recount(r)
    BY <1>a, <1>s, <1>g, <2>8 DEF Recount
  <2>9. CASE Publish(r)
    BY <1>a, <1>s, <1>g, <1>n, <2>9, CountTyped DEF Publish, Outcomes
  <2> QED BY <1>1, <2>1, <2>2, <2>3, <2>4, <2>5, <2>6, <2>7, <2>8, <2>9 DEF Submit
<1>2. ASSUME NEW d \in Deleters, Delete(d) PROVE TypeOK'
  <2>0. d \in Actors /\ d \notin Requests
    BY <1>a, ActorsAssumption
  <2>1. CASE DeleteOne(d)
    BY <1>s, <1>g, <2>0, <2>1 DEF DeleteOne
  <2>2. CASE ListAll(d)
    BY <1>s, <1>g, <2>0, <2>2 DEF ListAll
  <2>3. CASE Wipe(d)
    BY <1>s, <1>g, <2>0, <2>3 DEF Wipe
  <2>4. CASE Unmirror(d)
    BY <1>s, <1>g, <2>0, <2>4 DEF Unmirror
  <2>5. CASE Recount(d)
    BY <1>s, <1>g, <2>0, <2>5 DEF Recount
  <2>6. CASE Publish(d)
    BY <1>s, <1>g, <2>0, <2>6, CountTyped DEF Publish
  <2> QED BY <1>2, <2>1, <2>2, <2>3, <2>4, <2>5, <2>6 DEF Delete
<1>3. ASSUME NEW e \in Enablers, Enable(e) PROVE TypeOK'
  <2>1. CASE Begin(e)
    BY <1>a, <1>s, <1>g, <2>1 DEF Begin, EncStates, Enabling
  <2>2. CASE Retake(e)
    BY <1>a, <1>s, <1>g, <2>2 DEF Retake, WithoutMarker, EncStates
  <2>3. CASE BeginAgain(e)
    BY <1>a, <1>s, <1>g, <2>3 DEF BeginAgain, EncStates, Enabling
  <2>4. CASE LockRow(e)
    BY <1>a, <1>s, <1>g, <2>4 DEF LockRow
  <2>5. CASE Preflight(e)
    BY <1>a, <1>s, <1>g, <2>5 DEF Preflight
  <2>6. CASE Activate(e)
    BY <1>a, <1>s, <1>g, <2>6 DEF Activate, EncStates
  <2>7. CASE Abort(e)
    BY <1>a, <1>s, <1>g, <2>7 DEF Abort, WithoutMarker, EncStates
  <2> QED BY <1>3, <2>1, <2>2, <2>3, <2>4, <2>5, <2>6, <2>7 DEF Enable
<1>4. ASSUME NEW p \in Repairers, Repair(p) PROVE TypeOK'
  <2>1. CASE Compare(p)
    BY <1>a, <1>s, <1>g, <2>1 DEF Compare
  <2>2. CASE Decide(p)
    BY <1>a, <1>s, <1>g, <2>2 DEF Decide
  <2>3. CASE ReadRows(p)
    BY <1>a, <1>s, <1>g, <2>3 DEF ReadRows
  <2>4. CASE ReadMetaIds(p)
    BY <1>a, <1>s, <1>g, <2>4 DEF ReadMetaIds
  <2>5. CASE InsertMissing(p)
    BY <1>a, <1>s, <1>g, <2>5 DEF InsertMissing
  <2>6. CASE PruneOrphans(p)
    BY <1>a, <1>s, <1>g, <2>6 DEF PruneOrphans
  <2>7. CASE Report(p)
    BY <1>a, <1>s, <1>g, <2>7 DEF Report
  <2>8. CASE Resync(p)
    BY <1>a, <1>s, <1>g, <2>8, CountTyped DEF Resync
  <2> QED BY <1>4, <2>1, <2>2, <2>3, <2>4, <2>5, <2>6, <2>7, <2>8 DEF Repair
<1>5. ASSUME NEW a \in Actors \ Repairers, Crash(a) PROVE TypeOK'
  BY <1>5, <1>g DEF Crash
<1>6. ASSUME NEW r \in Requests, Cut(r) PROVE TypeOK'
  BY <1>6, <1>u DEF Cut
<1>7. CASE GrowStale
  BY <1>7 DEF GrowStale, EncStates, Enabling
<1>8. CASE UNCHANGED vars
  BY <1>8 DEF vars
<1> QED BY <1>1, <1>2, <1>3, <1>4, <1>5, <1>6, <1>7, <1>8 DEF Next

(* What the steps of the others do to a submission: nothing, but that its  *)
(* row may be erased and its process may die.                              *)
OthersStep(A) ==
  /\ \A r \in Requests \ A : pc'[r] = pc[r] /\ outcome'[r] = outcome[r]
  /\ \A r \in Requests \ A : (r \in cut' <=> r \in cut)
  /\ sqlite' \subseteq sqlite \cup A
  /\ \A r \in Requests \ A : r \in sqlite \cup erased => r \in sqlite' \cup erased'

(* A step of a submission is its own affair.                               *)
LEMMA SubmitAlone ==
  ASSUME TypeInv, NEW r \in Requests, Submit(r)
  PROVE  OthersStep({r})
<1> USE DEF OthersStep, TypeInv, TypeOK, requestVars, otherVars, encVars, Goto, Answer
<1>1. Requests \subseteq Actors
  BY DEF Actors
<1>2. CASE Screen(r) \/ Gate(r) \/ HoldQuota(r)
  BY <1>1, <1>2 DEF Screen, Gate, HoldQuota
<1>3. CASE Script(r) \/ Commit(r)
  BY <1>1, <1>3 DEF Script, Commit
<1>4. CASE Mirror(r) \/ Undo(r)
  BY <1>1, <1>4 DEF Mirror, Undo, Undone
<1>5. CASE Recount(r) \/ Publish(r)
  BY <1>1, <1>5 DEF Recount, Publish
<1> QED BY <1>2, <1>3, <1>4, <1>5 DEF Submit

(* A deletion, a repair, an enabling and the passing of time leave every   *)
(* submission where it is; a row they take out is erased, and no lock is   *)
(* taken or given back.                                                    *)
LEMMA OtherActors ==
  ASSUME TypeInv,
         \/ \E d \in Deleters : Delete(d)
         \/ \E e \in Enablers : Enable(e)
         \/ \E p \in Repairers : Repair(p)
         \/ GrowStale
         \/ UNCHANGED vars
  PROVE  OthersStep({}) /\ lock' = lock /\ cut' = cut
<1> USE DEF OthersStep, TypeInv, TypeOK, requestVars, otherVars, encVars, Goto
<1>1. \A a \in Deleters \cup Enablers \cup Repairers : a \notin Requests
  BY ActorsAssumption
<1>2. Requests \subseteq Actors
  BY DEF Actors
<1>3. ASSUME NEW d \in Deleters, Delete(d) PROVE OthersStep({}) /\ lock' = lock /\ cut' = cut
  BY <1>1, <1>2, <1>3 DEF Delete, DeleteOne, ListAll, Wipe, Unmirror, Recount, Publish
<1>4. ASSUME NEW e \in Enablers, Enable(e) PROVE OthersStep({}) /\ lock' = lock /\ cut' = cut
  BY <1>1, <1>2, <1>4
     DEF Enable, Begin, Retake, BeginAgain, LockRow, Preflight, Activate, Abort
<1>5. ASSUME NEW p \in Repairers, Repair(p) PROVE OthersStep({}) /\ lock' = lock /\ cut' = cut
  BY <1>1, <1>2, <1>5
     DEF Repair, Compare, Decide, ReadRows, ReadMetaIds, InsertMissing, PruneOrphans,
         Report, Resync
<1>6. CASE GrowStale
  BY <1>6 DEF GrowStale
<1>7. CASE UNCHANGED vars
  BY <1>7 DEF vars
<1> QED BY <1>3, <1>4, <1>5, <1>6, <1>7

(* A process that dies leaves the stores and the other submissions alone.  *)
LEMMA CrashAlone ==
  ASSUME TypeInv, NEW a \in Actors, Crash(a)
  PROVE  /\ OthersStep({a}) /\ sqlite' = sqlite /\ erased' = erased /\ cut' = cut
         /\ outcome' = outcome /\ pc[a] \in Steps /\ pc'[a] = "dead"
         /\ lock' = IF lock = a THEN None ELSE lock
  BY DEF Crash, OthersStep, TypeInv, TypeOK, requestVars, Goto, Actors

(* A lost connection takes the lock with it and nothing else.              *)
LEMMA CutAlone ==
  ASSUME TypeInv, NEW r \in Requests, Cut(r)
  PROVE  /\ OthersStep({r}) /\ UNCHANGED <<pc, sqlite, erased, outcome>>
         /\ cut' = cut \cup {r} /\ lock' = Unlocked(r) /\ "cut" \in Hazards
  BY DEF Cut, OthersStep, requestVars, otherVars

(* Every step keeps the types, and a script is run by plaintext only.      *)
LEMMA TypeNext == TypeInv /\ [Next]_vars => TypeInv'
<1> SUFFICES ASSUME TypeInv, [Next]_vars PROVE ScriptIsPlain'
  BY TypeOKNext DEF TypeInv
<1>1. ASSUME NEW r \in Requests, Submit(r) PROVE ScriptIsPlain'
  <2>1. pc'[r] = "script" => r \in Plain
    BY <1>1 DEF TypeInv, TypeOK, Actors, Goto, Answer, Submit, Screen, Gate, HoldQuota, Script,
                Commit, Mirror, AfterMirrorFailure, Undo, Recount, Publish
  <2> QED BY <1>1, <2>1, SubmitAlone DEF OthersStep, TypeInv, ScriptIsPlain
<1>2. CASE \/ \E d \in Deleters : Delete(d)
           \/ \E e \in Enablers : Enable(e)
           \/ \E p \in Repairers : Repair(p)
           \/ GrowStale
           \/ UNCHANGED vars
  BY <1>2, OtherActors DEF OthersStep, TypeInv, ScriptIsPlain
<1>3. ASSUME NEW a \in Actors, Crash(a) PROVE ScriptIsPlain'
  BY <1>3, CrashAlone DEF OthersStep, TypeInv, ScriptIsPlain
<1>4. ASSUME NEW r \in Requests, Cut(r) PROVE ScriptIsPlain'
  BY <1>4, CutAlone DEF TypeInv, ScriptIsPlain
<1> QED BY <1>1, <1>2, <1>3, <1>4 DEF Next

(* Every variable keeps its type: no step leaves a client with an answer   *)
(* the code does not have, and the shown count never exceeds what was      *)
(* submitted.                                                              *)
THEOREM TypeCorrect == Spec => []TypeOK
<1>1. TypeInv /\ [Next]_vars => TypeInv'
  BY TypeNext
<1>2. TypeInv => TypeOK
  BY DEF TypeInv
<1> QED BY TypeInit, <1>1, <1>2, PTL DEF Spec

(* Private is irreversible: no retake, no abort and no crash of any other  *)
(* attempt at enabling takes a form out of that state.                     *)
THEOREM PrivateForGoodHolds == Spec => PrivateForGood
<1>1. [Next]_vars => (enc = "active" => enc' = "active")
  <2> SUFFICES ASSUME [Next]_vars, enc = "active" PROVE enc' = "active"
    OBVIOUS
  <2> USE DEF requestVars, otherVars, encVars
  <2>1. ASSUME NEW e \in Enablers, Enable(e) PROVE enc' = "active"
    BY <2>1 DEF Enable, Begin, Retake, BeginAgain, LockRow, Preflight, Activate, Abort,
                WithoutMarker, Retakable, Enabling
  <2>2. CASE UNCHANGED enc
    BY <2>2
  <2>3. ASSUME NEW r \in Requests, Submit(r) \/ Cut(r) PROVE UNCHANGED enc
    BY <2>3 DEF Submit, Screen, Gate, HoldQuota, Script, Commit, Mirror, Undo, Recount,
                Publish, Cut
  <2>4. ASSUME NEW d \in Deleters, Delete(d) PROVE UNCHANGED enc
    BY <2>4 DEF Delete, DeleteOne, ListAll, Wipe, Unmirror, Recount, Publish
  <2>5. ASSUME NEW p \in Repairers, Repair(p) PROVE UNCHANGED enc
    BY <2>5 DEF Repair, Compare, Decide, ReadRows, ReadMetaIds, InsertMissing, PruneOrphans,
                Report, Resync
  <2>6. CASE GrowStale
    BY <2>6 DEF GrowStale
  <2>7. ASSUME NEW a \in Actors, Crash(a) PROVE UNCHANGED enc
    BY <2>7 DEF Crash
  <2> QED BY <2>1, <2>2, <2>3, <2>4, <2>5, <2>6, <2>7 DEF Next, vars
<1> QED BY <1>1, PTL DEF Spec, PrivateForGood

-----------------------------------------------------------------------------
(* What a submission's step says of the authoritative store and the lock.  *)

Early == {"screen", "gate", "room", "script", "commit"}
Late == {"mirror", "undo", "recount", "publish"}
Withdrawals == {"opted_out", "script_ran", "refused"}

(* A submission under way has not been answered.                           *)
Open(r) == pc[r] \in Steps => outcome[r] = "none"

(* Once committed it is there, or an owner took it out.                    *)
Committed(r) == (pc[r] \in Late \/ outcome[r] = "created") => r \in sqlite \cup erased

(* It is not there before, nor after it was refused.                       *)
NotYet(r) == pc[r] \in Early => r \notin sqlite
Withdrawn(r) ==
  ("sqlite" \notin Hazards /\ outcome[r] \in Withdrawals) => r \notin sqlite

(* Of the submissions between count and commit the one whose connection    *)
(* stands has the lock, and only such a one has.                           *)
HoldsWell(r) ==
  /\ lock = r => pc[r] \in {"script", "commit"} /\ r \notin cut
  /\ (Quota # 0 /\ pc[r] \in {"script", "commit"} /\ r \notin cut) => lock = r

StorePart(r) == Open(r) /\ Committed(r) /\ NotYet(r) /\ Withdrawn(r) /\ HoldsWell(r)

StoreInv == TypeInv /\ \A r \in Requests : StorePart(r)

(* Nothing is stored, nobody has begun.                                    *)
LEMMA StoreInit == Init => StoreInv
<1> SUFFICES ASSUME Init, NEW r \in Requests PROVE StorePart(r)
  BY TypeInit DEF StoreInv
<1>1. pc[r] = "screen" /\ outcome[r] = "none" /\ sqlite = {} /\ lock = None
  BY ActorsAssumption DEF Init, Actors
<1>2. r # None
  BY ActorsAssumption DEF Actors
<1> QED BY <1>1, <1>2 DEF StorePart, Open, Committed, NotYet, Withdrawn, HoldsWell, Late,
                          Withdrawals

(* What the others do to a submission leaves its part true, as long as     *)
(* they don't take the lock of one that holds it.                          *)
LEMMA OthersKeepPart ==
  ASSUME StoreInv, NEW A, OthersStep(A), NEW q \in Requests \ A,
         lock' = q <=> lock = q
  PROVE  StorePart(q)'
<1>1. /\ pc'[q] = pc[q] /\ outcome'[q] = outcome[q] /\ (q \in cut' <=> q \in cut)
      /\ (q \in sqlite' => q \in sqlite)
      /\ (q \in sqlite \cup erased => q \in sqlite' \cup erased')
  BY DEF OthersStep
<1>2. StorePart(q)
  BY DEF StoreInv
<1>3. Open(q)' /\ Committed(q)'
  BY <1>1, <1>2 DEF StorePart, Open, Committed
<1>4. NotYet(q)' /\ Withdrawn(q)'
  BY <1>1, <1>2 DEF StorePart, NotYet, Withdrawn
<1>5. HoldsWell(q)'
  BY <1>1, <1>2 DEF StorePart, HoldsWell
<1> QED BY <1>3, <1>4, <1>5 DEF StorePart

(* A submission's own step.                                                *)
LEMMA SubmitKeepsPart ==
  ASSUME StoreInv, NEW r \in Requests, Submit(r)
  PROVE  StorePart(r)' /\ (lock' = lock \/ lock' = r \/ (lock = r /\ lock' = None))
                       /\ (lock' = r => lock \in {None, r})
<1> DEFINE Goal == StorePart(r)' /\ (lock' = lock \/ lock' = r \/ (lock = r /\ lock' = None))
                                 /\ (lock' = r => lock \in {None, r})
<1>t. TypeOK /\ r \in Actors /\ r # None
  BY ActorsAssumption DEF StoreInv, TypeInv, Actors
<1>p. StorePart(r)
  BY DEF StoreInv
<1> USE DEF StorePart, Open, Committed, NotYet, Withdrawn, HoldsWell, Early, Late,
            Withdrawals, Goto, Answer, requestVars, otherVars, encVars, Unlocked
<1>s. Early \cup Late \subseteq Steps /\ "done" \notin Steps
  BY DEF Steps, RequestSteps, DeleterSteps, EnablerSteps, RepairerSteps
<1>1. CASE Screen(r)
  BY <1>1, <1>t, <1>p, <1>s DEF Screen, TypeOK
<1>2. CASE Gate(r)
  BY <1>2, <1>t, <1>p, <1>s DEF Gate, TypeOK
<1>3. CASE HoldQuota(r)
  BY <1>3, <1>t, <1>p, <1>s DEF HoldQuota, Room, TypeOK
<1>4. CASE Script(r)
  BY <1>4, <1>t, <1>p, <1>s DEF Script, TypeOK
<1>5. CASE Commit(r)
  BY <1>5, <1>t, <1>p, <1>s DEF Commit, NotStored, TypeOK
<1>6. CASE Mirror(r)
  BY <1>6, <1>t, <1>p, <1>s DEF Mirror, AfterMirrorFailure, TypeOK
<1>7. CASE Undo(r)
  BY <1>7, <1>t, <1>p, <1>s DEF Undo, Undone, UndoneAnswer, NotStored, TypeOK
<1>8. CASE Recount(r)
  BY <1>8, <1>t, <1>p, <1>s DEF Recount, TypeOK
<1>9. CASE Publish(r)
  BY <1>9, <1>t, <1>p, <1>s DEF Publish, TypeOK
<1> QED BY <1>1, <1>2, <1>3, <1>4, <1>5, <1>6, <1>7, <1>8, <1>9 DEF Submit

(* Every step preserves the invariant.                                     *)
LEMMA StoreNext == StoreInv /\ [Next]_vars => StoreInv'
<1> SUFFICES ASSUME StoreInv, [Next]_vars PROVE \A q \in Requests : StorePart(q)'
  BY TypeNext DEF StoreInv
<1>t. TypeInv /\ TypeOK /\ \A q \in Requests : q # None /\ q \in Actors
  BY ActorsAssumption DEF StoreInv, TypeInv, Actors
<1>1. ASSUME NEW r \in Requests, Submit(r) PROVE \A q \in Requests : StorePart(q)'
  <2>1. OthersStep({r})
    BY <1>1, <1>t, SubmitAlone
  <2>2. ASSUME NEW q \in Requests \ {r} PROVE lock' = q <=> lock = q
    BY <1>1, <1>t, <2>2, SubmitKeepsPart
  <2> QED BY <1>1, <2>1, <2>2, SubmitKeepsPart, OthersKeepPart
<1>2. CASE \/ \E d \in Deleters : Delete(d)
           \/ \E e \in Enablers : Enable(e)
           \/ \E p \in Repairers : Repair(p)
           \/ GrowStale
           \/ UNCHANGED vars
  BY <1>2, <1>t, OtherActors, OthersKeepPart
<1>3. ASSUME NEW a \in Actors, Crash(a) PROVE \A q \in Requests : StorePart(q)'
  <2>1. /\ OthersStep({a}) /\ sqlite' = sqlite /\ erased' = erased /\ cut' = cut
        /\ outcome' = outcome /\ pc[a] \in Steps /\ pc'[a] = "dead"
        /\ lock' = IF lock = a THEN None ELSE lock
    BY <1>3, <1>t, CrashAlone
  <2>2. ASSUME NEW q \in Requests, q # a PROVE StorePart(q)'
    BY <1>t, <2>1, <2>2, OthersKeepPart
  <2>3. ASSUME a \in Requests PROVE StorePart(a)'
    BY <1>t, <2>1, <2>3 DEF StoreInv, StorePart, Open, Committed, NotYet, Withdrawn, HoldsWell,
                       Steps, RequestSteps, DeleterSteps, EnablerSteps, RepairerSteps,
                       Early, Late, Withdrawals
  <2> QED BY <2>2, <2>3
<1>4. ASSUME NEW r \in Requests, Cut(r) PROVE \A q \in Requests : StorePart(q)'
  <2>1. /\ OthersStep({r}) /\ UNCHANGED <<pc, sqlite, erased, outcome>>
        /\ cut' = cut \cup {r} /\ lock' = Unlocked(r)
    BY <1>4, <1>t, CutAlone
  <2>2. ASSUME NEW q \in Requests, q # r PROVE StorePart(q)'
    BY <1>t, <2>1, <2>2, OthersKeepPart DEF Unlocked
  <2>3. StorePart(r)'
    BY <1>t, <2>1 DEF Unlocked, StoreInv, StorePart, Open, Committed, NotYet, Withdrawn, HoldsWell
  <2> QED BY <2>2, <2>3
<1> QED BY <1>1, <1>2, <1>3, <1>4 DEF Next

(* A response answered "created" stays in the authoritative store until an *)
(* owner deletes it, whatever else fails.                                  *)
THEOREM CreatedIsStoredHolds == Spec => []CreatedIsStored
<1>1. StoreInv => CreatedIsStored
  BY DEF StoreInv, StorePart, Committed, CreatedIsStored
<1> QED BY StoreInit, StoreNext, <1>1, PTL DEF Spec

(* Of a capped form's submissions one at a time is between its count and   *)
(* its commit, but for those whose connection was lost, and the lock is    *)
(* never left with one that is answered, dead or cut off: nobody waits for *)
(* it in vain.                                                             *)
QuotaLock ==
  /\ \A r, s \in Requests :
       (/\ Quota # 0
        /\ pc[r] \in {"script", "commit"} /\ r \notin cut
        /\ pc[s] \in {"script", "commit"} /\ s \notin cut) => r = s
  /\ lock # None => pc[lock] \in {"script", "commit"} /\ lock \notin cut

(* The lock of MySQL serialises the checks of the cap, and lives with its  *)
(* connection only.                                                        *)
THEOREM QuotaLockHolds == Spec => []QuotaLock
<1>1. StoreInv => QuotaLock
  BY DEF StoreInv, StorePart, HoldsWell, QuotaLock, TypeInv, TypeOK
<1> QED BY StoreInit, StoreNext, <1>1, PTL DEF Spec

(* Where the compensating delete works, a submission that was refused left *)
(* nothing behind.                                                         *)
THEOREM RefusedIsNotStoredHolds ==
  ASSUME "sqlite" \notin Hazards
  PROVE  Spec => []RefusedIsNotStored
<1>1. StoreInv => RefusedIsNotStored
  BY DEF StoreInv, StorePart, Withdrawn, Withdrawals, RefusedIsNotStored
<1> QED BY StoreInit, StoreNext, <1>1, PTL DEF Spec

-----------------------------------------------------------------------------
(* The cap.                                                                *)

(* A connection is only lost where the loss of the lock is made good: an   *)
(* envelope whose mirror insert fails is kept, a plaintext response is not. *)
CutsAreUndone == "cut" \notin Hazards \/ Envelopes = {}

(* A response that is or will be answered "created", and the holder of the *)
(* lock, which may become one.                                             *)
WillStand(r) ==
  \/ pc[r] \in {"recount", "publish"}
  \/ outcome[r] = "created"
  \/ pc[r] = "mirror" /\ r \notin cut

Standing == {r \in sqlite : WillStand(r)}
Claims == Cardinality(Standing) + (IF lock = None THEN 0 ELSE 1)

CapInv ==
  /\ StoreInv
  /\ cut \cap Envelopes = {}
  /\ Quota # 0 => Claims <= Quota

(* Nothing stands before the first submission.                             *)
LEMMA CapInit == Init => CapInv
<1> SUFFICES ASSUME Init PROVE CapInv
  OBVIOUS
<1>1. Standing = {} /\ lock = None /\ cut = {}
  BY DEF Init, Standing
<1>2. Quota # 0 => Claims <= Quota
  BY <1>1, FS_EmptySet, QuotaAssumption DEF Claims
<1> QED BY <1>1, <1>2, StoreInit DEF CapInv

(* Where nothing new stands and nobody takes the lock, the claims don't    *)
(* grow.                                                                   *)
LEMMA ClaimsShrink ==
  ASSUME CapInv, Standing' \subseteq Standing, lock' \in {lock, None}
  PROVE  (Quota # 0 => Claims <= Quota)'
<1>1. Standing \subseteq Requests
  BY DEF CapInv, StoreInv, TypeInv, TypeOK, Standing
<1>2. /\ Cardinality(Standing') <= Cardinality(Standing)
      /\ Cardinality(Standing') \in Nat /\ Cardinality(Standing) \in Nat
  BY <1>1, CountTyped, FS_Subset, FS_CardinalityType
<1> QED BY <1>2, QuotaAssumption DEF CapInv, Claims

(* A step of A makes nobody else stand.                                    *)
LEMMA NobodyElseStands ==
  ASSUME CapInv, NEW A, OthersStep(A), cut \subseteq cut'
  PROVE  \A q \in Requests \ A : q \in Standing' => q \in Standing
  BY DEF OthersStep, Standing, WillStand

(* Counting under the lock leaves room for the one that counted.           *)
LEMMA HoldQuotaClaims ==
  ASSUME CapInv, NEW r \in Requests, HoldQuota(r)
  PROVE  (Quota # 0 => Claims <= Quota)'
<1>t. TypeOK /\ r \in Actors
  BY DEF CapInv, StoreInv, TypeInv, Actors
<1>1. Standing' \subseteq Standing
  <2>1. r \notin sqlite' /\ cut' = cut /\ sqlite' \subseteq Requests
    BY <1>t DEF HoldQuota, CapInv, StoreInv, StorePart, NotYet, Early, TypeOK
  <2>2. OthersStep({r})
    BY SubmitAlone DEF CapInv, StoreInv, Submit
  <2> QED BY <2>1, <2>2, NobodyElseStands DEF Standing
<1>2. CASE Quota # 0 /\ Room(r) /\ lock' = r
  <2>1. Standing' \subseteq sqlite /\ sqlite \subseteq Requests
    BY <1>1, <1>t DEF Standing, TypeOK
  <2>2. /\ Cardinality(Standing') <= Cardinality(sqlite)
        /\ Cardinality(Standing') \in Nat /\ Cardinality(sqlite) \in Nat
    BY <2>1, CountTyped, FS_Subset, FS_CardinalityType
  <2>3. Cardinality(sqlite) < Quota
    BY <1>2 DEF Room
  <2> QED BY <1>2, <2>2, <2>3, QuotaAssumption DEF Claims
<1>3. CASE lock' = lock
  BY <1>1, <1>3, ClaimsShrink
<1>4. Quota = 0 => Quota' = 0
  OBVIOUS
<1> QED BY <1>2, <1>3, <1>4 DEF HoldQuota

(* A commit turns the claim of the lock into a standing response; without  *)
(* the lock it makes nothing that will stand.                              *)
LEMMA CommitClaims ==
  ASSUME CapInv, NEW r \in Requests, Commit(r)
  PROVE  (Quota # 0 => Claims <= Quota)'
<1>t. TypeOK /\ r \in Actors /\ StorePart(r) /\ r # None
  BY ActorsAssumption DEF CapInv, StoreInv, TypeInv, Actors
<1>1. OthersStep({r}) /\ cut' = cut
  BY SubmitAlone DEF CapInv, StoreInv, Submit, Commit
<1>2. Standing' \subseteq Standing \cup {r} /\ Standing \subseteq Requests
  BY <1>1, <1>t, NobodyElseStands DEF Standing, Commit, TypeOK
<1>3. lock' = Unlocked(r) /\ pc[r] = "commit"
  BY DEF Commit
<1>4. CASE r \notin cut /\ Quota # 0
  <2>1. lock = r /\ lock' = None
    BY <1>3, <1>4, <1>t DEF StorePart, HoldsWell, Unlocked
  <2>2. IsFiniteSet(Standing) /\ Cardinality(Standing) \in Nat
    BY <1>2, CountTyped
  <2>3. /\ IsFiniteSet(Standing \cup {r})
        /\ Cardinality(Standing \cup {r}) <= Cardinality(Standing) + 1
        /\ Cardinality(Standing \cup {r}) \in Nat
    BY <2>2, FS_AddElement, FS_CardinalityType
  <2>4. Cardinality(Standing') <= Cardinality(Standing \cup {r}) /\ Cardinality(Standing') \in Nat
    BY <1>2, <2>3, FS_Subset, FS_CardinalityType
  <2> QED BY <1>4, <1>t, <2>1, <2>2, <2>3, <2>4, QuotaAssumption DEF CapInv, Claims
<1>5. CASE r \in cut
  <2>1. r \notin Standing'
    <3>1. pc'[r] \in {"mirror", "done"} /\ outcome'[r] # "created"
      BY <1>t, <1>3 DEF Commit, NotStored, Goto, Answer, StorePart, Open, TypeOK, Steps, RequestSteps
    <3> QED BY <3>1, <1>1, <1>5 DEF Standing, WillStand
  <2> QED BY <1>2, <1>3, <2>1, ClaimsShrink DEF Unlocked
<1> QED BY <1>4, <1>5

(* The other steps of a submission make nothing stand that did not before: *)
(* the mirror insert of one whose connection is gone takes it out again.   *)
LEMMA OtherSubmitClaims ==
  ASSUME CapInv, NEW r \in Requests, Submit(r), ~HoldQuota(r), ~Commit(r)
  PROVE  (Quota # 0 => Claims <= Quota)'
<1>t. TypeOK /\ r \in Actors /\ StorePart(r)
  BY DEF CapInv, StoreInv, TypeInv, Actors
<1>1. OthersStep({r})
  BY SubmitAlone DEF CapInv, StoreInv
<1> USE DEF requestVars, otherVars, encVars, Goto, Answer
<1>2. cut' = cut /\ lock' \in {lock, None}
  BY DEF Submit, Screen, Gate, Script, Mirror, Undo, Recount, Publish, Unlocked
<1>3. r \in Standing' => r \in Standing
  <2> USE <1>t DEF Standing, WillStand, TypeOK
  <2>1. CASE Screen(r) \/ Gate(r)
    BY <2>1 DEF Screen, Gate, StorePart, NotYet, Early
  <2>2. CASE Script(r)
    BY <2>2 DEF Script, StorePart, NotYet, Early
  <2>3. CASE Mirror(r)
    <3>1. r \in cut => r \in Plain
      BY DEF CapInv, Requests
    <3> QED BY <2>3, <3>1 DEF Mirror, AfterMirrorFailure, StorePart, Open, Steps, RequestSteps
  <2>4. CASE Undo(r)
    BY <2>4 DEF Undo, UndoneAnswer, NotStored
  <2>5. CASE Recount(r) \/ Publish(r)
    BY <2>5 DEF Recount, Publish
  <2> QED BY <2>1, <2>2, <2>3, <2>4, <2>5 DEF Submit
<1>4. Standing' \subseteq Standing
  <2>1. Standing' \subseteq Requests
    BY <1>1, <1>t DEF OthersStep, Standing, TypeOK
  <2> QED BY <1>1, <1>2, <1>3, <2>1, NobodyElseStands
<1> QED BY <1>2, <1>4, ClaimsShrink

(* Every step preserves the invariant.                                     *)
LEMMA CapNext ==
  ASSUME CutsAreUndone
  PROVE  CapInv /\ [Next]_vars => CapInv'
<1> SUFFICES ASSUME CapInv, [Next]_vars
             PROVE  cut' \cap Envelopes = {} /\ (Quota # 0 => Claims <= Quota)'
  BY StoreNext DEF CapInv
<1>t. TypeInv /\ TypeOK /\ StoreInv
  BY DEF CapInv, StoreInv, TypeInv
<1>1. ASSUME NEW r \in Requests, Submit(r)
      PROVE  cut' \cap Envelopes = {} /\ (Quota # 0 => Claims <= Quota)'
  <2>1. cut' = cut
    BY <1>1 DEF Submit, Screen, Gate, HoldQuota, Script, Commit, Mirror, Undo, Recount,
                Publish, requestVars
  <2> QED BY <1>1, <2>1, HoldQuotaClaims, CommitClaims, OtherSubmitClaims DEF CapInv
<1>2. ASSUME NEW A, OthersStep(A), cut \subseteq cut', lock' \in {lock, None},
             \A q \in A \cap Requests : q \in Standing' => q \in Standing,
             sqlite' \subseteq Requests
      PROVE  (Quota # 0 => Claims <= Quota)'
  <2>1. Standing' \subseteq Standing
    BY <1>2, NobodyElseStands DEF Standing
  <2> QED BY <1>2, <2>1, ClaimsShrink
<1>3. sqlite' \subseteq Requests
  BY StoreNext DEF CapInv, StoreInv, TypeInv, TypeOK
<1>4. CASE \/ \E d \in Deleters : Delete(d)
           \/ \E e \in Enablers : Enable(e)
           \/ \E p \in Repairers : Repair(p)
           \/ GrowStale
           \/ UNCHANGED vars
  <2>1. OthersStep({}) /\ lock' = lock /\ cut' = cut
    BY <1>4, <1>t, OtherActors
  <2> QED BY <1>2, <1>3, <2>1 DEF CapInv
<1>5. ASSUME NEW a \in Actors, Crash(a)
      PROVE  cut' \cap Envelopes = {} /\ (Quota # 0 => Claims <= Quota)'
  <2>1. /\ OthersStep({a}) /\ sqlite' = sqlite /\ cut' = cut /\ outcome' = outcome
        /\ pc'[a] = "dead" /\ lock' \in {lock, None}
    BY <1>5, <1>t, CrashAlone
  <2>2. a \in Standing' => a \in Standing
    BY <2>1 DEF Standing, WillStand
  <2> QED BY <1>2, <1>3, <2>1, <2>2 DEF CapInv
<1>6. ASSUME NEW r \in Requests, Cut(r)
      PROVE  cut' \cap Envelopes = {} /\ (Quota # 0 => Claims <= Quota)'
  <2>1. /\ OthersStep({r}) /\ UNCHANGED <<pc, sqlite, outcome>>
        /\ cut' = cut \cup {r} /\ lock' \in {lock, None} /\ "cut" \in Hazards
    BY <1>6, <1>t, CutAlone DEF Unlocked
  <2>2. r \in Standing' => r \in Standing
    BY <2>1 DEF Standing, WillStand
  <2>3. cut' \cap Envelopes = {}
    BY <2>1 DEF CutsAreUndone, CapInv
  <2> QED BY <1>2, <1>3, <2>1, <2>2, <2>3
<1> QED BY <1>1, <1>4, <1>5, <1>6 DEF Next

(* The responses of a capped form that were answered "created" fit under   *)
(* its cap, even when a lock is lost between the count and the commit -    *)
(* unless an envelope's connection is lost there.                          *)
THEOREM AnsweredWithinQuotaHolds ==
  ASSUME CutsAreUndone
  PROVE  Spec => []AnsweredWithinQuota
<1>1. CapInv => AnsweredWithinQuota
  <2> SUFFICES ASSUME CapInv, Quota # 0
               PROVE  Cardinality({r \in sqlite : outcome[r] = "created"}) <= Quota
    BY DEF AnsweredWithinQuota
  <2>1. /\ {r \in sqlite : outcome[r] = "created"} \subseteq Standing
        /\ Standing \subseteq Requests
    BY DEF Standing, WillStand, CapInv, StoreInv, TypeInv, TypeOK
  <2>2. /\ Cardinality({r \in sqlite : outcome[r] = "created"}) <= Cardinality(Standing)
        /\ Cardinality({r \in sqlite : outcome[r] = "created"}) \in Nat
        /\ Cardinality(Standing) \in Nat
    BY <2>1, CountTyped, FS_Subset, FS_CardinalityType
  <2> QED BY <2>2, QuotaAssumption DEF CapInv, Claims
<1>2. CapInv /\ [Next]_vars => CapInv'
  BY CapNext
<1> QED BY CapInit, <1>1, <1>2, PTL DEF Spec

-----------------------------------------------------------------------------
(* Trying again after the script has acted.                                *)

(* A submission whose script has not been run has not acted, and one that  *)
(* acted was refused by the privacy gate or not at all.                    *)
ActedPart(r) ==
  /\ pc[r] \in {"screen", "gate", "room", "script"} => r \notin acted
  /\ r \in acted /\ outcome[r] = "refused" => r \in blocked

ActedInv == StoreInv /\ \A r \in Requests : ActedPart(r)

(* No script has run.                                                      *)
LEMMA ActedInit == Init => ActedInv
  BY StoreInit DEF Init, ActedInv, ActedPart

(* What a submission's step does to its own part.                          *)
LEMMA SubmitKeepsActed ==
  ASSUME ActedInv, NEW r \in Requests, Submit(r)
  PROVE  ActedPart(r)'
<1>t. TypeOK /\ r \in Actors /\ Open(r) /\ ActedPart(r)
  BY DEF ActedInv, StoreInv, StorePart, TypeInv, Actors
<1>s. /\ {"screen", "gate", "room", "script", "commit", "mirror", "undo", "recount",
          "publish"} \subseteq Steps
  BY DEF Steps, RequestSteps
<1> USE DEF ActedPart, Open, Goto, Answer, otherVars
<1>1. CASE Screen(r) \/ Gate(r) \/ HoldQuota(r)
  BY <1>1, <1>t, <1>s DEF Screen, Gate, HoldQuota, TypeOK
<1>2. CASE Script(r)
  BY <1>2, <1>t, <1>s DEF Script, TypeOK
<1>3. CASE Commit(r)
  BY <1>3, <1>t, <1>s DEF Commit, NotStored, TypeOK
<1>4. CASE Mirror(r)
  BY <1>4, <1>t, <1>s DEF Mirror, AfterMirrorFailure, TypeOK
<1>5. CASE Undo(r)
  BY <1>5, <1>t, <1>s DEF Undo, UndoneAnswer, NotStored, TypeOK
<1>6. CASE Recount(r) \/ Publish(r)
  BY <1>6, <1>t, <1>s DEF Recount, Publish, requestVars, TypeOK
<1> QED BY <1>1, <1>2, <1>3, <1>4, <1>5, <1>6 DEF Submit

(* Every step preserves the invariant: what has acted and what the gate    *)
(* turned away is changed by the submission itself only.                   *)
LEMMA ActedNext == ActedInv /\ [Next]_vars => ActedInv'
<1> SUFFICES ASSUME ActedInv, [Next]_vars PROVE \A q \in Requests : ActedPart(q)'
  BY StoreNext DEF ActedInv
<1>t. TypeInv /\ \A q \in Requests : ActedPart(q)
  BY DEF ActedInv, StoreInv
<1>k. ASSUME NEW q \in Requests, pc'[q] = pc[q] \/ pc'[q] = "dead", outcome'[q] = outcome[q],
             q \in acted' <=> q \in acted, q \in blocked' <=> q \in blocked
      PROVE  ActedPart(q)'
  BY <1>t, <1>k DEF ActedPart
<1>1. ASSUME NEW r \in Requests, Submit(r) PROVE \A q \in Requests : ActedPart(q)'
  <2>1. OthersStep({r})
    BY <1>1, <1>t, SubmitAlone
  <2>2. \A q \in Requests \ {r} :
          (q \in acted' <=> q \in acted) /\ (q \in blocked' <=> q \in blocked)
    BY <1>1 DEF Submit, Screen, Gate, HoldQuota, Script, Commit, Mirror, Undo, Recount,
                Publish, requestVars
  <2> QED BY <1>1, <1>k, <2>1, <2>2, SubmitKeepsActed DEF OthersStep
<1>2. CASE \/ \E d \in Deleters : Delete(d)
           \/ \E e \in Enablers : Enable(e)
           \/ \E p \in Repairers : Repair(p)
           \/ GrowStale
           \/ UNCHANGED vars
  <2>1. OthersStep({})
    BY <1>2, <1>t, OtherActors
  <2>2. acted' = acted /\ blocked' = blocked
    <3> USE DEF requestVars
    <3>1. ASSUME NEW d \in Deleters, Delete(d) PROVE acted' = acted /\ blocked' = blocked
      BY <3>1 DEF Delete, DeleteOne, ListAll, Wipe, Unmirror, Recount, Publish
    <3>2. ASSUME NEW e \in Enablers, Enable(e) PROVE acted' = acted /\ blocked' = blocked
      BY <3>2 DEF Enable, Begin, Retake, BeginAgain, LockRow, Preflight, Activate, Abort
    <3>3. ASSUME NEW p \in Repairers, Repair(p) PROVE acted' = acted /\ blocked' = blocked
      BY <3>3 DEF Repair, Compare, Decide, ReadRows, ReadMetaIds, InsertMissing, PruneOrphans,
                  Report, Resync
    <3> QED BY <1>2, <3>1, <3>2, <3>3 DEF GrowStale, vars
  <2> QED BY <1>k, <2>1, <2>2 DEF OthersStep
<1>3. ASSUME NEW a \in Actors, Crash(a) PROVE \A q \in Requests : ActedPart(q)'
  <2>1. \A q \in Requests : pc'[q] = pc[q] \/ pc'[q] = "dead"
    BY <1>3, <1>t, CrashAlone DEF OthersStep
  <2> QED BY <1>3, <1>k, <2>1 DEF Crash, requestVars
<1>4. ASSUME NEW r \in Requests, Cut(r) PROVE \A q \in Requests : ActedPart(q)'
  BY <1>4, <1>k DEF Cut, requestVars
<1> QED BY <1>1, <1>2, <1>3, <1>4 DEF Next

(* Nobody whose script has acted is told to try again, but by the privacy  *)
(* gate: not when a commit fails, not when the connection is gone, not     *)
(* when the compensating delete fails.                                     *)
THEOREM ActedIsNotRetriedHolds == Spec => []ActedIsNotRetried
<1>1. ActedInv => ActedIsNotRetried
  BY DEF ActedInv, ActedPart, ActedIsNotRetried, StoreInv, TypeInv, TypeOK, Requests
<1> QED BY ActedInit, ActedNext, <1>1, PTL DEF Spec

-----------------------------------------------------------------------------
(* The mirror row of a plaintext response.                                 *)

(* A reconcile job that prunes by what it read before can take out the row *)
(* of a response stored meanwhile.                                         *)
NoReconcile == Repairers = {}

Mirrored(r) ==
  (pc[r] \in {"recount", "publish"} \/ outcome[r] = "created") => r \in mirror \cup erased

(* A submission that is over and will never be answered "created".         *)
Gone(r) == pc[r] \in {"done", "dead"} /\ outcome[r] # "created"

(* The rows an owner read, to delete their mirror rows later, are erased   *)
(* by then, or were taken back by their own request.                       *)
ErasesWell(d) ==
  /\ pc[d] = "wipe" => \A r \in seen[d] : r \in sqlite \cup erased \/ Gone(r)
  /\ pc[d] = "unmirror" => \A r \in seen[d] : r \in erased \/ Gone(r)

MirrorInv ==
  /\ StoreInv
  /\ \A r \in Plain : Mirrored(r)
  /\ \A d \in Deleters : ErasesWell(d)

(* Nothing is stored, nobody has begun.                                    *)
LEMMA MirrorInit == Init => MirrorInv
<1> SUFFICES ASSUME Init
             PROVE  (\A r \in Plain : Mirrored(r)) /\ (\A d \in Deleters : ErasesWell(d))
  BY StoreInit DEF MirrorInv
<1>1. \A r \in Plain : pc[r] = "screen" /\ outcome[r] = "none"
  BY ActorsAssumption DEF Init, Actors, Requests
<1>2. \A d \in Deleters : pc[d] = "delete"
  BY ActorsAssumption DEF Init, Actors
<1> QED BY <1>1, <1>2 DEF Mirrored, ErasesWell

(* A submission's step: the mirror row precedes the count, and a row that  *)
(* leaves the store this way is never answered "created".                  *)
LEMMA SubmitKeepsMirror ==
  ASSUME MirrorInv, NEW r \in Requests, Submit(r)
  PROVE  (\A q \in Plain : Mirrored(q)') /\ (\A d \in Deleters : ErasesWell(d)')
<1>t. /\ TypeInv /\ TypeOK /\ r \in Actors /\ Open(r)
      /\ \A q \in Plain : q \in Requests
  BY DEF MirrorInv, StoreInv, StorePart, TypeInv, Actors, Requests
<1>s. {"screen", "gate", "room", "script", "commit", "mirror", "undo", "recount",
       "publish"} \subseteq Steps /\ "done" \notin Steps /\ "dead" \notin Steps
  BY DEF Steps, RequestSteps, DeleterSteps, EnablerSteps, RepairerSteps
<1>o. OthersStep({r})
  BY <1>t, SubmitAlone
<1> USE DEF Goto, Answer, requestVars, otherVars, encVars
<1>m. mirror \subseteq mirror' /\ erased' = erased /\ pc[r] \in Steps
  BY <1>s DEF Submit, Screen, Gate, HoldQuota, Script, Commit, Mirror, Undo, Recount, Publish
<1>d. \A d \in Deleters : pc'[d] = pc[d] /\ seen'[d] = seen[d]
  <2>1. \A d \in Deleters : d \in Actors /\ d # r
    BY ActorsAssumption DEF Actors
  <2> QED BY <1>t, <2>1 DEF Submit, Screen, Gate, HoldQuota, Script, Commit, Mirror, Undo,
                            Recount, Publish, TypeOK
<1>1. ASSUME r \in Plain PROVE Mirrored(r)'
  <2>1. Mirrored(r)
    BY <1>1 DEF MirrorInv
  <2> USE <1>t, <1>s, <2>1 DEF Mirrored, Open, TypeOK
  <2>2. CASE Screen(r) \/ Gate(r) \/ HoldQuota(r)
    BY <2>2 DEF Screen, Gate, HoldQuota
  <2>3. CASE Script(r) \/ Commit(r)
    BY <2>3 DEF Script, Commit, NotStored
  <2>4. CASE Mirror(r)
    BY <1>1, <2>4 DEF Mirror, AfterMirrorFailure
  <2>5. CASE Undo(r)
    BY <2>5 DEF Undo, UndoneAnswer, NotStored
  <2>6. CASE Recount(r) \/ Publish(r)
    BY <2>6 DEF Recount, Publish
  <2> QED BY <2>2, <2>3, <2>4, <2>5, <2>6 DEF Submit
<1>2. r \in sqlite \cup erased => r \in sqlite' \cup erased' \/ Gone(r)'
  <2>1. CASE Undo(r)
    BY <1>t, <2>1 DEF Undo, UndoneAnswer, NotStored, Gone, TypeOK
  <2>2. CASE ~Undo(r)
    <3>1. sqlite \subseteq sqlite'
      BY <2>2 DEF Submit, Screen, Gate, HoldQuota, Script, Commit, Mirror, Recount, Publish
    <3> QED BY <1>m, <3>1
  <2> QED BY <2>1, <2>2
<1>3. \A q \in Plain : Mirrored(q)'
  BY <1>1, <1>t, <1>o, <1>m DEF OthersStep, Mirrored, MirrorInv
<1>4. ~Gone(r)
  BY <1>m, <1>s DEF Gone
<1>5. \A q \in Requests : Gone(q) => Gone(q)'
  BY <1>4, <1>o DEF Gone, OthersStep
<1>6. \A q \in Requests : q \in sqlite \cup erased => q \in sqlite' \cup erased' \/ Gone(q)'
  BY <1>2, <1>o DEF OthersStep
<1>7. \A d \in Deleters : seen[d] \subseteq Requests
  BY <1>t DEF TypeOK, Actors
<1>8. ASSUME NEW d \in Deleters PROVE ErasesWell(d)'
  BY <1>d, <1>m, <1>5, <1>6, <1>7, <1>8 DEF ErasesWell, MirrorInv
<1> QED BY <1>3, <1>8

(* A deletion's step: only what is erased, or was never answered, loses    *)
(* its mirror row.                                                         *)
LEMMA DeleteKeepsMirror ==
  ASSUME MirrorInv, NEW d \in Deleters, Delete(d)
  PROVE  (\A q \in Plain : Mirrored(q)') /\ (\A f \in Deleters : ErasesWell(f)')
<1>t. TypeInv /\ TypeOK /\ d \in Actors /\ \A q \in Plain : q \in Requests
  BY DEF MirrorInv, StoreInv, TypeInv, Actors, Requests
<1>o. \A q \in Requests : /\ pc'[q] = pc[q] /\ outcome'[q] = outcome[q]
                          /\ q \in sqlite \cup erased => q \in sqlite' \cup erased'
  BY <1>t, OtherActors DEF OthersStep
<1> USE DEF Goto, requestVars, otherVars, encVars
<1>n. d \notin Requests
  BY ActorsAssumption
<1>1. erased \subseteq erased'
  BY <1>n DEF Delete, DeleteOne, ListAll, Wipe, Unmirror, Recount, Publish
<1>2. \A f \in Deleters \ {d} : pc'[f] = pc[f] /\ seen'[f] = seen[f]
  <2>1. \A f \in Deleters : f \in Actors
    BY DEF Actors
  <2> QED BY <1>t, <1>n, <2>1
          DEF Delete, DeleteOne, ListAll, Wipe, Unmirror, Recount, Publish, TypeOK
<1>3. \A q \in Requests : Gone(q)' <=> Gone(q)
  BY <1>o DEF Gone
<1>4. ASSUME NEW q \in Plain PROVE Mirrored(q)'
  <2>1. Mirrored(q) /\ q \in Requests
    BY <1>4, <1>t DEF MirrorInv
  <2>2. CASE Unmirror(d)
    <3>1. pc[d] = "unmirror" /\ mirror \ seen[d] \subseteq mirror'
      BY <2>2 DEF Unmirror
    <3>2. q \in seen[d] => q \in erased \/ Gone(q)
      BY <3>1 DEF MirrorInv, ErasesWell
    <3>3. pc[q] \in {"recount", "publish"} \/ outcome[q] = "created" => ~Gone(q)
      BY DEF Gone
    <3> QED BY <1>o, <1>1, <2>1, <3>1, <3>2, <3>3 DEF Mirrored
  <2>3. CASE ~Unmirror(d)
    <3>1. mirror' = mirror
      BY <2>3 DEF Delete, DeleteOne, ListAll, Wipe, Recount, Publish
    <3> QED BY <1>o, <1>1, <2>1, <3>1 DEF Mirrored
  <2> QED BY <2>2, <2>3
<1>5. ErasesWell(d)'
  <2> USE <1>t, <1>n DEF TypeOK
  <2>1. CASE DeleteOne(d)
    BY <2>1 DEF DeleteOne, ErasesWell
  <2>2. CASE ListAll(d)
    BY <2>2 DEF ListAll, ErasesWell
  <2>3. CASE Wipe(d)
    <3>1. /\ pc[d] = "wipe" /\ pc'[d] = "unmirror" /\ seen'[d] = seen[d]
          /\ erased' = erased \cup sqlite
      BY <2>3 DEF Wipe
    <3>2. \A q \in seen[d] : q \in Requests /\ (q \in sqlite \cup erased \/ Gone(q))
      BY <3>1 DEF MirrorInv, ErasesWell
    <3> QED BY <1>3, <3>1, <3>2 DEF ErasesWell
  <2>4. CASE Unmirror(d) \/ Recount(d) \/ Publish(d)
    BY <2>4 DEF Unmirror, Recount, Publish, ErasesWell
  <2> QED BY <2>1, <2>2, <2>3, <2>4 DEF Delete
<1>6. ASSUME NEW f \in Deleters, f # d PROVE ErasesWell(f)'
  <2>1. seen[f] \subseteq Requests
    BY <1>6, <1>t DEF TypeOK, Actors
  <2> QED BY <1>o, <1>1, <1>2, <1>3, <1>6, <2>1 DEF ErasesWell, MirrorInv
<1> QED BY <1>4, <1>5, <1>6

(* Every step preserves the invariant.                                     *)
LEMMA MirrorNext ==
  ASSUME NoReconcile
  PROVE  MirrorInv /\ [Next]_vars => MirrorInv'
<1> DEFINE Goal == (\A q \in Plain : Mirrored(q)') /\ (\A d \in Deleters : ErasesWell(d)')
<1> SUFFICES ASSUME MirrorInv, [Next]_vars PROVE Goal
  BY StoreNext DEF MirrorInv
<1>t. /\ TypeInv /\ TypeOK /\ \A q \in Plain : q \in Requests /\ q \in Actors
      /\ \A d \in Deleters : d \in Actors /\ seen[d] \subseteq Requests
  BY DEF MirrorInv, StoreInv, TypeInv, TypeOK, Actors, Requests
<1>s. "done" \notin Steps /\ "dead" \notin Steps
  BY DEF Steps, RequestSteps, DeleterSteps, EnablerSteps, RepairerSteps
<1>k. ASSUME \A a \in Requests \cup Deleters :
               pc'[a] = pc[a] \/ (pc[a] \in Steps /\ pc'[a] = "dead"),
             UNCHANGED <<sqlite, mirror, erased, outcome>>,
             \A d \in Deleters : seen'[d] = seen[d]
      PROVE  Goal
  <2>1. \A q \in Requests : Gone(q) => Gone(q)'
    BY <1>k, <1>s DEF Gone
  <2>2. \A q \in Plain : Mirrored(q)'
    BY <1>k, <1>t DEF MirrorInv, Mirrored
  <2>3. \A d \in Deleters : ErasesWell(d)'
    BY <1>k, <1>t, <2>1 DEF MirrorInv, ErasesWell
  <2> QED BY <2>2, <2>3
<1>1. ASSUME NEW e \in Enablers, Enable(e) PROVE Goal
  <2>1. /\ UNCHANGED <<sqlite, mirror, erased, outcome>>
        /\ \A a \in Requests \cup Deleters : a \in Actors /\ a # e
    BY <1>1, ActorsAssumption
       DEF Enable, Begin, Retake, BeginAgain, LockRow, Preflight, Activate, Abort, otherVars,
           requestVars, Actors
  <2>2. \A a \in Requests \cup Deleters : pc'[a] = pc[a] /\ seen'[a] = seen[a]
    BY <1>1, <1>t, <2>1
       DEF Enable, Begin, Retake, BeginAgain, LockRow, Preflight, Activate, Abort, otherVars,
           Goto, TypeOK
  <2> QED BY <1>k, <2>1, <2>2
<1>2. ASSUME NEW a \in Actors, Crash(a) PROVE Goal
  <2>1. \A b \in Actors : pc'[b] = pc[b] \/ (pc[b] \in Steps /\ pc'[b] = "dead")
    BY <1>2, <1>t DEF Crash, Goto, TypeOK
  <2>2. UNCHANGED <<sqlite, mirror, erased, outcome, seen>>
    BY <1>2 DEF Crash, requestVars
  <2> QED BY <1>k, <2>1, <2>2 DEF Actors
<1>3. ASSUME NEW r \in Requests, Cut(r) PROVE Goal
  BY <1>3, <1>k DEF Cut, requestVars, otherVars
<1>4. CASE GrowStale
  BY <1>4, <1>k DEF GrowStale, requestVars
<1>5. CASE UNCHANGED vars
  BY <1>5, <1>k DEF vars, requestVars, otherVars
<1> QED BY <1>1, <1>2, <1>3, <1>4, <1>5, SubmitKeepsMirror, DeleteKeepsMirror
        DEF Next, NoReconcile

(* While no reconcile job runs, a plaintext response answered "created"    *)
(* has its metadata row until an owner deletes it, whatever statements     *)
(* fail, connections drop and processes die.                               *)
THEOREM CreatedIsMirroredHolds ==
  ASSUME NoReconcile
  PROVE  Spec => []CreatedIsMirrored
<1>1. MirrorInv => CreatedIsMirrored
  BY DEF MirrorInv, Mirrored, CreatedIsMirrored
<1>2. MirrorInv /\ [Next]_vars => MirrorInv'
  BY MirrorNext
<1> QED BY MirrorInit, <1>1, <1>2, PTL DEF Spec

-----------------------------------------------------------------------------
(* The store implements ResponseBook.                                      *)

(* What has not been stored yet has not been struck out.                   *)
Fresh(r) == pc[r] \in Early => r \notin erased

BookInv == StoreInv /\ \A r \in Requests : Fresh(r)

(* Nobody has begun.                                                       *)
LEMMA BookInit == Init => BookInv
  BY StoreInit DEF Init, BookInv, Fresh

(* Only stored responses are erased, and no step takes a submission back   *)
(* to before its commit.                                                   *)
LEMMA EraseNext ==
  ASSUME StoreInv, [Next]_vars
  PROVE  /\ erased' \subseteq erased \cup sqlite
         /\ \A r \in Requests : pc'[r] \in Early => pc[r] \in Early
<1>t. /\ TypeInv /\ TypeOK /\ Requests \subseteq Actors
      /\ \A a \in Deleters : a \notin Requests
  BY ActorsAssumption DEF StoreInv, TypeInv, Actors
<1> DEFINE Goal == /\ erased' \subseteq erased \cup sqlite
                   /\ \A r \in Requests : pc'[r] \in Early => pc[r] \in Early
<1> USE DEF otherVars
<1>1. ASSUME NEW r \in Requests, Submit(r) PROVE Goal
  <2>1. OthersStep({r})
    BY <1>1, <1>t, SubmitAlone
  <2>2. pc'[r] \in Early => pc[r] \in Early
    BY <1>1, <1>t DEF Submit, Screen, Gate, HoldQuota, Script, Commit, Mirror, Undo, Recount,
                      Publish, AfterMirrorFailure, Goto, Answer, Early, TypeOK
  <2>3. erased' = erased
    BY <1>1 DEF Submit, Screen, Gate, HoldQuota, Script, Commit, Mirror, Undo, Recount, Publish
  <2> QED BY <2>1, <2>2, <2>3 DEF OthersStep
<1>2. CASE \/ \E d \in Deleters : Delete(d)
           \/ \E e \in Enablers : Enable(e)
           \/ \E p \in Repairers : Repair(p)
           \/ GrowStale
           \/ UNCHANGED vars
  <2>1. OthersStep({})
    BY <1>2, <1>t, OtherActors
  <2>2. ASSUME NEW d \in Deleters, Delete(d) PROVE erased' \subseteq erased \cup sqlite
    BY <2>2, <1>t DEF Delete, DeleteOne, ListAll, Wipe, Unmirror, Recount, Publish
  <2>3. ASSUME NEW e \in Enablers, Enable(e) PROVE erased' = erased
    BY <2>3 DEF Enable, Begin, Retake, BeginAgain, LockRow, Preflight, Activate, Abort
  <2>4. ASSUME NEW p \in Repairers, Repair(p) PROVE erased' = erased
    BY <2>4 DEF Repair, Compare, Decide, ReadRows, ReadMetaIds, InsertMissing, PruneOrphans,
                Report, Resync
  <2>5. CASE GrowStale \/ UNCHANGED vars
    BY <2>5 DEF GrowStale, vars
  <2> QED BY <1>2, <2>1, <2>2, <2>3, <2>4, <2>5 DEF OthersStep
<1>3. ASSUME NEW a \in Actors, Crash(a) PROVE Goal
  BY <1>3, <1>t, CrashAlone DEF OthersStep, Early
<1>4. ASSUME NEW r \in Requests, Cut(r) PROVE Goal
  BY <1>4, <1>t, CutAlone
<1> QED BY <1>1, <1>2, <1>3, <1>4 DEF Next

(* Every step preserves the invariant.                                     *)
LEMMA BookNext == BookInv /\ [Next]_vars => BookInv'
<1> SUFFICES ASSUME BookInv, [Next]_vars, NEW r \in Requests PROVE Fresh(r)'
  BY StoreNext DEF BookInv
<1>1. pc'[r] \in Early => pc[r] \in Early /\ r \notin sqlite
  BY EraseNext DEF BookInv, StoreInv, StorePart, NotYet
<1> QED BY <1>1, EraseNext DEF BookInv, Fresh

(* A submission that is answered has not been answered before, so its      *)
(* answer is the book's.                                                   *)
LEMMA AnswersOnce ==
  ASSUME BookInv, NEW r \in Requests, NEW out, pc[r] \in Steps, Answer(r, out)
  PROVE  outcome[r] = "none" /\ outcome' = [outcome EXCEPT ![r] = out]
  BY DEF BookInv, StoreInv, StorePart, Open, Answer

(* The steps of a submission, each with the book's step it is.             *)
LEMMA SubmitKeepsBook ==
  ASSUME "sqlite" \notin Hazards, BookInv, NEW r \in Requests, Submit(r)
  PROVE  Book!Keep(r) \/ Book!Confirm(r) \/ Book!TurnAway(r) \/ UNCHANGED Book!vars
<1>t. /\ StorePart(r) /\ Fresh(r)
      /\ pc[r] \in Early => r \notin sqlite \cup erased
      /\ sqlite \ {r} = sqlite <=> r \notin sqlite
  BY DEF BookInv, StoreInv, StorePart, NotYet, Fresh
<1>s. Early \cup Late \subseteq Steps
  BY DEF Steps, RequestSteps, Early, Late
<1>a. ASSUME NEW out \in {"opted_out", "script_ran", "refused"}, pc[r] \in Early,
             Answer(r, out), UNCHANGED <<sqlite, erased>>
      PROVE  Book!TurnAway(r)
  <2>1. outcome[r] = "none" /\ outcome' = [outcome EXCEPT ![r] = out]
    BY <1>a, <1>s, AnswersOnce
  <2> QED BY <1>a, <1>t, <2>1 DEF Book!TurnAway
<1> USE DEF otherVars, requestVars, Book!vars
<1>1. CASE Screen(r) \/ Gate(r) \/ HoldQuota(r)
  BY <1>1, <1>a DEF Screen, Gate, HoldQuota, Early
<1>2. CASE Script(r)
  BY <1>2, <1>a DEF Script, Early
<1>3. CASE Commit(r)
  <2>1. CASE sqlite' = sqlite \cup {r} /\ UNCHANGED outcome
    BY <1>3, <1>s, <1>t, <2>1 DEF Commit, StorePart, Open, Early, Book!Keep
  <2>2. CASE Answer(r, NotStored(r)) /\ UNCHANGED sqlite
    BY <1>3, <1>a, <2>2 DEF Commit, NotStored, Early
  <2> QED BY <1>3, <2>1, <2>2 DEF Commit
<1>4. CASE Mirror(r) \/ Recount(r)
  BY <1>4 DEF Mirror, Recount
<1>5. CASE Undo(r)
  <2>1. /\ sqlite' = sqlite \ {r} /\ erased' = erased
        /\ pc[r] = "undo" /\ Answer(r, UndoneAnswer(r))
        /\ UndoneAnswer(r) \in {"script_ran", "refused"}
    BY <1>5 DEF Undo, Undone, UndoneAnswer, NotStored
  <2>2. outcome[r] = "none" /\ outcome' = [outcome EXCEPT ![r] = UndoneAnswer(r)]
    BY <1>s, <2>1, AnswersOnce DEF Late
  <2> QED BY <2>1, <2>2 DEF Book!TurnAway
<1>6. CASE Publish(r)
  <2>1. pc[r] = "publish" /\ Answer(r, "created") /\ UNCHANGED <<sqlite, erased>>
    BY <1>6 DEF Publish
  <2>2. outcome[r] = "none" /\ outcome' = [outcome EXCEPT ![r] = "created"]
    BY <1>s, <2>1, AnswersOnce DEF Late
  <2>3. r \in sqlite \cup erased
    BY <1>t, <2>1 DEF StorePart, Committed, Late
  <2> QED BY <2>1, <2>2, <2>3 DEF Book!Confirm
<1> QED BY <1>1, <1>2, <1>3, <1>4, <1>5, <1>6 DEF Submit

(* An owner's deletion strikes out what it deletes, all at once.           *)
LEMMA DeleteKeepsBook ==
  ASSUME NEW d \in Deleters, Delete(d)
  PROVE  (\E S \in SUBSET sqlite : Book!StrikeOut(S)) \/ UNCHANGED Book!vars
<1>n. d \notin Requests
  BY ActorsAssumption
<1> USE DEF otherVars, requestVars, Book!vars
<1>1. CASE DeleteOne(d)
  <2>1. PICK r \in sqlite : sqlite' = sqlite \ {r} /\ erased' = erased \cup {r}
    BY <1>1 DEF DeleteOne
  <2>2. Book!StrikeOut({r})
    BY <1>1, <2>1 DEF DeleteOne, Book!StrikeOut
  <2> QED BY <2>1, <2>2
<1>2. CASE Wipe(d)
  <2>1. Book!StrikeOut(sqlite)
    BY <1>2 DEF Wipe, Book!StrikeOut
  <2> QED BY <2>1
<1>3. CASE ListAll(d) \/ Unmirror(d) \/ Recount(d) \/ Publish(d)
  BY <1>n, <1>3 DEF ListAll, Unmirror, Recount, Publish
<1> QED BY <1>1, <1>2, <1>3 DEF Delete

(* Every step of the store is a step of the book, or stutters.             *)
LEMMA BookStep ==
  ASSUME "sqlite" \notin Hazards
  PROVE  BookInv /\ [Next]_vars => [Book!Next]_(Book!vars)
<1> SUFFICES ASSUME BookInv, [Next]_vars PROVE [Book!Next]_(Book!vars)
  OBVIOUS
<1>1. ASSUME NEW r \in Requests, Submit(r) PROVE [Book!Next]_(Book!vars)
  BY <1>1, SubmitKeepsBook DEF Book!Next
<1>2. ASSUME NEW d \in Deleters, Delete(d) PROVE [Book!Next]_(Book!vars)
  BY <1>2, DeleteKeepsBook DEF Book!Next
<1> USE DEF otherVars, requestVars, Book!vars
<1>3. ASSUME NEW e \in Enablers, Enable(e) PROVE UNCHANGED Book!vars
  BY <1>3 DEF Enable, Begin, Retake, BeginAgain, LockRow, Preflight, Activate, Abort
<1>4. ASSUME NEW p \in Repairers, Repair(p) PROVE UNCHANGED Book!vars
  BY <1>4 DEF Repair, Compare, Decide, ReadRows, ReadMetaIds, InsertMissing, PruneOrphans,
              Report, Resync
<1>5. ASSUME NEW a \in Actors, Crash(a) \/ (a \in Requests /\ Cut(a)) PROVE UNCHANGED Book!vars
  BY <1>5 DEF Crash, Cut
<1>6. CASE GrowStale \/ UNCHANGED vars
  BY <1>6 DEF GrowStale, vars
<1> QED BY <1>1, <1>2, <1>3, <1>4, <1>5, <1>6 DEF Next, Actors

(* Where compensating deletes work, the two databases keep one book:       *)
(* submissions are answered once and truly, a refused one is not there and *)
(* will not be, and what an owner deleted does not come back, whatever     *)
(* crashes, drops or fails in MySQL.                                       *)
THEOREM KeepsTheBookHolds ==
  ASSUME "sqlite" \notin Hazards
  PROVE  Spec => KeepsTheBook
<1>1. Init => Book!Init
  BY DEF Init, Book!Init
<1>2. BookInv /\ [Next]_vars => [Book!Next]_(Book!vars)
  BY BookStep
<1> QED BY BookInit, BookNext, <1>1, <1>2, PTL DEF Spec, KeepsTheBook, Book!Spec
=============================================================================
