--------------------------- MODULE ResponseStore ---------------------------
(***************************************************************************)
(* Storing the responses of one form in two databases (ResponseService).   *)
(* The form's SQLite file holds the answers and is authoritative; MySQL    *)
(* holds a metadata row per response, the mirror, and the denormalized     *)
(* forms.response_count.  Nothing spans the two, so every write is a       *)
(* sequence of steps, one per statement or transaction, and the code       *)
(* compensates, defers or repairs when a step is refused or lost.          *)
(*                                                                         *)
(* Around the submissions run the other writers of the same rows: an owner *)
(* who deletes responses, the reconcile job that repairs drift, and an     *)
(* owner who turns the form into a private one (FormEncryptionService),    *)
(* which must happen with no plaintext response behind it.                 *)
(*                                                                         *)
(* A submission is named by its request, as its response and its two rows  *)
(* are.  A form with an onSubmit script runs it before anything is stored. *)
(*                                                                         *)
(* A definition that no action uses, just above one of the same shape, is  *)
(* a faulty variant of it: a bug a property is meant to catch.             *)
(***************************************************************************)
EXTENDS Naturals, FiniteSets

CONSTANTS
  Plain,      \* requests that carry plaintext answers (createResponse)
  Envelopes,  \* requests that carry a sealed envelope (createEncryptedResponse)
  Deleters,   \* requests that delete one response, or all of them
  Enablers,   \* requests that make the form private
  Repairers,  \* reconcile jobs
  Quota,      \* the form's quotaLimit; 0 is no cap
  HasScript,  \* whether the form has an onSubmit script
  Hazards,    \* what may go wrong in a run, a subset of AllHazards
  None        \* nobody holds the lock

AllHazards ==
  {"crash",   \* a process dies between two steps
   "cut",     \* a submission's MySQL connection drops, its lock with it
   "mysql",   \* a mirror statement fails, or its answer is lost
   "sqlite"}  \* a compensating delete on the form's SQLite file fails

Requests == Plain \cup Envelopes
Actors == Requests \cup Deleters \cup Enablers \cup Repairers

ASSUME QuotaAssumption == Quota \in Nat /\ HasScript \in BOOLEAN
ASSUME StoreHazardsAssumption == Hazards \subseteq AllHazards
ASSUME ActorsAssumption ==
  /\ None \notin Actors
  /\ Plain \cap Envelopes = {} /\ Requests \cap (Deleters \cup Enablers \cup Repairers) = {}
  /\ Deleters \cap Enablers = {} /\ Repairers \cap (Deleters \cup Enablers) = {}
  /\ IsFiniteSet(Requests)

VARIABLES
  pc,       \* pc[a]: the step an actor is about to take
  sqlite,   \* responses in the form's SQLite file
  mirror,   \* responses with a response_metadata row
  count,    \* forms.response_count
  lock,     \* the submission that holds the form's GET_LOCK
  cut,      \* submissions whose MySQL connection is gone
  screened, \* submissions that were told earlier the form is not private
  acted,    \* submissions whose script reached outside
  blocked,  \* submissions the mirror's privacy gate turned away
  outcome,  \* outcome[r]: what a submission was answered
  erased,   \* responses an owner deleted
  enc,      \* the form's form_encryption row
  formRow,  \* the enabler that holds the forms row FOR UPDATE
  enabled,  \* enablers that were told the form is private now
  seen,     \* seen[a]: the rows an actor last read, to act on later
  listed    \* listed[p]: the mirror rows a reconcile job last read

requestVars == <<screened, acted, blocked, outcome>>
encVars == <<enc, formRow, enabled>>
otherVars == <<erased, encVars, seen, listed>>
vars == <<pc, sqlite, mirror, count, lock, cut, requestVars, otherVars>>

RequestSteps ==
  {"screen", "gate", "room", "script", "commit", "mirror", "undo", "recount", "publish"}
DeleterSteps == {"delete", "wipe", "unmirror", "recount", "publish"}
EnablerSteps == {"begin", "retake", "again", "lockRow", "preflight", "activate", "abort"}
RepairerSteps == {"compare", "decide", "rows", "metaIds", "insert", "prune", "report", "resync"}
Steps == RequestSteps \cup DeleterSteps \cup EnablerSteps \cup RepairerSteps

Outcomes == {"none", "created", "opted_out", "script_ran", "refused"}

(* No row, a marker (young, or older than ENABLING_STALE_SECONDS), private. *)
Enabling == {"enabling", "stale"}
EncStates == {"none", "active"} \cup Enabling

TypeOK ==
  /\ pc \in [Actors -> Steps \cup {"done", "dead"}]
  /\ sqlite \subseteq Requests /\ mirror \subseteq Requests /\ erased \subseteq Requests
  /\ count \in 0 .. Cardinality(Requests)
  /\ lock \in Requests \cup {None}
  /\ cut \subseteq Requests
  /\ screened \subseteq Plain /\ acted \subseteq Plain /\ blocked \subseteq Requests
  /\ outcome \in [Requests -> Outcomes]
  /\ enc \in EncStates
  /\ formRow \in Enablers \cup {None}
  /\ enabled \subseteq Enablers
  /\ seen \in [Actors -> SUBSET Requests]
  /\ listed \in [Repairers -> SUBSET Requests]

Init ==
  /\ pc = [a \in Actors |-> CASE a \in Requests  -> "screen"
                              [] a \in Deleters  -> "delete"
                              [] a \in Enablers  -> "begin"
                              [] a \in Repairers -> "compare"]
  /\ sqlite = {} /\ mirror = {} /\ erased = {}
  /\ count = 0
  /\ lock = None
  /\ cut = {}
  /\ screened = {} /\ acted = {} /\ blocked = {}
  /\ outcome = [r \in Requests |-> "none"]
  /\ enc \in {"none", "active"}
  /\ formRow = None
  /\ enabled = {}
  /\ seen = [a \in Actors |-> {}]
  /\ listed = [p \in Repairers |-> {}]

Goto(a, step) == pc' = [pc EXCEPT ![a] = step]

Answer(r, out) ==
  /\ Goto(r, "done")
  /\ outcome' = [outcome EXCEPT ![r] = out]

(* RELEASE_LOCK frees the caller's own lock only.                          *)
Unlocked(r) == IF lock = r THEN None ELSE lock

NotStoredRetryable(r) == "refused"
NotStoredUncoded(r) == "error"

(* Once its script has acted, a submission that isn't stored is answered   *)
(* "script ran" and is not to be sent again.                               *)
NotStored(r) == IF r \in acted THEN "script_ran" ELSE "refused"

-----------------------------------------------------------------------------
(* A submission up to its SQLite commit.                                   *)

(* The public route's first look at the form, which the request remembers. *)
(* The other routes go to createResponse() without it.                     *)
Screen(r) ==
  /\ pc[r] = "screen"
  /\ \/ /\ r \in Plain
        /\ Goto(r, "gate")
        /\ screened' = IF enc = "none" /\ r \notin cut THEN screened \cup {r} ELSE screened
        /\ UNCHANGED outcome
     \/ /\ r \in Plain
        /\ Goto(r, "gate")
        /\ UNCHANGED <<screened, outcome>>
     \/ /\ r \in Envelopes /\ enc = "active" /\ r \notin cut
        /\ Goto(r, "room")
        /\ UNCHANGED <<screened, outcome>>
     \/ /\ \/ r \in cut
           \/ enc \in Enabling
           \/ enc = "active" <=> r \in Plain
        /\ Answer(r, "refused")
        /\ UNCHANGED screened
  /\ UNCHANGED <<sqlite, mirror, count, lock, cut, acted, blocked, otherVars>>

(* assertNotPrivate(): whether encryption is being enabled is read anew,   *)
(* whether the form is private may be remembered.                          *)
PassesGate(r) == r \notin cut /\ (enc = "none" \/ (enc = "active" /\ r \in screened))

Gate(r) ==
  /\ pc[r] = "gate"
  /\ IF PassesGate(r) THEN Goto(r, "room") /\ UNCHANGED outcome ELSE Answer(r, "refused")
  /\ UNCHANGED <<sqlite, mirror, count, lock, cut, screened, acted, blocked, otherVars>>

RoomWithoutLock(r) == Cardinality(sqlite) < Quota

(* holdQuota(): the lock, and a count made under it.                       *)
Room(r) == lock = None /\ r \notin cut /\ Cardinality(sqlite) < Quota

HoldQuota(r) ==
  /\ pc[r] = "room"
  /\ \/ /\ Quota = 0 \/ Room(r)
        /\ lock' = IF Quota = 0 THEN lock ELSE r
        /\ Goto(r, IF HasScript /\ r \in Plain THEN "script" ELSE "commit")
        /\ UNCHANGED outcome
     \/ /\ Quota # 0 /\ ~Room(r)      \* busy, or full
        /\ Answer(r, "refused")
        /\ UNCHANGED lock
  /\ UNCHANGED <<sqlite, mirror, count, cut, screened, acted, blocked, otherVars>>

(* The script accepts, keeps the record out of the store, or ends in a     *)
(* rejection, a fault or no verdict at all, which refuse alike.            *)
Script(r) ==
  /\ pc[r] = "script"
  /\ \E acts \in BOOLEAN :
       /\ acted' = IF acts THEN acted \cup {r} ELSE acted
       /\ \/ Goto(r, "commit") /\ UNCHANGED <<outcome, lock>>
          \/ /\ \/ Answer(r, "opted_out")
                \/ Answer(r, IF acts THEN "script_ran" ELSE "refused")
             /\ lock' = Unlocked(r)
  /\ UNCHANGED <<sqlite, mirror, count, cut, screened, blocked, otherVars>>

(* The SQLite transaction; the lock is released whether it commits or not. *)
Commit(r) ==
  /\ pc[r] = "commit"
  /\ lock' = Unlocked(r)
  /\ \/ /\ sqlite' = sqlite \cup {r}
        /\ Goto(r, "mirror")
        /\ UNCHANGED outcome
     \/ /\ Answer(r, NotStored(r))
        /\ UNCHANGED sqlite
  /\ UNCHANGED <<mirror, count, cut, screened, acted, blocked, otherVars>>

-----------------------------------------------------------------------------
(* The mirror, and what follows it.                                        *)

MirrorUngated(r) == TRUE

(* The insert is conditional: plaintext only while no form_encryption row  *)
(* exists, an envelope only while the form is an active private one.       *)
MirrorAllowed(r) == IF r \in Plain THEN enc = "none" ELSE enc = "active"

KeptAnyway(r) == "recount"

(* A mirror insert that fails takes a plaintext response back out; an      *)
(* envelope is kept, its mirror row left to the reconcile job.             *)
AfterMirrorFailure(r) == IF r \in Plain THEN "undo" ELSE "recount"

Mirror(r) ==
  /\ pc[r] = "mirror"
  /\ \/ /\ r \notin cut /\ MirrorAllowed(r) /\ r \notin mirror
        /\ mirror' = mirror \cup {r}
        /\ Goto(r, "recount")
        /\ UNCHANGED blocked
     \/ /\ r \notin cut /\ ~MirrorAllowed(r)
        /\ blocked' = blocked \cup {r}
        /\ Goto(r, "undo")
        /\ UNCHANGED mirror
     \/ /\ r \notin cut /\ MirrorAllowed(r) /\ r \in mirror      \* duplicate key
        /\ Goto(r, "undo")
        /\ UNCHANGED <<mirror, blocked>>
     \/ /\ r \in cut \/ "mysql" \in Hazards
        /\ \/ UNCHANGED mirror
           \/ /\ "mysql" \in Hazards /\ MirrorAllowed(r)      \* done, its answer lost
              /\ mirror' = mirror \cup {r}
        /\ Goto(r, AfterMirrorFailure(r))
        /\ UNCHANGED blocked
  /\ UNCHANGED <<sqlite, count, lock, cut, screened, acted, outcome, otherVars>>

NotUndone(r) == sqlite
Undone(r) == sqlite \ {r}

UndoneButCreated(r) == "created"

(* The privacy gate's refusals keep their own answer even when the script  *)
(* has acted.                                                              *)
UndoneAnswer(r) == IF r \in blocked \ cut THEN "refused" ELSE NotStored(r)

(* The compensating delete.                                                *)
Undo(r) ==
  /\ pc[r] = "undo"
  /\ \/ sqlite' = Undone(r)
     \/ "sqlite" \in Hazards /\ UNCHANGED sqlite
  /\ Answer(r, UndoneAnswer(r))
  /\ UNCHANGED <<mirror, count, lock, cut, screened, acted, blocked, otherVars>>

(* syncResponseCount(): the count is read from SQLite, then written to     *)
(* MySQL, best-effort.                                                     *)
Recount(a) ==
  /\ pc[a] = "recount"
  /\ seen' = [seen EXCEPT ![a] = sqlite]
  /\ Goto(a, "publish")
  /\ UNCHANGED <<sqlite, mirror, count, lock, cut, requestVars, erased, encVars, listed>>

Publish(a) ==
  /\ pc[a] = "publish"
  /\ \/ a \notin cut /\ count' = Cardinality(seen[a])
     \/ /\ a \in cut \/ "mysql" \in Hazards
        /\ UNCHANGED count
  /\ IF a \in Requests THEN Answer(a, "created") ELSE Goto(a, "done") /\ UNCHANGED outcome
  /\ UNCHANGED <<sqlite, mirror, lock, cut, screened, acted, blocked, otherVars>>

Submit(r) ==
  \/ Screen(r) \/ Gate(r) \/ HoldQuota(r) \/ Script(r) \/ Commit(r)
  \/ Mirror(r) \/ Undo(r) \/ Recount(r) \/ Publish(r)

-----------------------------------------------------------------------------
(* An owner deletes one response, or every response of the form.  SQLite   *)
(* goes first; the mirror rows that follow are those read beforehand.      *)

DeleteOne(d) ==
  /\ pc[d] = "delete"
  /\ \E r \in sqlite :
       /\ sqlite' = sqlite \ {r}
       /\ erased' = erased \cup {r}
       /\ seen' = [seen EXCEPT ![d] = {r}]
  /\ Goto(d, "unmirror")
  /\ UNCHANGED <<mirror, count, lock, cut, requestVars, encVars, listed>>

ListAll(d) ==
  /\ pc[d] = "delete"
  /\ sqlite # {}
  /\ seen' = [seen EXCEPT ![d] = sqlite]
  /\ Goto(d, "wipe")
  /\ UNCHANGED <<sqlite, mirror, count, lock, cut, requestVars, erased, encVars, listed>>

Wipe(d) ==
  /\ pc[d] = "wipe"
  /\ sqlite' = {}
  /\ erased' = erased \cup sqlite
  /\ Goto(d, "unmirror")
  /\ UNCHANGED <<mirror, count, lock, cut, requestVars, encVars, seen, listed>>

Unmirror(d) ==
  /\ pc[d] = "unmirror"
  /\ \/ mirror' = mirror \ seen[d]
     \/ "mysql" \in Hazards /\ UNCHANGED mirror
  /\ Goto(d, "recount")
  /\ UNCHANGED <<sqlite, count, lock, cut, requestVars, otherVars>>

Delete(d) == DeleteOne(d) \/ ListAll(d) \/ Wipe(d) \/ Unmirror(d) \/ Recount(d) \/ Publish(d)
-----------------------------------------------------------------------------
(* The reconcile job (bin/reconcile.php --fix).  Each pass reads the two   *)
(* stores one after the other and acts on what it read.                    *)

CountsDiffer(p) == Cardinality(sqlite) # Cardinality(listed[p])

Compare(p) ==
  /\ pc[p] = "compare"
  /\ listed' = [listed EXCEPT ![p] = mirror]
  /\ Goto(p, "decide")
  /\ UNCHANGED <<sqlite, mirror, count, lock, cut, requestVars, erased, encVars, seen>>

(* Forms whose counts agree are skipped.                                   *)
Decide(p) ==
  /\ pc[p] = "decide"
  /\ Goto(p, IF CountsDiffer(p) THEN "rows" ELSE "report")
  /\ UNCHANGED <<sqlite, mirror, count, lock, cut, requestVars, otherVars>>

ReadRows(p) ==
  /\ pc[p] = "rows"
  /\ seen' = [seen EXCEPT ![p] = sqlite]
  /\ Goto(p, "metaIds")
  /\ UNCHANGED <<sqlite, mirror, count, lock, cut, requestVars, erased, encVars, listed>>

ReadMetaIds(p) ==
  /\ pc[p] = "metaIds"
  /\ listed' = [listed EXCEPT ![p] = mirror]
  /\ Goto(p, "insert")
  /\ UNCHANGED <<sqlite, mirror, count, lock, cut, requestVars, erased, encVars, seen>>

(* INSERT IGNORE of what the mirror lacked, DELETE of what SQLite lacked.  *)
InsertMissing(p) ==
  /\ pc[p] = "insert"
  /\ mirror' = mirror \cup (seen[p] \ listed[p])
  /\ Goto(p, "prune")
  /\ UNCHANGED <<sqlite, count, lock, cut, requestVars, otherVars>>

PruneOrphans(p) ==
  /\ pc[p] = "prune"
  /\ mirror' = mirror \ (listed[p] \ seen[p])
  /\ Goto(p, "report")
  /\ UNCHANGED <<sqlite, count, lock, cut, requestVars, otherVars>>

DriftedRowsOnly == Cardinality(sqlite) # Cardinality(mirror)

(* report() finds count drift, and fix() writes the count it found.        *)
Drifted == Cardinality(sqlite) # Cardinality(mirror) \/ Cardinality(sqlite) # count

Report(p) ==
  /\ pc[p] = "report"
  /\ seen' = [seen EXCEPT ![p] = sqlite]
  /\ Goto(p, IF Drifted THEN "resync" ELSE "compare")
  /\ UNCHANGED <<sqlite, mirror, count, lock, cut, requestVars, erased, encVars, listed>>

Resync(p) ==
  /\ pc[p] = "resync"
  /\ count' = Cardinality(seen[p])
  /\ Goto(p, "compare")
  /\ UNCHANGED <<sqlite, mirror, lock, cut, requestVars, otherVars>>

Repair(p) ==
  \/ Compare(p) \/ Decide(p) \/ ReadRows(p) \/ ReadMetaIds(p)
  \/ InsertMissing(p) \/ PruneOrphans(p) \/ Report(p) \/ Resync(p)

-----------------------------------------------------------------------------
(* enable(): a committed marker closes every gate, then one transaction    *)
(* checks that nothing was stored and makes the form private.              *)

AnyMarker == Enabling
Retakable == {"stale"}

(* beginEnable(): the form_encryption primary key is the gate.             *)
Begin(e) ==
  /\ pc[e] = "begin"
  /\ \/ /\ enc = "none"
        /\ enc' = "enabling"
        /\ Goto(e, "lockRow")
     \/ /\ enc \in Retakable
        /\ Goto(e, "retake")
        /\ UNCHANGED enc
     \/ /\ enc \notin Retakable \cup {"none"}
        /\ Goto(e, "done")
        /\ UNCHANGED enc
  /\ UNCHANGED <<sqlite, mirror, count, lock, cut, requestVars, erased, formRow, enabled,
                 seen, listed>>

WithoutRow == "none"

(* The DELETE asks for any marker: it may not be the stale one any more.   *)
WithoutMarker == IF enc \in Enabling THEN "none" ELSE enc

Retake(e) ==
  /\ pc[e] = "retake"
  /\ enc' = WithoutMarker
  /\ Goto(e, "again")
  /\ UNCHANGED <<sqlite, mirror, count, lock, cut, requestVars, erased, formRow, enabled,
                 seen, listed>>

BeginAgain(e) ==
  /\ pc[e] = "again"
  /\ \/ /\ enc = "none"
        /\ enc' = "enabling"
        /\ Goto(e, "lockRow")
     \/ /\ enc # "none"
        /\ Goto(e, "done")
        /\ UNCHANGED enc
  /\ UNCHANGED <<sqlite, mirror, count, lock, cut, requestVars, erased, formRow, enabled,
                 seen, listed>>

(* The forms row FOR UPDATE, then the transaction's snapshot of MySQL.     *)
LockRow(e) ==
  /\ pc[e] = "lockRow"
  /\ formRow = None
  /\ formRow' = e
  /\ seen' = [seen EXCEPT ![e] = mirror]
  /\ Goto(e, IF enc = "active" THEN "abort" ELSE "preflight")
  /\ UNCHANGED <<sqlite, mirror, count, lock, cut, requestVars, erased, enc, enabled, listed>>

(* preflightReasons(): neither store has a response.  The other reasons    *)
(* and the signatures may refuse as well.                                  *)
Clear(e) == sqlite = {} /\ seen[e] = {}

Preflight(e) ==
  /\ pc[e] = "preflight"
  /\ \/ Clear(e) /\ Goto(e, "activate")
     \/ Goto(e, "abort")
  /\ UNCHANGED <<sqlite, mirror, count, lock, cut, requestVars, otherVars>>

(* The key rows and the change of state, committed together.  The key rows *)
(* are unique per form, so they are written once.                          *)
Activate(e) ==
  /\ pc[e] = "activate"
  /\ \/ /\ enabled = {}
        /\ enc' = IF enc \in Enabling THEN "active" ELSE enc
        /\ formRow' = None
        /\ enabled' = {e}
        /\ Goto(e, "done")
     \/ /\ enabled # {}
        /\ Goto(e, "abort")
        /\ UNCHANGED <<enc, formRow, enabled>>
  /\ UNCHANGED <<sqlite, mirror, count, lock, cut, requestVars, erased, seen, listed>>

(* The rollback, then abortEnable() in a statement of its own.             *)
Abort(e) ==
  /\ pc[e] = "abort"
  /\ \/ /\ formRow = e
        /\ formRow' = None
        /\ UNCHANGED <<pc, enc>>
     \/ /\ formRow # e
        /\ enc' = WithoutMarker
        /\ Goto(e, "done")
        /\ UNCHANGED formRow
  /\ UNCHANGED <<sqlite, mirror, count, lock, cut, requestVars, erased, enabled, seen, listed>>

Enable(e) ==
  \/ Begin(e) \/ Retake(e) \/ BeginAgain(e) \/ LockRow(e)
  \/ Preflight(e) \/ Activate(e) \/ Abort(e)

-----------------------------------------------------------------------------
(* What goes wrong around them.                                            *)

Crash(a) ==
  /\ "crash" \in Hazards
  /\ pc[a] \in Steps
  /\ Goto(a, "dead")
  /\ lock' = IF lock = a THEN None ELSE lock
  /\ formRow' = IF formRow = a THEN None ELSE formRow
  /\ UNCHANGED <<sqlite, mirror, count, cut, requestVars, erased, enc, enabled, seen, listed>>

Cut(r) ==
  /\ "cut" \in Hazards
  /\ pc[r] \in Steps
  /\ cut' = cut \cup {r}
  /\ lock' = Unlocked(r)
  /\ UNCHANGED <<pc, sqlite, mirror, count, requestVars, otherVars>>

(* ENABLING_STALE_SECONDS pass.  An enable is over by then, so only a dead *)
(* enabler's marker grows stale.                                           *)
GrowStale ==
  /\ enc = "enabling"
  /\ \A e \in Enablers : pc[e] \in {"begin", "retake", "again", "done", "dead"}
  /\ enc' = "stale"
  /\ UNCHANGED <<pc, sqlite, mirror, count, lock, cut, requestVars, erased, formRow, enabled,
                 seen, listed>>

Next ==
  \/ \E r \in Requests : Submit(r) \/ Cut(r)
  \/ \E d \in Deleters : Delete(d)
  \/ \E e \in Enablers : Enable(e)
  \/ \E p \in Repairers : Repair(p)
  \/ \E a \in Actors \ Repairers : Crash(a)
  \/ GrowStale

Spec == Init /\ [][Next]_vars

(* A request runs to its end unless its process dies, and the reconcile    *)
(* job comes round again.                                                  *)
Fairness ==
  /\ \A r \in Requests : WF_vars(Submit(r))
  /\ \A d \in Deleters : WF_vars(Delete(d))
  /\ \A p \in Repairers : WF_vars(Repair(p))

FairSpec == Spec /\ Fairness

-----------------------------------------------------------------------------
(* Properties                                                              *)

(* A response that was answered "created" is in the authoritative store    *)
(* until an owner deletes it.                                              *)
CreatedIsStored ==
  \A r \in Requests : outcome[r] = "created" => r \in sqlite \cup erased

(* A plaintext response that was answered "created" has its metadata row   *)
(* as well, so that lists, statistics and retention see it: of the two     *)
(* stores never just one is left holding it.  Only a reconcile job that    *)
(* acts on what it read earlier takes the mirror row of a new response.    *)
CreatedIsMirrored ==
  \A r \in Plain : outcome[r] = "created" => r \in mirror \cup erased

(* A submission that was refused, or whose script ran without a record,    *)
(* left nothing in the authoritative store: sending it again stores it     *)
(* once.                                                                   *)
RefusedIsNotStored ==
  \A r \in Requests :
    outcome[r] \in {"opted_out", "script_ran", "refused"} => r \notin sqlite

(* "Try again" is never said of a submission whose script has acted, but   *)
(* for the privacy gate's own refusals.                                    *)
ActedIsNotRetried ==
  \A r \in acted : outcome[r] = "refused" => r \in blocked

(* The responses of a capped form that their submitters were told of fit   *)
(* under the cap, even when a lock was lost on the way.                    *)
AnsweredWithinQuota ==
  Quota # 0 => Cardinality({r \in sqlite : outcome[r] = "created"}) <= Quota

(* A private form holds no plaintext response: not in the mirror, and in   *)
(* SQLite none but those whose own request is about to take them out.      *)
PrivateFormHoldsNoPlaintext ==
  enc = "active" =>
    /\ mirror \cap Plain \subseteq erased
    /\ \A r \in sqlite \cap Plain : pc[r] \in {"mirror", "undo"}

(* An owner who was told the form is private now has a private form, for   *)
(* good: no other attempt at enabling, and no cleanup of one, undoes it.   *)
EnabledIsPrivate == enabled # {} => enc = "active"

(* Private is irreversible.                                                *)
PrivateForGood == [][enc = "active" => enc' = "active"]_vars

(* Where compensating deletes work, the form keeps the book of answers     *)
(* that ResponseBook describes: two databases, a script that may refuse    *)
(* late and undos that race with deletions look like one store from        *)
(* outside.                                                                *)
Book == INSTANCE ResponseBook WITH kept <- sqlite, told <- outcome

KeepsTheBook == Book!Spec

(* With the reconcile job coming round, drift between the stores ends:     *)
(* some day the mirror and the shown count have as many responses as the   *)
(* authoritative store, and stay so.                                       *)
DriftEnds ==
  <>[](Cardinality(mirror) = Cardinality(sqlite) /\ count = Cardinality(sqlite))
=============================================================================
