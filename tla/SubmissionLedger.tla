-------------------------- MODULE SubmissionLedger --------------------------
(***************************************************************************)
(* The submission idempotency ledger of the FormLogic backend              *)
(* (SubmissionIdempotencyService) and the requests that run around it: the *)
(* public form endpoint, its private (encrypted) branch, the external API  *)
(* and the app runtime.                                                    *)
(*                                                                         *)
(* Every copy of a submission - a retry, a service worker's replay, a      *)
(* second tab's flush - is a request of its own that carries the same key. *)
(* A request reserves the key by inserting a row (UNIQUE per scope and     *)
(* key), runs the submission pipeline and settles the row: completed with  *)
(* the response's id, held because the form's script acted outside, or     *)
(* released.  Each statement on the ledger is one step of a request, since *)
(* the code runs every one of them in autocommit.                          *)
(*                                                                         *)
(* The pipeline is abstracted to what the ledger's caller can tell apart:  *)
(* whether the script acted outside, whether a response was stored, and    *)
(* the outcome it reports.  ResponseStore models its steps.                *)
(*                                                                         *)
(* A definition that no action uses, just above one of the same shape, is  *)
(* a faulty variant of it: a bug a property is meant to catch.             *)
(***************************************************************************)
EXTENDS FiniteSets

CONSTANTS
  Requests,  \* HTTP requests; each makes at most one row and one response,
             \* so a request also names its lease id and its response id
  FormKeys,  \* (form, key) pairs of form_submission_idempotency
  AppKeys,   \* (app, form, key) triples of app_submission_idempotency
  Payloads,  \* hashes of a submission's body
  Hazards,   \* what may go wrong in a run, a subset of AllHazards
  None       \* no row, no response

AllHazards ==
  {"crash",     \* a request's process dies between two steps
   "slow",      \* a request may still be working after STALE_TAKEOVER_SECONDS
   "ledger",    \* a ledger statement fails, or its answer is lost
   "expiry",    \* the cleanup job's retention window passes
   "enabling",  \* encryption is being enabled while a script runs
   "links"}     \* the app route can't read the form to index a stored
                \* response's links

ASSUME HazardsAssumption == Hazards \subseteq AllHazards
ASSUME NoneAssumption == None \notin Requests
ASSUME KeysAssumption == FormKeys \cap AppKeys = {}

Keys == FormKeys \cup AppKeys

(* The two tables never share a row: an app member's submission is scoped  *)
(* by app and form, the other routes by form alone.                        *)
RoutesOf(k) == IF k \in AppKeys THEN {"app"} ELSE {"public", "private", "external"}
Routes == {"public", "private", "external", "app"}

(* Routes that answer 503 when the ledger can't say who owns the key; the  *)
(* others submit without it.                                               *)
FailsClosed == {"external", "app"}

VARIABLES
  sub,      \* sub[r]: the submission a request carries (never changes)
  pc,       \* pc[r]: the step the request is about to take
  ledger,   \* ledger[k]: the key's row, or None
  owns,     \* requests that believe they own a reservation
  acted,    \* requests whose onSubmit script reached outside
  stored,   \* requests whose response was stored in both stores
  optedOut, \* requests accepted with nothing stored ({store: false})
  outcome,  \* outcome[r]: what the pipeline reported
  reply     \* reply[r]: what the client was told

vars == <<sub, pc, ledger, owns, acted, stored, optedOut, outcome, reply>>
pipelineVars == <<acted, stored, optedOut, outcome>>

Submissions ==
  {s \in [key: Keys, hash: Payloads, route: Routes] : s.route \in RoutesOf(s.key)}
Ages == {"young", "stale", "expired"}
Rows == [lease: Requests, hash: Payloads, resp: Requests \cup {None},
         status: {"pending", "completed", "script_ran"}, age: Ages]

ASSUME NoRowAssumption == None \notin Rows

Steps == {"reserve", "find", "takeOver", "reserveAgain", "script", "store", "settle"}
InFlight == {r \in Requests : pc[r] \in Steps}
Outcomes == {"none", "created", "script_ran", "refused"}
Replies == [kind: {"none", "created", "replayed", "conflict", "processing",
                   "script_ran", "retry", "refused"},
            id: Requests \cup {None}]

Key(r) == sub[r].key
NoReply == [kind |-> "none", id |-> None]

TypeOK ==
  /\ sub \in [Requests -> Submissions]
  /\ pc \in [Requests -> Steps \cup {"done", "dead"}]
  /\ ledger \in [Keys -> Rows \cup {None}]
  /\ owns \subseteq Requests
  /\ acted \subseteq Requests
  /\ stored \subseteq Requests
  /\ optedOut \subseteq Requests
  /\ outcome \in [Requests -> Outcomes]
  /\ reply \in [Requests -> Replies]

(* An envelope and a plaintext body never have the same hash.              *)
HashesTellRoutes ==
  \A r, s \in Requests :
    sub[r].hash = sub[s].hash => (sub[r].route = "private" <=> sub[s].route = "private")

Init ==
  /\ sub \in [Requests -> Submissions]
  /\ HashesTellRoutes
  /\ pc = [r \in Requests |-> "reserve"]
  /\ ledger = [k \in Keys |-> None]
  /\ owns = {}
  /\ acted = {}
  /\ stored = {}
  /\ optedOut = {}
  /\ outcome = [r \in Requests |-> "none"]
  /\ reply = [r \in Requests |-> NoReply]

-----------------------------------------------------------------------------
(* Answering, and the two ways into the pipeline.                          *)

Goto(r, step) == pc' = [pc EXCEPT ![r] = step]

AnswerWith(r, kind, id) ==
  /\ Goto(r, "done")
  /\ reply' = [reply EXCEPT ![r] = [kind |-> kind, id |-> id]]

(* 'unavailable': nobody can say whether another copy owns the key.        *)
Unprotected(r) ==
  /\ IF sub[r].route \in FailsClosed
     THEN AnswerWith(r, "retry", None)
     ELSE Goto(r, "script") /\ UNCHANGED reply
  /\ UNCHANGED owns

BecomeOwner(r) ==
  /\ owns' = owns \cup {r}
  /\ Goto(r, "script")
  /\ UNCHANGED reply

WriteRow(r) ==
  ledger' = [ledger EXCEPT ![Key(r)] =
               [lease |-> r, hash |-> sub[r].hash, resp |-> None,
                status |-> "pending", age |-> "young"]]

DropRow(k) == ledger' = [ledger EXCEPT ![k] = None]

-----------------------------------------------------------------------------
(* reserve(): the INSERT, and the SELECT a duplicate key leads to.         *)

Reserve(r) ==
  /\ pc[r] = "reserve"
  /\ \/ /\ ledger[Key(r)] = None
        /\ WriteRow(r)
        /\ BecomeOwner(r)
     \/ /\ ledger[Key(r)] # None
        /\ Goto(r, "find")
        /\ UNCHANGED <<ledger, owns, reply>>
  /\ UNCHANGED <<sub, pipelineVars>>

ReserveFails(r) ==
  /\ "ledger" \in Hazards
  /\ pc[r] = "reserve"
  /\ \/ UNCHANGED ledger
     \/ ledger[Key(r)] = None /\ WriteRow(r)    \* committed, the answer lost
  /\ Unprotected(r)
  /\ UNCHANGED <<sub, pipelineVars>>

FoundRowUnchecked(r, row) ==
  \/ row.resp # None /\ AnswerWith(r, "replayed", row.resp)
  \/ row.resp = None /\ Goto(r, "takeOver") /\ UNCHANGED reply

(* What an existing row means to this copy.  The private branch has no     *)
(* script and so no script_ran answer: it goes on to a takeover.           *)
FoundRow(r, row) ==
  \/ /\ row.hash # sub[r].hash
     /\ AnswerWith(r, "conflict", None)
  \/ /\ row.hash = sub[r].hash
     /\ row.resp # None
     /\ AnswerWith(r, "replayed", row.resp)
  \/ /\ row.hash = sub[r].hash
     /\ row.resp = None
     /\ row.status = "script_ran" /\ sub[r].route # "private"
     /\ AnswerWith(r, "script_ran", None)
  \/ /\ row.hash = sub[r].hash
     /\ row.resp = None
     /\ row.status # "script_ran" \/ sub[r].route = "private"
     /\ Goto(r, "takeOver")
     /\ UNCHANGED reply

Find(r) ==
  /\ pc[r] = "find"
  /\ \/ /\ ledger[Key(r)] # None
        /\ FoundRow(r, ledger[Key(r)])
        /\ UNCHANGED owns
     \/ /\ ledger[Key(r)] = None      \* released meanwhile
        /\ Unprotected(r)
  /\ UNCHANGED <<sub, ledger, pipelineVars>>

FindFails(r) ==
  /\ "ledger" \in Hazards
  /\ pc[r] = "find"
  /\ Unprotected(r)
  /\ UNCHANGED <<sub, ledger, pipelineVars>>

-----------------------------------------------------------------------------
(* takeOver(): the guarded DELETE of an abandoned row, then a second        *)
(* reserve() that another copy can still win.                              *)

AbandonedAnyAge(row) == row # None /\ row.status = "pending"
AbandonedAnyStatus(row) == row # None /\ row.age # "young"
NeverAbandoned(row) == FALSE

Abandoned(row) == row # None /\ row.status = "pending" /\ row.age # "young"

TakeOver(r) ==
  /\ pc[r] = "takeOver"
  /\ \/ /\ Abandoned(ledger[Key(r)])
        /\ DropRow(Key(r))
        /\ Goto(r, "reserveAgain")
        /\ UNCHANGED reply
     \/ /\ ~Abandoned(ledger[Key(r)])
        /\ AnswerWith(r, "processing", None)
        /\ UNCHANGED ledger
  /\ UNCHANGED <<sub, owns, pipelineVars>>

TakeOverFails(r) ==
  /\ "ledger" \in Hazards
  /\ pc[r] = "takeOver"
  /\ \/ UNCHANGED ledger
     \/ Abandoned(ledger[Key(r)]) /\ DropRow(Key(r))
  /\ AnswerWith(r, "processing", None)
  /\ UNCHANGED <<sub, owns, pipelineVars>>

ReserveAgain(r) ==
  /\ pc[r] = "reserveAgain"
  /\ \/ /\ ledger[Key(r)] = None
        /\ WriteRow(r)
        /\ BecomeOwner(r)
     \/ /\ ledger[Key(r)] # None
        /\ AnswerWith(r, "processing", None)
        /\ UNCHANGED <<ledger, owns>>
  /\ UNCHANGED <<sub, pipelineVars>>

ReserveAgainFails(r) ==
  /\ "ledger" \in Hazards
  /\ pc[r] = "reserveAgain"
  /\ \/ UNCHANGED ledger
     \/ ledger[Key(r)] = None /\ WriteRow(r)
  /\ AnswerWith(r, "processing", None)
  /\ UNCHANGED <<sub, owns, pipelineVars>>

-----------------------------------------------------------------------------
(* The submission pipeline, as its caller sees it.                         *)

(* Everything up to the script's verdict: a refused check or a full form   *)
(* refuses before anything acts, a script may act outside and then accept, *)
(* reject, fail or keep the record out of the store.                       *)
Script(r) ==
  /\ pc[r] = "script"
  /\ \E acts \in IF sub[r].route = "private" THEN {FALSE} ELSE BOOLEAN :
       /\ acted' = IF acts THEN acted \cup {r} ELSE acted
       /\ \/ /\ Goto(r, "store")
             /\ UNCHANGED <<optedOut, outcome>>
          \/ /\ Goto(r, "settle")
             /\ outcome' = [outcome EXCEPT ![r] = IF acts THEN "script_ran" ELSE "refused"]
             /\ UNCHANGED optedOut
          \/ /\ sub[r].route # "private"
             /\ Goto(r, "settle")
             /\ optedOut' = optedOut \cup {r}
             /\ outcome' = [outcome EXCEPT ![r] = "created"]
  /\ UNCHANGED <<sub, ledger, owns, stored, reply>>

StoreOutcomeForgotten(r) == "refused"
StoreOutcomeUncoded(r) == IF r \in acted THEN "script_ran" ELSE "error"

(* The two inserts.  A failure is compensated; it is reported as           *)
(* script_ran when the script acted, except the encryption gate's refusal. *)
(* The app route reads the form once more after both, to index the links,  *)
(* and a failure of that read is answered as a failure to store.           *)
StoreOutcome(r) == IF r \in acted THEN "script_ran" ELSE "refused"

(* An envelope carries the id of its record, so a second copy of it meets   *)
(* the primary key of the form's responses and is refused.                 *)
RecordExists(r) ==
  \E s \in stored :
    sub[r].route = "private" /\ sub[s].route = "private" /\ sub[s].hash = sub[r].hash

Store(r) ==
  /\ pc[r] = "store"
  /\ Goto(r, "settle")
  /\ \/ /\ ~RecordExists(r)
        /\ stored' = stored \cup {r}
        /\ outcome' = [outcome EXCEPT ![r] = "created"]
     \/ /\ outcome' = [outcome EXCEPT ![r] = StoreOutcome(r)]
        /\ UNCHANGED stored
     \/ /\ "enabling" \in Hazards
        /\ outcome' = [outcome EXCEPT ![r] = "refused"]
        /\ UNCHANGED stored
     \/ /\ "links" \in Hazards
        /\ sub[r].route = "app"
        /\ stored' = stored \cup {r}
        /\ outcome' = [outcome EXCEPT ![r] = "refused"]
  /\ UNCHANGED <<sub, ledger, owns, acted, optedOut, reply>>

-----------------------------------------------------------------------------
(* complete(), holdAfterScript() and release(), each on the caller's own   *)
(* lease only and on a pending row only.                                   *)

OwnRowAnyLease(r) ==
  /\ ledger[Key(r)] # None
  /\ ledger[Key(r)].status = "pending"

OwnRow(r) ==
  /\ ledger[Key(r)] # None
  /\ ledger[Key(r)].lease = r
  /\ ledger[Key(r)].status = "pending"

SettleRow(r) ==
  \/ /\ outcome[r] = "created"
     /\ ledger' = [ledger EXCEPT ![Key(r)].resp = r, ![Key(r)].status = "completed"]
  \/ /\ outcome[r] = "script_ran"
     /\ ledger' = [ledger EXCEPT ![Key(r)].status = "script_ran"]
  \/ /\ outcome[r] = "refused"
     /\ DropRow(Key(r))

PipelineAnswer(r) ==
  AnswerWith(r, outcome[r], IF outcome[r] = "created" THEN r ELSE None)

Settle(r) ==
  /\ pc[r] = "settle"
  /\ IF r \in owns /\ OwnRow(r) THEN SettleRow(r) ELSE UNCHANGED ledger
  /\ PipelineAnswer(r)
  /\ UNCHANGED <<sub, owns, pipelineVars>>

SettleFails(r) ==
  /\ "ledger" \in Hazards
  /\ pc[r] = "settle"
  /\ r \in owns
  /\ PipelineAnswer(r)
  /\ UNCHANGED <<sub, ledger, owns, pipelineVars>>

-----------------------------------------------------------------------------
(* The surroundings: clients, crashes, the clock and the cleanup job.      *)

(* A client that is told to wait sends the same submission again.  Such an *)
(* answer leaves nothing behind, so it may reuse the request's name; with  *)
(* ledger failures a row may be left, and the retry is a request of its    *)
(* own.                                                                    *)
Resend(r) ==
  /\ "ledger" \notin Hazards
  /\ pc[r] = "done"
  /\ reply[r].kind \in {"processing", "retry"}
  /\ Goto(r, "reserve")
  /\ reply' = [reply EXCEPT ![r] = NoReply]
  /\ UNCHANGED <<sub, ledger, owns, pipelineVars>>

Crash(r) ==
  /\ "crash" \in Hazards
  /\ r \in InFlight
  /\ Goto(r, "dead")
  /\ UNCHANGED <<sub, ledger, owns, pipelineVars, reply>>

(* created_at falls behind NOW() - STALE_TAKEOVER_SECONDS.  Without the    *)
(* "slow" hazard a request is answered or dead by then.                    *)
GrowStale(k) ==
  /\ ledger[k] # None
  /\ ledger[k].age = "young"
  /\ "slow" \in Hazards \/ ledger[k].lease \notin InFlight
  /\ ledger' = [ledger EXCEPT ![k].age = "stale"]
  /\ UNCHANGED <<sub, pc, owns, pipelineVars, reply>>

GrowExpired(k) ==
  /\ "expiry" \in Hazards
  /\ ledger[k] # None
  /\ ledger[k].age = "stale"
  /\ "slow" \in Hazards \/ ledger[k].lease \notin InFlight
  /\ ledger' = [ledger EXCEPT ![k].age = "expired"]
  /\ UNCHANGED <<sub, pc, owns, pipelineVars, reply>>

(* idempotency-cleanup.php deletes by age alone, whatever the status.      *)
Cleanup(k) ==
  /\ ledger[k] # None
  /\ ledger[k].age = "expired"
  /\ DropRow(k)
  /\ UNCHANGED <<sub, pc, owns, pipelineVars, reply>>

Work(r) ==
  \/ Reserve(r) \/ Find(r) \/ TakeOver(r) \/ ReserveAgain(r)
  \/ Script(r) \/ Store(r) \/ Settle(r)

LedgerFailure(r) ==
  \/ ReserveFails(r) \/ FindFails(r) \/ TakeOverFails(r)
  \/ ReserveAgainFails(r) \/ SettleFails(r)

Next ==
  \/ \E r \in Requests : Work(r) \/ LedgerFailure(r) \/ Resend(r) \/ Crash(r)
  \/ \E k \in Keys : GrowStale(k) \/ GrowExpired(k) \/ Cleanup(k)

Spec == Init /\ [][Next]_vars

(* PHP runs a request to its end unless its process dies, the native       *)
(* offline queue keeps an item that is told to wait, whatever its          *)
(* attempts, and sends it again, and time passes.                          *)
Fairness ==
  /\ \A r \in Requests : WF_vars(Work(r)) /\ WF_vars(Resend(r))
  /\ \A k \in Keys : WF_vars(GrowStale(k))

FairSpec == Spec /\ Fairness

-----------------------------------------------------------------------------
(* Properties                                                              *)

SameKey(r, s) == r # s /\ Key(r) = Key(s)

Accepted == stored \cup optedOut

(* A completed row names the response its own lease produced, for the very *)
(* payload the row was reserved with: a slow original whose reservation    *)
(* was taken over never stamps its response over the successor's row.      *)
CompletedByItsLease ==
  \A k \in Keys :
    ledger[k] # None =>
      /\ Key(ledger[k].lease) = k
      /\ ledger[k].hash = sub[ledger[k].lease].hash
      /\ ledger[k].resp # None <=> ledger[k].status = "completed"
      /\ ledger[k].status = "completed" =>
           ledger[k].resp = ledger[k].lease /\ ledger[k].lease \in Accepted
      /\ ledger[k].status = "script_ran" => ledger[k].lease \in acted \ Accepted

(* A client told "already submitted" gets the id of a response that was    *)
(* accepted for the same key and the same body.                            *)
ReplayNamesAnAcceptedTwin ==
  \A r \in Requests :
    reply[r].kind = "replayed" =>
      /\ reply[r].id \in Accepted
      /\ SameKey(r, reply[r].id)
      /\ sub[reply[r].id].hash = sub[r].hash

(* Until its row is abandoned or expires, a key's row is settled by its own *)
(* lease and by nobody else: no step of another copy, however late,        *)
(* completes, holds or deletes it.                                         *)
RowOutlivesOthers ==
  [][\A k \in Keys :
       (ledger[k] # None /\ ledger[k].age = "young" /\ ledger'[k] # ledger[k]) =>
         \/ pc[ledger[k].lease] = "settle" /\ pc'[ledger[k].lease] = "done"
         \/ ledger'[k] = [ledger[k] EXCEPT !.age = "stale"]]_vars

(* Of the copies of one submission at most one response is stored, unless  *)
(* the process that stored it died before it could say so.                 *)
OneStoredPerKey ==
  \A r, s \in stored : SameKey(r, s) => pc[r] = "dead" \/ pc[s] = "dead"

(* A script that acted outside acts once per submission: the key is kept,  *)
(* so no copy runs it again by itself, unless the first one's process died.*)
ScriptActsOncePerKey ==
  \A r, s \in acted : SameKey(r, s) => pc[r] = "dead" \/ pc[s] = "dead"

(* No two copies of a submission are in the pipeline at the same time.     *)
OnePipelinePerKey ==
  \A r, s \in Requests :
    SameKey(r, s) => ~(pc[r] \in {"script", "store", "settle"}
                       /\ pc[s] \in {"script", "store", "settle"})

(* With the ledger answering and every request done or dead within         *)
(* STALE_TAKEOVER_SECONDS, the routes that fail closed give each key one    *)
(* response and tell every copy's client of that one.                      *)
Once == INSTANCE SubmitOnce WITH
  key <- [r \in Requests |-> Key(r)],
  result <- [k \in Keys |-> IF ledger[k] = None THEN None ELSE ledger[k].resp],
  told <- [r \in Requests |-> reply[r].id]

SubmitsOnce == Once!Spec

(* A crashed owner never wedges its key: a copy that keeps asking gets a   *)
(* final answer.                                                           *)
EveryCopyIsAnswered ==
  \A r \in Requests :
    [](pc[r] = "reserve" =>
         <>(\/ pc[r] = "dead"
            \/ pc[r] = "done" /\ reply[r].kind \notin {"processing", "retry"}))
=============================================================================
