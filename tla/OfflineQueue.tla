---------------------------- MODULE OfflineQueue ----------------------------
(***************************************************************************)
(* The browser's queue of submissions that could not be sent: the row of   *)
(* each in IndexedDB, shared by the tabs of one account; the form that     *)
(* submits and falls back to the queue; the passes in which every tab      *)
(* sends the rows; the person who retries or discards one that failed; and *)
(* the service worker, which keeps a copy of a request that failed and     *)
(* replays it.  They all post to one endpoint whose ledger knows a         *)
(* submission by its idempotency key (SubmissionLedger has its inside).    *)
(*                                                                         *)
(* A definition that no action uses, just above one of the same shape, is  *)
(* a faulty variant of it: a bug a property is meant to catch.             *)
(***************************************************************************)
EXTENDS Naturals

CONSTANTS
  Subs,         \* submissions
  Tabs,         \* tabs with the app open
  Worker,       \* the service worker
  MaxAttempts,  \* MAX_ATTEMPTS
  LastKey,      \* a submission is given the keys 0 .. LastKey at most
  Hazards       \* what may go wrong in a run, a subset of AllHazards

AllHazards ==
  {"crash",  \* a tab is closed between two steps
   "aged"}  \* a failed row outlives FAILED_RETENTION_MS

Clients == Tabs \cup Subs \cup {Worker}  \* a form is named by its submission
Keys == 0 .. LastKey

ASSUME QueueAssumption ==
  /\ MaxAttempts \in Nat \ {0} /\ LastKey \in Nat
  /\ Hazards \subseteq AllHazards
  /\ Tabs \cap Subs = {} /\ Worker \notin Tabs \cup Subs

VARIABLES
  open,     \* the tabs that have the app open
  scripted, \* submissions to a form whose script may act
  form,     \* form[s]: "blank", or "done" once the person was told it is safe
  key,      \* key[s]: the key the form would send it under
  minted,   \* minted[s]: the last key made for it
  row,      \* row[s]: its row in the queue, NoRow without one
  todo,     \* todo[t]: the rows the pass of a tab still has to go through
  call,     \* call[c]: the request a client has out
  copies,   \* the service worker's copies, each a submission and its key
  ledger,   \* ledger[s][k]: what the server knows of a key
  records,  \* records[s]: the records it has stored of a submission
  gone      \* submissions discarded, or removed by the retention rules

\* What never changes, what the server leaves alone, what the device does.
setting == <<open, scripted>>
device == <<setting, form, key, minted, row, todo, gone>>
server == <<setting, ledger, records>>
vars == <<open, scripted, form, key, minted, row, todo, call, copies, ledger, records, gone>>

(***************************************************************************)
(* Rows and requests.                                                      *)
(***************************************************************************)
Failures == {"conflict", "gave-up", "unrecognised", "script-ran"}
Statuses == {"none", "pending", "syncing", "failed"}
Row == [status : Statuses, key : Keys, attempts : 0 .. MaxAttempts,
        failure : Failures \cup {"-"}, old : BOOLEAN]
NoRow == [status |-> "none", key |-> 0, attempts |-> 0, failure |-> "-", old |-> FALSE]

\* A fault: the queue makes a key of its own for what the form has sent.
RowOfItsOwn(k) == [NoRow EXCEPT !.status = "pending",
                                !.key = IF k < LastKey THEN k + 1 ELSE k]

FreshRow(k) == [NoRow EXCEPT !.status = "pending", !.key = k]

Queued(s) == row[s].status # "none"

Answers ==
  {"stored",        \* 2xx with the record's id, new or replayed
   "processing",    \* 409: the key is being worked on
   "conflict",      \* 409: the key belongs to a different submission
   "scriptRan",     \* the form's script acted and nothing was stored
   "refused",       \* judged, and not stored
   "later",         \* 408, 429, 502, 503 or 504
   "unrecognised",  \* 2xx that is not the endpoint's
   "silence"}       \* no response at all

Entries == {"none", "busy", "done", "acted", "other"}

Idle == [at |-> "idle", sub |-> "-", key |-> 0, attempts |-> 0, answer |-> "-"]
Out(at, answers) == [at : at, sub : Subs, key : Keys, attempts : 0 .. MaxAttempts,
                     answer : answers]
Call == {Idle} \cup Out({"sent", "held"}, {"-"}) \cup Out({"answered"}, Answers)
Post(s, k, n) == [at |-> "sent", sub |-> s, key |-> k, attempts |-> n, answer |-> "-"]
Answered(c, a) == [call[c] EXCEPT !.at = "answered", !.answer = a]

(* isUnreachableStatus: nothing about the submission was judged.           *)
Unreached(a) == a \in {"later", "silence"}

(* listQueue: a failed row is removed once its retention period is over.   *)
Expired == {s \in Subs : row[s].status = "failed" /\ row[s].old}
Swept(r) == [s \in Subs |-> IF s \in Expired THEN NoRow ELSE r[s]]

Init ==
  /\ open \in SUBSET Tabs \ {{}}
  /\ scripted \in SUBSET Subs
  /\ form = [s \in Subs |-> "blank"]
  /\ key = [s \in Subs |-> 0]
  /\ minted = [s \in Subs |-> 0]
  /\ row = [s \in Subs |-> NoRow]
  /\ todo = [t \in Tabs |-> {}]
  /\ call = [c \in Clients |-> Idle]
  /\ copies = {}
  /\ ledger \in [Subs -> {[k \in Keys |-> "none"], [k \in Keys |-> IF k = 0 THEN "other" ELSE "none"]}]
  /\ records = [s \in Subs |-> 0]
  /\ gone = {}

(***************************************************************************)
(* The form.  Its key is kept until the person is told the submission is   *)
(* safe, so that a second try cannot store it twice.                       *)
(***************************************************************************)
\* navigator.onLine is false: straight to the queue.
SubmitOffline(s) ==
  /\ form[s] = "blank" /\ call[s] = Idle
  /\ row' = [row EXCEPT ![s] = FreshRow(key[s])]
  /\ form' = [form EXCEPT ![s] = "done"]
  /\ UNCHANGED <<key, minted, todo, call, copies, server, gone>>

SubmitOnline(s) ==
  /\ form[s] = "blank" /\ call[s] = Idle
  /\ call' = [call EXCEPT ![s] = Post(s, key[s], 0)]
  /\ UNCHANGED <<device, copies, server>>

FormAnswered(s) ==
  /\ call[s].at = "answered"
  /\ call' = [call EXCEPT ![s] = Idle]
  /\ \/ /\ call[s].answer = "stored"
        /\ form' = [form EXCEPT ![s] = "done"]
        /\ UNCHANGED <<key, minted, row>>
     \/ \* No status: queued under the same key, wherever the request got to.
        /\ call[s].answer \in {"silence", "unrecognised"}
        /\ row' = [row EXCEPT ![s] = FreshRow(call[s].key)]
        /\ form' = [form EXCEPT ![s] = "done"]
        /\ UNCHANGED <<key, minted>>
     \/ \* Sending it again is the person's choice, under a new key.
        /\ call[s].answer = "scriptRan"
        /\ minted[s] < LastKey
        /\ minted' = [minted EXCEPT ![s] = @ + 1]
        /\ key' = [key EXCEPT ![s] = minted[s] + 1]
        /\ UNCHANGED <<form, row>>
     \/ \* An error is shown, and the key kept (a 2xx in JSON is one as well).
        /\ call[s].answer \notin {"stored", "silence", "scriptRan"}
        /\ UNCHANGED <<form, key, minted, row>>
  /\ UNCHANGED <<todo, copies, server, gone>>

(***************************************************************************)
(* A tab's pass over the queue.  todo[t] and call[t] are its position:     *)
(* `flushing` is whether it has one.                                       *)
(***************************************************************************)
Flushing(t) == todo[t] # {} \/ call[t] # Idle

StartPass(t) ==
  /\ t \in open /\ ~Flushing(t)
  /\ row' = Swept(row)
  /\ gone' = gone \cup Expired
  /\ todo' = [todo EXCEPT ![t] = {s \in Subs : row'[s].status # "none"}]
  /\ todo'[t] # {}
  /\ UNCHANGED <<form, key, minted, call, copies, server>>

\* The row is read again, marked and sent; or left, if failed or gone.
Claim(t) ==
  /\ call[t] = Idle
  /\ \E s \in todo[t] :
       /\ todo' = [todo EXCEPT ![t] = @ \ {s}]
       /\ \/ /\ row[s].status \in {"pending", "syncing"}
             /\ row' = [row EXCEPT ![s].status = "syncing"]
             /\ call' = [call EXCEPT ![t] = Post(s, row[s].key, row[s].attempts)]
          \/ /\ row[s].status \in {"none", "failed"}
             /\ UNCHANGED <<row, call>>
  /\ UNCHANGED <<form, key, minted, copies, server, gone>>

\* One more attempt; MaxAttempts stands for any number past it.
OneMore(n) == IF n < MaxAttempts THEN n + 1 ELSE MaxAttempts

\* The patch of a settled row.
Waits(s, n) == [row[s] EXCEPT !.status = "pending", !.attempts = n]
Fails(s, n, f) ==
  [row[s] EXCEPT !.status = "failed", !.attempts = n, !.failure = f, !.old = FALSE]

\* A fault: the cap is not checked.
TriedForever(s, n, f) == Waits(s, n)

Tried(s, n, f) == IF n >= MaxAttempts THEN Fails(s, n, f) ELSE Waits(s, n)

\* A fault: what was sent is only marked so.
MarkedSent(s) == [row[s] EXCEPT !.status = "sent"]

Sent(s) == NoRow

\* What an answer makes of the row as it is now, given the attempts it had
\* when it was sent.
Patched(s, n, a) ==
  CASE Unreached(a) -> [row[s] EXCEPT !.status = "pending"]
    [] a = "stored" -> Sent(s)
    [] a = "conflict" -> Fails(s, OneMore(n), "conflict")
    [] a = "scriptRan" -> Fails(s, OneMore(n), "script-ran")
    [] a = "unrecognised" -> Tried(s, OneMore(n), "unrecognised")
    [] OTHER -> Tried(s, OneMore(n), "gave-up")

\* A fault: the row is written without a look whether it is still there.
Whatever(s) == TRUE

StillThere(s) == Queued(s)

Settle(t) ==
  LET c == call[t] IN
  /\ c.at = "answered"
  /\ row' = IF StillThere(c.sub)
             THEN [row EXCEPT ![c.sub] = Patched(c.sub, c.attempts, c.answer)]
             ELSE row
  /\ todo' = [todo EXCEPT ![t] = IF Unreached(c.answer) THEN {} ELSE @]
  /\ call' = [call EXCEPT ![t] = Idle]
  /\ UNCHANGED <<form, key, minted, copies, server, gone>>

\* The tab is closed; what the server has begun it ends, and what has not
\* come to it does not come later.
CloseTab(t) ==
  /\ "crash" \in Hazards
  /\ Flushing(t)
  /\ todo' = [todo EXCEPT ![t] = {}]
  /\ call' = [call EXCEPT ![t] = Idle]
  /\ UNCHANGED <<form, key, minted, row, copies, server, gone>>

(***************************************************************************)
(* The person, and the retention period.                                   *)
(***************************************************************************)
Retry(s) ==
  /\ row[s].status = "failed" /\ ~row[s].old
  /\ row[s].failure # "conflict"
  /\ \/ /\ row[s].failure = "script-ran"
        /\ minted[s] < LastKey
        /\ minted' = [minted EXCEPT ![s] = @ + 1]
        /\ row' = Swept([row EXCEPT ![s] = FreshRow(minted[s] + 1)])
     \/ /\ row[s].failure # "script-ran"
        /\ row' = Swept([row EXCEPT ![s] = FreshRow(row[s].key)])
        /\ UNCHANGED minted
  /\ gone' = gone \cup Expired
  /\ UNCHANGED <<form, key, todo, call, copies, server>>

\* Whatever became of it since the screen listed it as failed: a row that
\* another tab sends by now goes as well.
Discard(s) ==
  /\ Queued(s) /\ s \notin Expired
  /\ row' = Swept([row EXCEPT ![s] = NoRow])
  /\ gone' = gone \cup Expired \cup {s}
  /\ copies' = copies \ {<<s, row[s].key>>}
  /\ UNCHANGED <<form, key, minted, todo, call, server>>

\* Signing out takes every row of the account off the device, and every copy.
SignOut ==
  /\ \E s \in Subs : Queued(s)
  /\ row' = [s \in Subs |-> NoRow]
  /\ gone' = gone \cup {s \in Subs : Queued(s)}
  /\ copies' = {}
  /\ todo' = [t \in Tabs |-> {}]
  /\ UNCHANGED <<form, key, minted, call, server>>

Age(s) ==
  /\ "aged" \in Hazards
  /\ row[s].status = "failed" /\ ~row[s].old
  /\ row' = [row EXCEPT ![s].old = TRUE]
  /\ UNCHANGED <<form, key, minted, todo, call, copies, server, gone>>

(***************************************************************************)
(* The service worker.  While it sends a copy, it has it out of its queue. *)
(***************************************************************************)
Replay ==
  /\ call[Worker] = Idle
  /\ \E p \in copies :
       /\ copies' = copies \ {p}
       /\ call' = [call EXCEPT ![Worker] = Post(p[1], p[2], 0)]
  /\ UNCHANGED <<device, server>>

Replayed ==
  LET c == call[Worker] IN
  /\ c.at = "answered"
  /\ copies' = IF Unreached(c.answer) \/ c.answer = "unrecognised"
                THEN copies \cup {<<c.sub, c.key>>} ELSE copies
  /\ call' = [call EXCEPT ![Worker] = Idle]
  /\ UNCHANGED <<device, server>>

(***************************************************************************)
(* The network and the server.                                             *)
(***************************************************************************)
Reach(c) ==
  LET e == ledger[call[c].sub][call[c].key] IN
  /\ call[c].at = "sent"
  /\ \/ /\ e = "none"
        /\ ledger' = [ledger EXCEPT ![call[c].sub][call[c].key] = "busy"]
        /\ call' = [call EXCEPT ![c].at = "held"]
     \/ /\ e # "none"
        /\ call' = [call EXCEPT ![c] = Answered(c,
              CASE e = "busy" -> "processing"
                [] e = "done" -> "stored"
                [] e = "acted" -> "scriptRan"
                [] e = "other" -> "conflict")]
        /\ UNCHANGED ledger
  /\ UNCHANGED <<device, copies, records>>

\* How the work on a key ends, and what whoever reserved it is answered.
Ends(s, k, a) ==
  /\ ledger' = [ledger EXCEPT ![s][k] =
       CASE a = "stored" -> "done" [] a = "scriptRan" -> "acted" [] OTHER -> "none"]
  /\ records' = [records EXCEPT ![s] = IF a = "stored" THEN @ + 1 ELSE @]

Judgements(s) ==
  {"stored", "refused"} \cup IF s \in scripted THEN {"scriptRan"} ELSE {}

Judge(c) ==
  /\ call[c].at = "held"
  /\ \E a \in Judgements(call[c].sub) :
       /\ Ends(call[c].sub, call[c].key, a)
       /\ call' = [call EXCEPT ![c] = Answered(c, a)]
  /\ UNCHANGED <<device, copies>>

Defer(c) ==
  /\ call[c].at = "held"
  /\ Ends(call[c].sub, call[c].key, "later")
  /\ call' = [call EXCEPT ![c] = Answered(c, "later")]
  /\ UNCHANGED <<device, copies>>

\* The client of a reservation has gone.
JudgeAlone(s, k) ==
  /\ ledger[s][k] = "busy"
  /\ ~\E c \in Clients : call[c].at = "held" /\ call[c].sub = s /\ call[c].key = k
  /\ \E a \in Judgements(s) : Ends(s, k, a)
  /\ UNCHANGED <<device, call, copies>>

\* No answer comes: the connection failed before the server or after it.
\* The service worker keeps a copy, if it is there.
Lose(c) ==
  /\ call[c].at \in {"sent", "held"}
  /\ call' = [call EXCEPT ![c] = Answered(c, "silence")]
  /\ \/ /\ c # Worker
        /\ copies' = copies \cup {<<call[c].sub, call[c].key>>}
     \/ UNCHANGED copies
  /\ UNCHANGED <<device, server>>

\* Something before the server answers: a gateway, or a sign-in page.
Intercept(c) ==
  /\ call[c].at = "sent"
  /\ \E a \in {"later", "unrecognised"} : call' = [call EXCEPT ![c] = Answered(c, a)]
  /\ UNCHANGED <<device, copies, server>>

Next ==
  \/ \E s \in Subs :
       \/ SubmitOffline(s) \/ SubmitOnline(s) \/ FormAnswered(s)
       \/ Retry(s) \/ Discard(s) \/ Age(s)
  \/ \E t \in Tabs : StartPass(t) \/ Claim(t) \/ Settle(t) \/ CloseTab(t)
  \/ SignOut \/ Replay \/ Replayed
  \/ \E c \in Clients :
       Reach(c) \/ Judge(c) \/ Defer(c) \/ Lose(c) \/ Intercept(c)
  \/ \E s \in Subs, k \in Keys : JudgeAlone(s, k)

Spec == Init /\ [][Next]_vars

(* Several tabs, or a form whose script acts, but not both: what two tabs  *)
(* do to a submission whose script has acted is queue_stale's.             *)
Calm == scripted = {} \/ \A t, u \in open : t = u

CalmInit == Init /\ Calm

CalmSpec == CalmInit /\ [][Next]_vars

(* Nothing sends the queue on a timer: a tab starts a pass because someone *)
(* reconnects, comes back to the page or asks for it.  Someone always does *)
(* again, an outage ends, and tabs are not closed for ever.                *)
Fairness ==
  /\ \A t \in Tabs :
       /\ WF_vars(StartPass(t) \/ Claim(t) \/ Settle(t))
       /\ SF_vars(Reach(t)) /\ SF_vars(Judge(t))
       /\ <>[][~CloseTab(t)]_vars
  /\ \A s \in Subs, k \in Keys : WF_vars(JudgeAlone(s, k))

FairSpec == CalmSpec /\ Fairness

-----------------------------------------------------------------------------
TypeOK ==
  /\ open \subseteq Tabs /\ scripted \subseteq Subs
  /\ form \in [Subs -> {"blank", "done"}]
  /\ key \in [Subs -> Keys] /\ minted \in [Subs -> Keys]
  /\ row \in [Subs -> Row]
  /\ todo \in [Tabs -> SUBSET Subs]
  /\ call \in [Clients -> Call]
  /\ copies \subseteq Subs \X Keys
  /\ ledger \in [Subs -> [Keys -> Entries]]
  /\ records \in [Subs -> Nat]
  /\ gone \subseteq Subs

(* The device keeps its promise: see Outbox.                               *)
Device == INSTANCE Outbox WITH
  held <- {s \in Subs : Queued(s)}, stored <- records, dropped <- gone
KeepsThePromise == Device!Spec

(* A submission in the queue is, in the end, sent or set aside for the     *)
(* person: whatever the tabs write over each other, no row is tried for    *)
(* ever (runPass).                                                         *)
QueueDrains ==
  \A s \in Subs :
    row[s].status \in {"pending", "syncing"} ~> row[s].status \in {"none", "failed"}

(* However often it is sent, a submission is stored once (the module's     *)
(* header: "Each queued item carries a stable idempotencyKey, so the       *)
(* server's payload-hash-aware ledger dedupes a replay").                  *)
StoredOnce == \A s \in Subs : records[s] <= 1
=============================================================================
