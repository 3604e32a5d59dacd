# FormLogic, specified in TLA+

This directory specifies the parts of FormLogic whose correctness depends on the
order in which things happen: what a client is told when a submission is retried,
what two databases hold when a process dies between them, what an owner may believe
after turning a form private, how often a flow runs, what becomes of a submission that
was made offline, in which order a call's events are worked through.
TLC checks the models on small instances, and TLAPS proves the most important properties
for any number of requests, keys, payloads, tabs and items.

Paths below are relative to `src/formlogic/`; *the backend* is `backend/src/`.

## 1. The system

FormLogic is a form and app platform: a PHP backend (Slim, MySQL for metadata, one
SQLite file per form for its answers), a React client with offline queues, a native
runtime in Rust, and cron jobs.  No daemon holds state in memory: every actor is a
PHP request, a cron job or a client, and everything they share is in MySQL, SQLite
or on disk.  Most statements run in autocommit, so an operation is a sequence of
small steps with other actors between them.

| component | state | operations | hard behaviour |
|---|---|---|---|
| Submission ledger (`Services/SubmissionIdempotencyService.php`, used by `ResponseController`, `ExternalApiController`, `AppPublicController`; `bin/idempotency-cleanup.php`) | a row per (scope, key): lease, body hash, response, status, age | reserve, find, takeOver, complete, holdAfterScript, release; cleanup by age | concurrent copies, crashed owners, slow owners, statements that fail after committing |
| Responses (`Services/ResponseService.php`) | SQLite `responses`, MySQL `response_metadata`, `forms.response_count`, the form's `GET_LOCK` | create (plaintext, envelope), delete one, delete all, count | two databases without a common transaction, compensation, lost connections |
| Reconcile job (`Services/ReconcileService.php`) | reads both stores | mirror repair, count resync | acts on what it read earlier |
| Enabling encryption (`Services/FormEncryptionService.php`) | `form_encryption` row, key rows, the `forms` row lock | begin, retake, activate, abort | a durable marker, a stale one, submissions already past the gate |
| Flow runs (`Services/FlowService.php`, `bin/flow-runs-reclaim.php`, `bin/flow-outcome-dispatch.php`) | run rows, outcome events | reserve, claim, complete, reclaim, dispatch | claims from several runtimes, reclaim against late completion, once-per-root handlers |
| Desktop commands and relays (`Services/DesktopCommandService.php`, `DesktopFlowRelayService.php`, `DesktopAiRelayService.php`) | command rows, a cursor per poller | queue, poll, claim, complete, expire | cursor against late commits, expiry against late results |
| Operation log (`Services/DataOperationLogService.php`, `DataSnapshotService.php`) | signed chain in SQLite, high-water mark in MySQL | append, rollback, stage, sync | crash between the stores, guarded rollback |
| Browser queue (`ui/src/client-runtime/offlineQueue.ts`, `AppRuntime.tsx`, `sw.ts`, `swQueue.ts`) | a row per submission in IndexedDB, the form's key, the service worker's copies of requests | submit, pass, retry, discard, sign out, replay | passes from several tabs over one row, answers that come after the row has changed, lost answers, a second sender |
| Native queue (`native-runtime/src-tauri/src/sync_queue.rs`, `ui/src/client-runtime/nativeOfflineQueue.ts`, `AppPublicController::batch`) | items in memory and in a file, the page's pass and batch | enqueue, flush, settle, ack, fail, retry, purge | killed between two steps, a file that refuses writes, a session that ends during a pass, a batch nobody waits for |
| Flow dispatcher (`ui/src/client-runtime/flows/flowDispatcher.ts`, `desktop/browserEventQueue.ts`, `desktop/useDesktopConnectorEvents.ts`) | the open app, its loaded flows, a queue per call, a sweep's flag | open, load, leave, deliver, work through, sweep | what runs on after an await reads the state of whatever app is open by then |
| Webhooks (`Services/WebhookService.php`, `bin/webhook-worker.php`) | delivery rows | claim, attempt, retry, give up | worker crash, backoff |
| Everything else | | | `PROJECT.json` lists every component with the reason it is left out |

How they meet: the three submission controllers call the ledger, then
`createResponse` (or `createEncryptedResponse`), then the ledger again.  The
responses' mirror insert reads `form_encryption`; the enable's preflight reads both
response stores.  The reconcile job reads and writes what submissions and deletions
write.  The offline queues are the clients that resend: both post to the endpoints the
ledger guards, which their models take as a table of keys.  Created responses enqueue
flow runs; flow runs create responses.  The dispatcher in the browser is one of the
runners that reserve, claim and complete runs.

What makes each component correct, in one line:
- *ledger*: at most one response and one acting script per key; a replay is told of
  the right response; nobody touches a live row of another lease; no key is wedged.
- *responses*: what the client was told agrees with both stores; the cap holds.
- *reconcile*: repairs end drift and never make any.
- *enabling*: a private form has no plaintext, and private is for good.
- *queues*: what waits stays until it is stored or let go, is stored once, is sent under
  its own account, and does not wait for ever.
- *flow runs*: one terminal state and one outcome event per run, each handler once.
- *dispatcher*: what is loaded is the open app's; a call's events keep their order; a
  queued run of the open app is taken.
- *commands*: claimed once, completed by the claimer, every pending one is seen.

## 2. Modules

| module | what it is |
|---|---|
| `SubmitOnce` | abstract: a key gets one response, and every client told of one is told of that |
| `SubmissionLedger` | the ledger and the requests around it |
| `SubmissionLedgerProofs` | theorems about it that hold under every hazard |
| `SubmissionOnceProofs` | theorems about the routes that fail closed: one pipeline, one response and one acting script per key, and that the ledger implements `SubmitOnce` |
| `ResponseStore` | a form's two stores, its submissions, deletions, reconcile job and enabling |
| `ResponseBook` | abstract: one book of responses, and what each submission is told of it |
| `ResponseStoreProofs` | theorems about the two stores: answers, the cap, both stores alike, private for good, the refinement of `ResponseBook` |
| `ResponsePrivacyProofs` | theorems about enabling encryption: who is told "private" has a private form, and it holds no plaintext |
| `RunOnce` | abstract: a run is queued or started once, ends once, and is told of once |
| `FlowRuns` | flow runs, their outcome events, the reclaimer and the recovery sweep |
| `FlowRunsProofs` | theorems about it, the refinement of `RunOnce` among them |
| `Outbox` | abstract: what a device promises of a submission it keeps |
| `OfflineQueue` | the browser's queue, the forms, tabs and service worker that send, and the server's keys |
| `OfflineQueueProofs` | theorems about it: types, stored once, the refinement of `Outbox` |
| `NativeQueue` | the native runtime's queue and file, the page's passes, and the server's batches |
| `NativeQueueProofs` | theorems about it: types, nothing sent under another account, the refinement of `Outbox` |
| `FlowDispatcher` | a browser tab as a runtime: the apps it opens, its queue of desktop events, its sweeps |
| `FlowDispatcherProofs` | theorems about it: types, the open app's flows, the order of a call's events |
| `MC...` | TLC's instance of each: symmetry sets, and values of the function constants |

In every module an actor has a program counter, and one action is one SQL statement
or one committed transaction, together with the decisions the code takes on its
answer.  `Hazards` names what may go wrong in a run, so each property is checked
under the worst conditions it is promised for.

### SubmissionLedger

A request is one HTTP request; its name is also its lease and its response's id,
since the code draws both freshly.  `Reserve` is the `INSERT` (it succeeds or meets
the unique key), `Find` the `SELECT` after a duplicate, `TakeOver` the guarded
`DELETE`, `ReserveAgain` the second `reserve()`, `Script` and `Store` the pipeline,
`Settle` the one statement of `complete()`, `holdAfterScript()` or `release()`.  The
`...Fails` actions are those statements failing, with and without having been
committed.  `RoutesOf` ties a key to the routes of its table; `FailsClosed` says
which routes answer 503 when the ledger can't tell who owns a key (`external`,
`app`), where the public and private ones submit without it.

Time is the age of a row: young, stale (a takeover may delete it), expired (the
cleanup job may).  Without the hazard `slow` an owner is done or dead when its row
grows stale: 600 s is far beyond PHP's limits for a request.

A request without a key bypasses the ledger and is not modelled: nothing is promised
for it.

### ResponseStore

One form.  A submission goes `Screen` (the public route's first look at the
form, which caches its answer for the request), `Gate` (`assertNotPrivate`),
`HoldQuota`, `Script`, `Commit` (SQLite), `Mirror` (MySQL, conditional on
`form_encryption`), then `Recount` and `Publish`, or `Undo`.  For envelopes the gate
and the script fall away, and a mirror insert that fails leaves the row for the
reconcile job.  A lock lives on a connection: `Cut` drops both.  Deletions,
reconcile passes and enabling are sequences of the same kind.

Left out: updates of a response (one conditional statement), files, links,
webhooks, analytics and flow runs that follow a stored response (best-effort, after
the answer is decided), the operation log of signed placements, the retention
purge, `trashed` forms.  `report()` reads the two counts in MySQL a moment before
SQLite's; `Report` reads them at once, which matters to no property here because
what it decides is decided anew in the next round.

### FlowRuns

A run is named by what makes its row unique: the event it was reserved for, and for a
handler the path of bindings from there to it, because the handler's idempotency key is
"flowoutcome:<run>:<binding>".  `EnqueueSource` and `Reserve` are the two ways in,
`Claim` the guarded `UPDATE` from queued to running, `Complete` the transaction that ends
the run and writes its outbox row, `Finalize` the cloud runner's `UPDATE`, which has no
guard and no transaction.  `Refuse` records the run of an event from beyond the depth
ceiling.  A dispatcher (the request that ended the run, the reclaimer or the sweep)
goes through the subscribers one by one: `Look` is the `SELECT` for a handler in the same
tree, `Enqueue` the `INSERT`, `Mark` and `Park` the `UPDATE`s of the event.  The reclaimer
picks, updates and emits; the sweep picks terminal runs without an event, emits
them, then picks pending events and dispatches them.

`status` has one value, `error`, for error, timeout and cancelled: every property tells
the outcomes apart only by whether a binding listens to them.  `IsCloud` is a run that
a cloud request started; its handlers are claimed by clients.  The age of a run is one
bit: older than `FLOW_RUN_STALE_SECONDS` or not.  Without the hazard `slow` a
runner is done by then (`TIMEOUT_MAX_MS` is half of the default).

Left out: edits of flows and bindings while runs go on, conditions (the
claimant evaluates them), language gates, deletion of runs with their flow, the
comparison of `claimed_by` (no runner here completes another's run), the window and the
batch size of the sweep, deaths and failing emissions of the jobs themselves, whose next
pass reads everything anew.  `Emit` reads a run's row and inserts its event in
one step.

### OfflineQueue

One account's queue.  A form is named by its submission and is a client like a tab:
`SubmitOnline` posts, `SubmitOffline` goes straight to the queue, `FormAnswered` is what
the form makes of the answer, with the key it keeps until the person is told the
submission is safe.  A tab's pass is `StartPass` (`listQueue`, which also sweeps),
`Claim` for each row (read again, marked, posted) and `Settle` (the row as it is now,
patched by the answer).  `Retry` (of a failed row), `Discard` (of any listed one), `SignOut` and `Age` are the person and the
retention period; `Replay` and `Replayed` the service worker, which has a copy out of its
queue while it sends it.  `Reach`, `Judge`, `Defer` and `JudgeAlone` are the server,
`Lose` and `Intercept` the network.

A row and its submission have one name, for a row is made once and keeps its id when it
is retried.  The ledger is a table from keys to what the server knows of them; its inside
is `SubmissionLedger`'s.  Left out: counts and listings, rows without an owner from older
versions, a request on its way that reaches the server only after its tab was closed (one
that was already there is judged), the 24 hours after which the service worker's copies lapse, and the moment
between a sign-out's removal of rows and that of the copies, which are one step here.

### NativeQueue

`memory` and `disk` are the runtime's list and file.  Every change is `Persist`: written,
or rolled back in memory when the file refuses it.  `Sweep` alone leaves the list changed
when the write fails, as the code does.  `Crash` is a kill at any point and `load` after
it.  The page's calls are `Submit`, `Retry` followed by `RemoveReplaced` (two calls, so
a kill or a refused write may come between), `Discard`, `LookUp` and `Purge` (the
sign-out's two).  A pass is `StartPass` (the account's pending items, in batches by size),
`SendBatch`, `Settle` for each group of answers and `BatchEnds`; `Boundary` is the
session's end, after which a pass sends nothing more; `Unreached`, `TooLarge` and
`Rejected` are answers that are not the batch's; an error may come
part-way through a batch, which the server then goes on with.  `Reach`, `TakeUp`, `HandBack`, `Judge`
and `Defer` are the server working through a batch item by item; `left` is what it goes
on with when its client has gone.

Left out: other apps' partitions of the list, unstamped rows, the quarantine of an
unreadable file, the byte quota beside the count, runtimes without `fail_terminal`,
answers that name no item, a rename that is lost because no directory is synced, the
rotation of the file's key (`sync_queue.rs` 285-297), and a purge so late that it removes what
was queued after signing in again.  `flush` and the filter by owner are one step.

### FlowDispatcher

`OpenApp`, `Loaded` and `LeaveApp` are `startFlowDispatcher`, the end of the load it
began, and the function it returned; a load carries its token.  `Deliver` is the hub
calling the subscribers there are, the script's and the dispatcher's, each of which puts
work in the queue; `after` is the promise a work was chained to, `tail` the map of
entries.  A work is `Begin` when that promise settles, and ends with `RecordEnds`, or with
`HandleEvent` and, if a binding is waited for, `FlowsEnd`; `Forgotten` is the `finally`
callback.  A cleared generation is `key = None`: the entry a work made is no longer its
own.  `Tick` is the interval, and a sweep is `ListRuns`, then for each run `Choose` or
`Defer`, `Claim`, `Answered` (which reads what is loaded by then) and `Executed`.
`Enqueue`, `TakenElsewhere` and `Reclaim` are the server's rows, whose inside is
`FlowRuns`.

`earlier` is a history variable, read by properties only.  It leaves out what overflowed
when the new work does not: see section 3.

Left out: what `runBinding` reserves, executes and completes, the bindings that nobody
waits for once they are started, triggers from forms, selectors and conditions, the
workspace's claim loop, the limit of a listing (the oldest come first), events without
any id, and apps that share the slug of a flow.

## 3. Runs

`PROJECT.json` describes each.  Instances have two or three requests, one or two
keys, one or two bodies, up to three enablers, one reconcile job, a cap of one.
Three copies are what the ledger needs for its interesting cases (an owner, the copy
that takes over, and one that arrives between), two bodies are what a wrong replay
needs (in both ledger runs), and three enablers are what a retake needs to meet a fresh marker.  A cap of
one with two submissions is a cap at its limit.  A flow instance has one event whose run
may have handlers, one or two bindings, one or two runners and both jobs: two runners are
what a double claim needs, two subscribers what a half-failed dispatch needs, two
attempts reach the point where an event is parked.  `queue_browser` has one submission
with two tabs, its form and the service worker, which makes four senders of one row;
submissions share nothing but the pass that goes through them.  Its three keys are what
two scripts that act need, its two attempts make a last one.  `native_queue` has two
submissions in two items, so that a batch holds an item that is done and one that is not,
and may be split; two items of one submission are what a retry makes.  `native_drains` has
one submission whose script may act and two ids; where no script acts the process is
killed and the file refuses writes as well, and the fairness lets kills stop in the end.  `dispatcher` has two apps, three openings, two
events of one call and one of none with a limit of two active keys, which makes the
queue overflow, and two runs of one app; events and runs meet only in the
session, so `Apart` lets a behaviour have one or the other.  TLC stops at no artificial bound:
the state spaces are finite because every request runs once (or returns to its start
with nothing left behind).

Passing:

| run | shows |
|---|---|
| `ledger_faults` | under every failure of the ledger a row belongs to its lease and is settled by it only, and a replay names an accepted response of the same body |
| `ledger_once` | on fail-closed routes with crashes: one pipeline, one response and one acting script per key; `SubmitOnce` is implemented; a crashed owner never wedges its key |
| `store_submit` | plaintext submissions beside three attempts at enabling, with crashes: who is refused has nothing stored and who is told to try again has not had the script act, under the cap, and private is for good |
| `store_enable` | without crashes: no plaintext in a private form, who is told "private" has one, what is answered "created" is in both stores, and with a deletion beside submissions `ResponseBook` is implemented |
| `store_private` | beside a deletion and the reconcile job, a "created" envelope is in SQLite until it is deleted and the cap holds; drift, that of failing compensations too, ends once writes do |
| `flows_once` | with crashes, slow runners and failing statements a run is begun once, ends once and is told of once (`RunOnce`); it does end, and its event is dispatched or parked |
| `flows_outcomes` | runs of clients and of the cloud runner with two subscribers: a dispatched event has its handlers and says what the run's row says |
| `queue_browser` | four senders of one submission, with closed tabs, lost answers, gateways, sign-out: `Outbox` is implemented, the submission is stored once, and every row is sent or set aside in the end |
| `native_queue` | kills, refused writes, batches that are split, left or taken half-way, sessions that end: `Outbox` is implemented, and nothing is sent under another account |
| `native_drains` | scripts, or kills and refused writes, with retries and retention: what waits is sent or set aside while its account stays signed in |
| `dispatcher` | loads, events and sweeps that outlive an app's visit: the open app's flows, a call's order, and its queued runs |

`ledger_faults` leaves the hazard `crash` out: with `slow` a request may stop at any
step for as long as it likes, and a crashed one does no more than that.  Its
`OneKeySpec` gives the three copies one key, a form's or an app's: no action reads
another key's row.

A disagreement between the code and what its comments say, as a run that TLC ends with
a counterexample:

| run | what happens |
|---|---|
| `queue_stale` | two tabs and a script that acts: a late answer about the old key marks the row that was retried under a new one, and the next retry stores the submission a second time |

More that the models reach, without a run of their own.  Each is a small change to a
cfg:

- the app route's unguarded form read after storing answers "failed" and releases the
  key, where `AppResponseService.php` 106-108 says that a link must never fail a response
  already persisted (`ledger_once` with the hazard `links`; `OneStoredPerKey`);
- the reconcile job deletes the mirror row of a response that was committed while it was
  reading (`store_enable` with `Repairers = {p1}`, no enablers and no hazard;
  `CreatedIsMirrored`);
- an enabler whose marker was retaken is told the form is private
  (`store_submit`; `EnabledIsPrivate`);
- two runs of one tree end together, and a binding gets a handler from each
  (`flows_once` with two sources, `Root <- OneRoot` and no hazard;
  `HandlerOncePerRoot`), where `FlowService.php` 1445 says "never ... within one root";
- a tab whose answer comes after another tab has set the row aside makes it wait again,
  though "only the person sends one again" (`queue_browser` without hazards;
  `MCOfflineQueue.FailedIsForThePerson`, which one tab keeps);
- what the person discarded may still be sent: by a pass that has it out, and by the
  service worker's copy of a request under a former key
  (`MCOfflineQueue.DiscardedIsNotSent`);
- a native retry under a new key whose second call is lost leaves the old item to be
  retried under one more key, and both are stored, where `nativeOfflineQueue.ts` 153-155
  says the one left behind is answered as a replay (`native_queue` under `Spec`, one
  submission, four ids, `LastKey = 2`; `KeepsThePromise`);
- a submission answered "processing" uses an attempt of the browser's queue
  (`offlineQueue.ts` 554-560), where `AppPublicController.php` 552-553 says the offline
  queues keep it attempt-neutral; only the native one does;
- a row released between `INSERT` and `SELECT` lets a public copy submit unreserved, and
  two copies are stored with no failure at all, where `ResponseController.php` 484-485
  speaks of an atomic gate (`ledger_once` with
  `FormKeys = {k1}`, `AppKeys = {}` and no hazard; `OnePipelinePerKey` and
  `OneStoredPerKey`);
- the encryption gate's refusal is exempt from `NotStoredAfterScript`
  (`ResponseService.php` 2531), so it releases a key whose script has acted
  (`ledger_once` with the hazard `enabling`; `ScriptActsOncePerKey`);
- a crash between SQLite commit and mirror insert leaves plaintext in a private form
  (`store_enable` with `crash`; `PrivateFormHoldsNoPlaintext`), where
  `ResponseService.php` 2381-2386 says it never slips in;
- a response count read before and written after another one stays behind
  (`syncResponseCount`);
- stores with equal counts and different rows are absent from the drift report;
- a private form whose submitter's MySQL connection drops between the count and the
  mirror insert may exceed its cap by one (`store_private` with `cut`);
- a cloud run that outlives the reclaimer's threshold is ended twice: its subscribers
  are told "failed" and its row then says "done" (`flows_outcomes` with `slow`;
  `EventTellsTheOutcome`).  It takes a threshold below
  the cloud runner's own limit of 60 s (`MAX_WALL_CLOCK_SECONDS`; the default is 600 s);
- a sweep goes on claiming runs of an app that has been left (`flowDispatcher.ts` 1468
  says it "stops with startFlowDispatcher").  With another app loaded it ends them as
  errors; with none, reading `runtime.bindings` throws (1601) and the run stays
  claimed until the reclaimer ends it, where 1516 says "We claimed it, so finalize
  honestly" (`Answered`);
- work of a call that was queued with what overflowed is not waited for once the call
  has an entry of its own, where `browserEventQueue.ts` 29-31 says the overflow "keeps
  ordering safe" (`dispatcher` with four events, two of them of no call,
  `MaxActive = 3` and a `Before` that takes in what overflowed; `EventsInOrder`); neither is work that is still going on when its app is left and
  opened again;
- an event that waits for its turn is worked through with the bindings of the app that
  is open by then, since `HandleEvent` reads what is loaded.

`bin/flow-runs-reclaim.php` says that a reclaim makes "the underlying trigger event
retriable".  In the model, as in the code, it does not by itself: the event's key still
names the ended run, and a reserve with it gets that run back.

Each checked property has a mutant: a faulty variant of a definition, kept just
above the original and used by no action, under which the run finds the property
violated.

Every cfg says `CHECK_DEADLOCK FALSE`: requests end, and then nothing is left to do.

## 4. Fairness

`SubmissionLedger`: a request's next step (PHP runs it unless the process dies),
resending (the native queue keeps an item that is told to wait without counting it
as an attempt, `nativeOfflineQueue.ts` 432-446; the browser's queue gives up after
eight attempts, so the promise is to a copy that keeps asking), and the ageing of rows.
`ResponseStore`: submissions and deletions run on, and the reconcile job comes round
again (cron).  The reconcile job itself neither crashes nor fails in the model: a
pass that dies is followed by another.

`FlowRuns`: a runner goes on with what it has begun (it may crash), time passes for
running rows, and cron starts the reclaimer and the sweep again and again.  Nobody is
obliged to reserve or claim anything: a queued run waits for a client.

`OfflineQueue`: nothing sends the queue on a timer.  A tab starts a pass when the browser
comes back online, the page is shown again or the person asks for it, and one of these
always happens again; a pass that has begun goes on; tabs are not closed for ever
(`<>[][~CloseTab(t)]_vars`).  A request that is sent again and again is at some time
reached and judged (`SF`), and the server ends what it has begun.  The service worker,
the form and the person owe nothing.

`NativeQueue`: passes are started, go on and end in the same way.  An account's limit is
per minute, so it takes up an item that is handed in again and again, and judges one that
it keeps taking up; the file takes a settling that is tried again and again (`SF`).  An
outage ends and the process is not killed for ever (`<>[][~Unreached]_vars`,
`<>[][~Crash]_vars`).

`FlowDispatcher`: the interval ticks, requests are answered, runs end (`executeRun` has a
time limit), and the loop over the listed runs goes on.  A listing asked for again and
again succeeds at some time, and a run listed again and again is at some time not left to
the desktop (`SF`): a desktop that is there claims what is left to it, and the run is
then listed no more.  Nobody owes an app being opened or its flows being loaded, and works
of the queue owe nothing.

## 5. Proofs

`SubmissionLedgerProofs`, for any constants that satisfy the named assumptions, under
every hazard:

- `TypeCorrect`: `Spec => []TypeOK`.
- `RowOutlivesOthersHolds`: a young row is changed by its own lease's request or by time.
  A statement of `complete()` or `release()` names the lease, and no two requests share
  one; a takeover and the retention job ask for the row's age.
- `CompletedByItsLeaseHolds` and `ReplayNamesAnAcceptedTwinHolds`, from the inductive
  invariant `LedgerInv`.  The properties are not inductive as they stand: that a
  completed row names an accepted response needs to know what a request at `settle`
  reports, and that no row carries the lease of a request that has not reserved yet;
  that a replay stays true needs that accepted responses are never withdrawn.

`SubmissionOnceProofs`, for behaviours that start with every copy on a route that
fails closed (`ClosedRoutes`), each under the fewest conditions: TLC refutes the property
with any one of the hazards that its theorem leaves out (`ledger_once` with that hazard).

- `OnePipelinePerKeyHolds`, when requests end within the takeover threshold (`OnTime`),
  from `WorkInv`: a request in its pipeline owns its key's row, pending and young.  Two
  requests can't both hold the one row of their key.  `StepsRespectRows` is the heart of
  the induction: whatever a request does, and whatever fails for it, it changes no row but
  its own, an absent one or an abandoned one, and a row of a request in its pipeline is not
  abandoned because time waits for it.  A failing `INSERT` may leave a row behind, but its
  request then answers 503 and works no more.
- `ImplementsSubmitOnce`, when besides no statement of the ledger fails and no row expires
  (`RowsStand`): settling as "created" is `Give`, a replay is `Tell`, and every other step
  stutters, since a row comes, goes or ages without a response in it, or keeps the one it
  has.  `ToldAlikeHolds` draws what a client sees of it.
- `OneStoredPerKeyHolds`, when besides no stored response is reported as refused
  (`TellsStored`, no hazard `links`), and `ScriptActsOncePerKeyHolds`, when besides no
  script that acted is (`TellsActed`, nor `enabling`), from `ClosedInv`: a request which had
  such an effect is still at it, is dead, or keeps the key with a settled row.

`ResponseStoreProofs`, for any submissions, deletions, enablers and cap:

- `TypeCorrect`.  `TypeOK` alone is not inductive: that the shown count stays in its
  range needs what a counting submission has read, and that an envelope is nowhere
  near a script needs to be said (`TypeInv`).
- `PrivateForGoodHolds`, under every hazard: the retake's and the abort's deletes ask
  for a marker that is still 'enabling'.
- `CreatedIsStoredHolds`, under every hazard, and `RefusedIsNotStoredHolds`, where
  compensating deletes work (`"sqlite" \notin Hazards`), from `StoreInv`.  Its parts
  say of each submission where its row can be at each step: not yet before the
  commit, stored after it until it is answered or deleted, withdrawn after the undo.
- `AnsweredWithinQuotaHolds`, when connections hold or there are no envelopes
  (`CutsAreUndone`), from `CapInv`: the standing responses, with the claim of the lock's
  holder once it has counted, are within the cap.  A plaintext submission that
  committed after its lock was lost fails at the mirror insert on the same connection and
  is undone, so it never stands; an envelope keeps its row, hence the assumption.
- `QuotaLockHolds`, under every hazard: of a capped form's submissions one at a time is
  between its count and its commit, but for those whose connection was lost, and
  nobody who is answered, dead or cut off keeps the lock.
- `ActedIsNotRetriedHolds`, under every hazard: a submission whose script has acted is
  answered "refused" only by the privacy gate (`ActedPart`), whichever of the later
  statements fails.
- `CreatedIsMirroredHolds`, under every hazard, without a reconcile job (`NoReconcile`),
  from `MirrorInv`.  A submission publishes only what it mirrored.  What a deletion takes
  from the mirror was listed from SQLite, and by then each listed row is erased or was
  taken back by its own request (`ErasesWell`), so that no lock is needed between the
  deletion's three statements.  The reconcile job lists rows that are not stored yet, as
  section 3 says.
- `KeepsTheBookHolds`, where compensating deletes work: the store implements
  `ResponseBook`.  The commit is `Keep`, the answer "created" `Confirm`, every other answer
  `TurnAway` (the undo and its answer are one step of both), a deletion's statement on
  SQLite `StrikeOut`; what happens in MySQL, and what crashes and lost connections
  do, is a stutter.  What has to be shown is that no submission is answered twice
  (`AnswersOnce`), and that nothing is erased before it was stored (`Fresh`), so that
  what is told "created" is there or was struck out and what is kept was never struck out.

`ResponsePrivacyProofs`, for any submissions, deletions, enablers and cap; all but the first
when no process dies (`NoCrash`):

- `RowHeldHolds`, under every hazard: even after a marker was taken over twice at most
  one owner is between its snapshot and its commit, and nobody who has finished or died
  keeps the forms row.
- `EnabledIsPrivateHolds`, from `EnableInv`.  Without deaths a marker never grows stale
  (`NothingGrowsStale`): it has exactly one owner, who is still at it, so nobody retakes it
  and nobody else's abort deletes it.  After a death two owners may each hold what they
  think is their marker; section 3 has that as a note.
- `PrivateFormHoldsNoPlaintextHolds`, which also needs `Compensates`: compensating
  deletes work and no reconcile job writes the mirror.  Its invariant `PrivacyInv` says
  what the preflight knows at each of its steps (`PreflightKnows`): while the marker
  stands the mirror gains no plaintext row, since the insert asks for the marker in the
  same statement, and what is committed to SQLite after both counts were zero belongs to
  submissions that will be turned away at that insert (`Cleared`).  Each condition is
  needed: a compensation that fails leaves the row for good, a reconcile job copies into
  the mirror a row that it read before the submission took it out again, and a submitter
  that dies between its commit and its insert leaves plaintext behind.

`FlowRunsProofs`, for any events, bindings, runners, depth and number of attempts:

- `TypeCorrect`, and `ExecutedOnceHolds` under every hazard, from `BegunOnce`: a run that
  waits to be begun has not been, and nothing makes a run wait again.
- `DispatchedIsHandledHolds` under every hazard.  Its invariant `HandledInv` says of each
  dispatcher that every subscriber it has put behind it has a handler, unless one
  failed to enqueue; it is preserved by the other dispatchers because rows of runs stay
  (`RowsStay`) and an event never changes its outcome.  That a handler is a run of its
  own (`HandlerIsRun`) is where the lineage's ceiling comes in.
- `EventTellsTheOutcomeHolds` and `ImplementsRunOnce`, when no cloud run outlives the
  threshold (`OnTime`).  Guarded updates need nothing more; the cloud runner's unguarded
  one needs `CloudInHand`: the run it is executing is running, young, and nobody else's,
  so the reclaimer's batch, which was old when it was read (`BusyWithRuns`), holds
  no such run.

`OfflineQueueProofs`, for any submissions, tabs, keys and number of attempts:

- `TypeCorrect`, for every behaviour.
- `StoredOnceHolds` and `KeepsThePromiseHolds`, the refinement of `Outbox`, for behaviours
  with one open tab or without a script that acts (`Calm`); `queue_stale` is why.  The
  inductive invariant says that a new key is made only once the script has acted under
  the last one, so the last key alone can have stored the submission; that nobody holds
  a key that was not made; and that an answer on its way says what the ledger says.  A row
  goes only when a pass was answered "stored", which is `Release`, or with the person,
  the sign-out or the retention period, which is `Drop`; a submission that was let go is
  never written back because `Settle` looks whether the row is still there.

`NativeQueueProofs`, for any submissions, ids, accounts, keys and attempts:

- `TypeCorrect`, which needs that no id is anywhere before it is given (`UsedInv`).
- `SentUnderItsOwnerHolds`, for every behaviour, from `OwnerInv`: while the session lasts,
  what a pass has still to send is its account's.
- `KeepsThePromiseHolds`, where scripts act or the process and the file fail, but not both
  (`Calm`); the retry of section 3 is why.  The invariant relates the file to the list
  (what the file has more than the list had expired, and goes at the next load), the
  items to the keys (without failures a submission has one item, with its last key,
  beside the one a retry replaces) and the keys to the ledger as in the browser's queue.

`FlowDispatcherProofs`, for any apps, events, calls, runs and limits:

- `TypesHold`.
- `LoadedIsOpenHolds`, from `LoadInv`: a load under way has a token that was drawn, and one
  with the last token is of the app that is open.
- `EventsInOrderHolds`, from `OrderInv`: a queued work stands behind all that was there
  before it (each is over, or the one it waits for, or before that one), and the tail of
  a key has all that is under way under the key before it.  That a tail is dropped only
  by the work it names is what `EndKeepsOrder` needs; `SameKey` says that the second
  subscriber finds the key the first one took, also at the limit.

The argument for all of them: the invariant holds initially, each action
preserves it (one step per action, one per conjunct it can disturb), and it implies
the property.

Model-checked only: `HandlerOncePerRoot`, which TLC refutes, and liveness
(`EveryCopyIsAnswered`, `DriftEnds`, `EveryRunEnds`, `EveryOutcomeIsSettled`,
`QueueDrains` of both queues, `QueuedIsTaken`), which is out of the prover's reach.  Every
other property of a passing run is stated by a theorem.

## 6. Plan

In this order:

1. `SubmissionLedger`, `SubmitOnce` and their proofs: done.
2. `ResponseStore`, `ResponseBook` and their proofs: done.
3. `FlowRuns`, `RunOnce` and their proofs: done.  Left: a composition with the ledger's
   created responses (which enqueue runs), edits of bindings while events are dispatched.
   `FlowDispatcher` and its proofs: done.  Left: its composition with `FlowRuns`, whose
   runs it takes as rows, and the workspace's claim loop.
4. `Outbox`, `OfflineQueue`, `NativeQueue` and their proofs: done.  Left: their
   composition with `SubmissionLedger`, whose keys they take as a table.
5. `DesktopCommands`: queue with keys, poll with the (second, id) cursor, claim,
   complete, expire; every pending command is seen by its target.
6. `OperationLog`: append, guarded rollback, high-water mark, snapshots.
7. `WebhookDelivery`; token rotation; trash; upgrade, as far as they carry
   interleavings or crashes.

Theorems planned: type correctness and the main safety invariant of each module
to come, and a refinement wherever an abstract promise is worth stating.
