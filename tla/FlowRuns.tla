------------------------------ MODULE FlowRuns ------------------------------
(***************************************************************************)
(* Flow runs and their outcome events (FlowService, CloudFlowRunner).      *)
(* A run is a row of flow_run_logs.  It is reserved by an event, at once   *)
(* or queued for a runner (a browser tab, a desktop, the cloud runner of   *)
(* one request) to claim; its runner executes it and completes it.  A run  *)
(* whose runner vanished is ended by a cron job, the reclaimer.  The end   *)
(* of a run is an event in its turn: a row of flow_outcome_events, which   *)
(* is dispatched by enqueueing a handler run per subscribed binding, and   *)
(* which another cron job, the sweep, restores and dispatches again when   *)
(* whoever should have done it did not.                                    *)
(*                                                                         *)
(* A run is named by what makes its row unique (uniq_flow_run_idem): the   *)
(* event it was reserved for, and for a handler the run it handles and the *)
(* binding, "flowoutcome:<run>:<binding>".  So a run is an event and the   *)
(* path of bindings that leads from there to it.                           *)
(*                                                                         *)
(* A definition that no action uses, just above one of the same shape, is  *)
(* a faulty variant of it: a bug a property is meant to catch.             *)
(***************************************************************************)
EXTENDS Naturals, Sequences

CONSTANTS
  Sources,      \* events that reserve a run, each with its idempotency key
  Kinds,        \* the kinds of events in a run, a subset of AllKinds
  Root,         \* Root[s]: the run whose tree the run of s belongs to
  Bindings,     \* enabled bindings to an outcome event
  Listens,      \* Listens[b]: the outcome binding b is for
  Runners,      \* clients that run flows
  MaxDepth,     \* RUN_LINEAGE_MAX_DEPTH, counted from an event's run
  MaxAttempts,  \* OUTCOME_MAX_ATTEMPTS
  Hazards,      \* what may go wrong in a run, a subset of AllHazards
  None          \* no run, no binding

AllKinds ==
  {"client",  \* a browser tab or a desktop executes the run
   "cloud",   \* the cloud runner does, in the request that starts it
   "deep"}    \* a record written by a run at the ceiling: it may not start

AllHazards ==
  {"crash",  \* a process dies between two steps
   "slow",   \* a run outlives FLOW_RUN_STALE_SECONDS and goes on
   "sql"}    \* a statement of a request or of the reclaimer fails

(* done, and error for every other terminal status (error, timeout,        *)
(* cancelled): each has an event name of its own, and two tell them apart. *)
Outcomes == {"done", "error"}
States == {"none", "queued", "running"} \cup Outcomes

Jobs == {"reclaimer", "sweep"}
Actors == Runners \cup Jobs

Paths == UNION {[1 .. n -> Bindings] : n \in 0 .. MaxDepth}
Runs == Sources \X Paths
SourceRun(s) == <<s, <<>>>>
Handler(r, b) == <<r[1], Append(r[2], b)>>
IsHandlerOf(b, r) == Len(r[2]) > 0 /\ r[2][Len(r[2])] = b

ASSUME RunsAssumption ==
  /\ MaxDepth \in Nat /\ MaxAttempts \in Nat \ {0}
  /\ Kinds \subseteq AllKinds
  /\ Root \in [Sources -> Sources]
  /\ Listens \in [Bindings -> Outcomes]
  /\ Hazards \subseteq AllHazards
ASSUME RunnersAssumption ==
  Runners \cap Jobs = {} /\ None \notin Runs /\ None \notin Bindings

VARIABLES
  kind,      \* kind[s]: the kind of event s, given by the environment
  status,    \* status[r]: flow_run_logs.status, "none" without a row
  old,       \* running rows older than FLOW_RUN_STALE_SECONDS
  event,     \* event[r]: the outcome a run's flow_outcome_events row names
  dispatch,  \* dispatch[r]: that row's dispatch_status
  attempts,  \* attempts[r]: and its attempts
  at,        \* at[a]: the step an actor is about to take
  run,       \* run[a]: the run it is about
  todo,      \* todo[a]: subscribers it has not been through yet
  chosen,    \* chosen[a]: the subscriber it found to have no handler yet
  broke,     \* broke[a]: whether a handler of this dispatch failed to enqueue
  loop,      \* loop[a]: where a job goes on when it is done with a run
  picked,    \* picked[a]: the runs a job has read and not come to yet
  starts     \* starts[r]: how often a runner has begun to execute the run

rowVars == <<status, old>>
eventVars == <<event, dispatch, attempts>>
workVars == <<todo, chosen, broke>>
jobVars == <<loop, picked>>
vars == <<kind, rowVars, eventVars, at, run, workVars, jobVars, starts>>

Steps == {"idle", "execute", "update", "emits", "emit", "sends",
          "dispatch", "enqueue", "park"}

TypeOK ==
  /\ kind \in [Sources -> Kinds]
  /\ status \in [Runs -> States] /\ old \subseteq Runs
  /\ event \in [Runs -> Outcomes \cup {"none"}]
  /\ dispatch \in [Runs -> {"none", "pending", "done", "failed"}]
  /\ attempts \in [Runs -> 0 .. MaxAttempts]
  /\ at \in [Actors -> Steps] /\ run \in [Actors -> Runs \cup {None}]
  /\ todo \in [Actors -> SUBSET Bindings]
  /\ chosen \in [Actors -> Bindings \cup {None}]
  /\ broke \in [Actors -> BOOLEAN]
  /\ loop \in [Actors -> {"idle", "emits", "sends"}]
  /\ picked \in [Actors -> SUBSET Runs]
  /\ starts \in [Runs -> Nat]

Init ==
  /\ kind \in [Sources -> Kinds]
  /\ status = [r \in Runs |-> "none"] /\ old = {}
  /\ event = [r \in Runs |-> "none"]
  /\ dispatch = [r \in Runs |-> "none"]
  /\ attempts = [r \in Runs |-> 0]
  /\ at = [a \in Actors |-> "idle"] /\ run = [a \in Actors |-> None]
  /\ todo = [a \in Actors |-> {}]
  /\ chosen = [a \in Actors |-> None]
  /\ broke = [a \in Actors |-> FALSE]
  /\ loop = [a \in Actors |-> "idle"]
  /\ picked = [a \in Actors |-> {}]
  /\ starts = [r \in Runs |-> 0]

-----------------------------------------------------------------------------
(* Reserving, claiming and completing                                      *)

IsCloud(r) == r[2] = <<>> /\ kind[r[1]] = "cloud"

(* No run may follow on r.                                                 *)
AtCeiling(r) == kind[r[1]] = "deep" \/ Len(r[2]) >= MaxDepth

TerminalOrBegun(r) == status[r] \in Outcomes \cup {"running"}
Terminal(r) == status[r] \in Outcomes

(* The server queues a run for an event: a submission's bindings, a        *)
(* script's intents, or a reserve with queued: true.                       *)
EnqueueSource(s) ==
  /\ kind[s] = "client"
  /\ status[SourceRun(s)] = "none"
  /\ status' = [status EXCEPT ![SourceRun(s)] = "queued"]
  /\ UNCHANGED <<kind, old, eventVars, at, run, workVars, jobVars, starts>>

(* A record that a run at the ceiling wrote would go on for ever: its run  *)
(* is recorded as failed, not started, and emitted by the request.         *)
Refuse(w, s) ==
  /\ at[w] = "idle"
  /\ kind[s] = "deep"
  /\ status[SourceRun(s)] = "none"
  /\ status' = [status EXCEPT ![SourceRun(s)] = "error"]
  /\ at' = [at EXCEPT ![w] = "emit"]
  /\ run' = [run EXCEPT ![w] = SourceRun(s)]
  /\ UNCHANGED <<kind, old, eventVars, workVars, jobVars, starts>>

Begin(w, r) ==
  /\ at' = [at EXCEPT ![w] = "execute"]
  /\ run' = [run EXCEPT ![w] = r]
  /\ starts' = [starts EXCEPT ![r] = @ + 1]

(* A runner reserves the run of an event it met itself and executes it at  *)
(* once.  Where the row exists already the reserve answers created: false  *)
(* and the runner drops the event, which changes nothing.                  *)
Reserve(w, s) ==
  /\ at[w] = "idle" /\ kind[s] # "deep"
  /\ status[SourceRun(s)] = "none"
  /\ status' = [status EXCEPT ![SourceRun(s)] = "running"]
  /\ Begin(w, SourceRun(s))
  /\ UNCHANGED <<kind, old, eventVars, workVars, jobVars>>

ClaimableUnguarded(r) == status[r] \in {"queued", "running"}
Claimable(r) == status[r] = "queued"

Claim(w, r) ==
  /\ at[w] = "idle"
  /\ Claimable(r)
  /\ status' = [status EXCEPT ![r] = "running"]
  /\ Begin(w, r)
  /\ UNCHANGED <<kind, old, eventVars, workVars, jobVars>>

(* Subscribers of the outcome, but for the binding that produced the run.  *)
Subscribers(r, o) == {b \in Bindings : Listens[b] = o /\ ~IsHandlerOf(b, r)}

(* The INSERT into the outbox, for a run that ends as o.  No binding, no   *)
(* row.  Its writer goes on to dispatch it.                                *)
CanWrite(r) == Bindings # {} /\ event[r] = "none"
WriteEvent(a, r, o) ==
  /\ CanWrite(r)
  /\ event' = [event EXCEPT ![r] = o]
  /\ dispatch' = [dispatch EXCEPT ![r] = "pending"]
  /\ at' = [at EXCEPT ![a] = "dispatch"]
  /\ todo' = [todo EXCEPT ![a] = Subscribers(r, o)]
  /\ UNCHANGED <<attempts, chosen, broke>>

Return(a) ==
  /\ at' = [at EXCEPT ![a] = loop[a]]
  /\ run' = [run EXCEPT ![a] = None]

(* The runner has executed its run and completes it: the guarded UPDATE    *)
(* and the outbox row are one transaction.  A run that has been ended      *)
(* meanwhile is left alone ('already_finalized').  A claimed run is        *)
(* completed by its claimant only, which in the code a second guard        *)
(* compares (claimed_by) and here no runner tries to do.                   *)
Complete(w) ==
  LET r == run[w] IN
  /\ at[w] = "execute" /\ ~IsCloud(r)
  /\ \/ /\ status[r] = "running"
        /\ \E o \in Outcomes :
             /\ status' = [status EXCEPT ![r] = o]
             /\ \/ WriteEvent(w, r, o) /\ UNCHANGED run
                \/ ~CanWrite(r) /\ Return(w) /\ UNCHANGED <<eventVars, workVars>>
     \/ /\ status[r] # "running"
        /\ Return(w)
        /\ UNCHANGED <<status, eventVars, workVars>>
  /\ UNCHANGED <<kind, old, jobVars, starts>>

(* The transaction fails and is rolled back; the client logs it and leaves *)
(* the run to the reclaimer.                                               *)
CompleteFails(w) ==
  /\ "sql" \in Hazards
  /\ at[w] = "execute"
  /\ Return(w)
  /\ UNCHANGED <<kind, rowVars, eventVars, workVars, jobVars, starts>>

(* The cloud runner's UPDATE names the run and asks nothing of its status; *)
(* the outbox row is a later statement.                                    *)
Finalize(w) ==
  /\ at[w] = "execute" /\ IsCloud(run[w])
  /\ \E o \in Outcomes : status' = [status EXCEPT ![run[w]] = o]
  /\ at' = [at EXCEPT ![w] = "emit"]
  /\ UNCHANGED <<kind, old, eventVars, run, workVars, jobVars, starts>>

-----------------------------------------------------------------------------
(* Outcome events                                                          *)

(* emitRunOutcome, for a run that was ended before: insert its outbox row, *)
(* or meet the one it has (uniq_outcome_run).                              *)
Emit(a) ==
  LET r == run[a] IN
  /\ at[a] = "emit"
  /\ \/ Terminal(r) /\ WriteEvent(a, r, status[r]) /\ UNCHANGED run
     \/ ~(Terminal(r) /\ CanWrite(r)) /\ Return(a) /\ UNCHANGED <<eventVars, workVars>>
  /\ UNCHANGED <<kind, rowVars, jobVars, starts>>

(* It never throws: a failure is left to the sweep.                        *)
EmitFails(a) ==
  /\ "sql" \in Hazards /\ a # "sweep"
  /\ at[a] = "emit"
  /\ Return(a)
  /\ UNCHANGED <<kind, rowVars, eventVars, workVars, jobVars, starts>>

(* A run of this tree has gone to binding b already (section 9.2).         *)
Seen(r, b) ==
  \E h \in Runs : /\ status[h] # "none" /\ h # r
                   /\ Root[h[1]] = Root[r[1]] /\ IsHandlerOf(b, h)

(* The next subscriber: skip it, or go on to enqueue its handler.          *)
Look(a) ==
  /\ at[a] = "dispatch"
  /\ \E b \in todo[a] :
       /\ todo' = [todo EXCEPT ![a] = @ \ {b}]
       /\ IF Seen(run[a], b)
          THEN UNCHANGED <<at, chosen>>
          ELSE /\ at' = [at EXCEPT ![a] = "enqueue"]
               /\ chosen' = [chosen EXCEPT ![a] = b]
  /\ UNCHANGED <<kind, rowVars, eventVars, run, broke, jobVars, starts>>

Looked(a) ==
  /\ at' = [at EXCEPT ![a] = "dispatch"]
  /\ chosen' = [chosen EXCEPT ![a] = None]
  /\ UNCHANGED <<kind, old, eventVars, run, todo, jobVars, starts>>

(* enqueueRun: a handler's row, unless it exists or the lineage is as deep *)
(* as it may be.                                                           *)
Enqueue(a) ==
  LET h == Handler(run[a], chosen[a]) IN
  /\ at[a] = "enqueue"
  /\ IF ~AtCeiling(run[a]) /\ status[h] = "none"
     THEN status' = [status EXCEPT ![h] = "queued"]
     ELSE UNCHANGED status
  /\ Looked(a)
  /\ UNCHANGED broke

EnqueueFails(a) ==
  /\ "sql" \in Hazards
  /\ at[a] = "enqueue"
  /\ broke' = [broke EXCEPT ![a] = TRUE]
  /\ Looked(a)
  /\ UNCHANGED status

MarkAnyway(a) == "done"
MarkOf(a) == IF broke[a] THEN "pending" ELSE "done"

Mark(a) ==
  LET r == run[a] IN
  /\ at[a] = "dispatch" /\ todo[a] = {}
  /\ dispatch' = [dispatch EXCEPT ![r] = MarkOf(a)]
  /\ attempts' = [attempts EXCEPT ![r] = IF @ < MaxAttempts THEN @ + 1 ELSE @]
  /\ IF broke[a]
     THEN at' = [at EXCEPT ![a] = "park"] /\ UNCHANGED run
     ELSE Return(a)
  /\ broke' = [broke EXCEPT ![a] = FALSE]
  /\ UNCHANGED <<kind, rowVars, event, todo, chosen, jobVars, starts>>

(* An event that keeps failing is given up.                                *)
Park(a) ==
  LET r == run[a] IN
  /\ at[a] = "park"
  /\ IF attempts[r] >= MaxAttempts
     THEN dispatch' = [dispatch EXCEPT ![r] = "failed"]
     ELSE UNCHANGED dispatch
  /\ Return(a)
  /\ UNCHANGED <<kind, rowVars, event, attempts, workVars, jobVars, starts>>

Dispatch(a) ==
  Emit(a) \/ EmitFails(a) \/ Look(a) \/ Enqueue(a) \/ EnqueueFails(a) \/ Mark(a) \/ Park(a)

-----------------------------------------------------------------------------
(* The cron jobs, each a single instance (CronLock)                        *)

(* A job goes through the runs R it has read.                              *)
GoThrough(j, R, step) ==
  /\ picked' = [picked EXCEPT ![j] = R]
  /\ at' = [at EXCEPT ![j] = step]
  /\ UNCHANGED run

StuckInQueue(r) == status[r] = "queued" /\ r \in old
Stuck(r) == status[r] = "running" /\ r \in old

PickStuck ==
  /\ at["reclaimer"] = "idle"
  /\ \E r \in Runs : Stuck(r)
  /\ GoThrough("reclaimer", {r \in Runs : Stuck(r)}, "update")
  /\ UNCHANGED <<kind, rowVars, eventVars, workVars, loop, starts>>

ReclaimableUnguarded(r) == status[r] # "none"
Reclaimable(r) == status[r] = "running"

ReclaimedAsStuck == "stuck"
ReclaimedAs == "error"

(* One UPDATE for the batch; then every run that was read is emitted, the  *)
(* ones that somebody else has ended meanwhile too.                        *)
Reclaim ==
  /\ at["reclaimer"] = "update"
  /\ status' = [r \in Runs |->
       IF r \in picked["reclaimer"] /\ Reclaimable(r) THEN ReclaimedAs ELSE status[r]]
  /\ at' = [at EXCEPT !["reclaimer"] = "emits"]
  /\ loop' = [loop EXCEPT !["reclaimer"] = "emits"]
  /\ UNCHANGED <<kind, old, eventVars, run, workVars, picked, starts>>

MissingSuccess(r) == status[r] = "done" /\ event[r] = "none"
Missing(r) == Terminal(r) /\ event[r] = "none"

(* The sweep reads the terminal runs without an event first (reconcile),   *)
(* within a window of hours that it comes round in often enough.           *)
PickMissing ==
  /\ at["sweep"] = "idle"
  /\ \E r \in Runs : Missing(r) \/ dispatch[r] = "pending"
  /\ GoThrough("sweep", {r \in Runs : Missing(r)}, "emits")
  /\ loop' = [loop EXCEPT !["sweep"] = "emits"]
  /\ UNCHANGED <<kind, rowVars, eventVars, workVars, starts>>

(* Then the events that are pending.                                       *)
PickPending ==
  /\ at["sweep"] = "emits" /\ picked["sweep"] = {}
  /\ GoThrough("sweep", {r \in Runs : dispatch[r] = "pending"}, "sends")
  /\ loop' = [loop EXCEPT !["sweep"] = "sends"]
  /\ UNCHANGED <<kind, rowVars, eventVars, workVars, starts>>

NextEmit(j) ==
  /\ at[j] = "emits"
  /\ \E r \in picked[j] :
       /\ picked' = [picked EXCEPT ![j] = @ \ {r}]
       /\ run' = [run EXCEPT ![j] = r]
       /\ at' = [at EXCEPT ![j] = "emit"]
  /\ UNCHANGED <<kind, rowVars, eventVars, workVars, loop, starts>>

NextSend ==
  /\ at["sweep"] = "sends"
  /\ \E r \in picked["sweep"] :
       /\ picked' = [picked EXCEPT !["sweep"] = @ \ {r}]
       /\ run' = [run EXCEPT !["sweep"] = r]
       /\ at' = [at EXCEPT !["sweep"] = "dispatch"]
       /\ todo' = [todo EXCEPT !["sweep"] = Subscribers(r, event[r])]
  /\ UNCHANGED <<kind, rowVars, eventVars, chosen, broke, loop, starts>>

PassEnds(j) ==
  /\ at[j] = (IF j = "sweep" THEN "sends" ELSE "emits") /\ picked[j] = {}
  /\ at' = [at EXCEPT ![j] = "idle"]
  /\ loop' = [loop EXCEPT ![j] = "idle"]
  /\ UNCHANGED <<kind, rowVars, eventVars, run, workVars, picked, starts>>

-----------------------------------------------------------------------------
(* A runner or the request it has made dies; the client starts anew,       *)
(* without the run.  The jobs' own deaths are left out: what a dead job    *)
(* leaves to its next pass, a dead runner or a failed statement leaves as  *)
(* well, and every pass reads everything anew.                             *)
Crash(w) ==
  /\ "crash" \in Hazards
  /\ at[w] # "idle"
  /\ at' = [at EXCEPT ![w] = "idle"]
  /\ run' = [run EXCEPT ![w] = None]
  /\ todo' = [todo EXCEPT ![w] = {}]
  /\ chosen' = [chosen EXCEPT ![w] = None]
  /\ broke' = [broke EXCEPT ![w] = FALSE]
  /\ UNCHANGED <<kind, rowVars, eventVars, jobVars, starts>>

(* FLOW_RUN_STALE_SECONDS pass.  A runner is done with its run by then     *)
(* (TIMEOUT_MAX_MS), unless its machine slept, or the threshold was set    *)
(* below what its runs need.                                               *)
Age(r) ==
  /\ status[r] = "running" /\ r \notin old
  /\ "slow" \in Hazards \/ \A w \in Runners : ~(at[w] = "execute" /\ run[w] = r)
  /\ old' = old \cup {r}
  /\ UNCHANGED <<kind, status, eventVars, at, run, workVars, jobVars, starts>>

Work(w) == Complete(w) \/ CompleteFails(w) \/ Finalize(w) \/ Dispatch(w)
ReclaimerStep ==
  PickStuck \/ Reclaim \/ NextEmit("reclaimer") \/ PassEnds("reclaimer") \/ Dispatch("reclaimer")
SweepStep ==
  PickMissing \/ PickPending \/ NextEmit("sweep") \/ NextSend \/ PassEnds("sweep")
    \/ Dispatch("sweep")

Next ==
  \/ \E s \in Sources :
       EnqueueSource(s) \/ \E w \in Runners : Reserve(w, s) \/ Refuse(w, s)
  \/ \E w \in Runners : Work(w) \/ \E r \in Runs : Claim(w, r)
  \/ ReclaimerStep
  \/ SweepStep
  \/ \E w \in Runners : Crash(w)
  \/ \E r \in Runs : Age(r)

Spec == Init /\ [][Next]_vars

(* A runner goes on with what it has begun, time passes, and cron starts   *)
(* the jobs again and again.                                               *)
Fairness ==
  /\ \A w \in Runners : WF_vars(Work(w))
  /\ \A r \in Runs : WF_vars(Age(r))
  /\ WF_vars(ReclaimerStep)
  /\ WF_vars(SweepStep)

FairSpec == Spec /\ Fairness

-----------------------------------------------------------------------------
(* Properties                                                              *)

(* A run is executed at most once: whoever reserves or claims it, however  *)
(* often, begins its side effects one time, and a run that was lost or     *)
(* reclaimed is not begun again.                                           *)
ExecutedOnce == \A r \in Runs : starts[r] <= 1

(* The life of every run is the one RunOnce describes, and its subscribers *)
(* are told of no outcome but the one it has for good.                     *)
RO == INSTANCE RunOnce WITH state <- status, told <- event
RunsOnce == RO!Spec

(* An event that counts as dispatched has reached every subscriber: for    *)
(* each there is a handler in the tree of the run, or the run lies as deep *)
(* as a run may lie.                                                       *)
DispatchedIsHandled ==
  \A r \in Runs :
    dispatch[r] = "done" =>
      \/ AtCeiling(r)
      \/ \A b \in Subscribers(r, event[r]) : Seen(r, b)

(* Within one tree of runs no binding is triggered twice: its handler is   *)
(* one run.                                                                *)
HandlerOncePerRoot ==
  \A g, h \in Runs : \A b \in Bindings :
    /\ status[g] # "none" /\ IsHandlerOf(b, g)
    /\ status[h] # "none" /\ IsHandlerOf(b, h)
    /\ Root[g[1]] = Root[h[1]]
    => g = h

(* What the subscribers of a run are told is what the run's row says.      *)
EventTellsTheOutcome == \A r \in Runs : event[r] \in {"none", status[r]}

(* A run that was begun ends, whatever becomes of its runner.              *)
EveryRunEnds == \A r \in Runs : status[r] = "running" ~> Terminal(r)

(* The subscribers of a run that ended are told, or given up after so many *)
(* attempts, whoever died on the way there.                                *)
EveryOutcomeIsSettled ==
  \A r \in Runs : Terminal(r) ~> dispatch[r] \in {"done", "failed"}
=============================================================================
