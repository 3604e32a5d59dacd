--------------------------- MODULE FlowDispatcher ---------------------------
(***************************************************************************)
(* One browser tab as a runtime of an app's flows: the dispatcher that an  *)
(* open app starts and a left one stops; the queue in which the tab works  *)
(* through the events of the paired desktop, one after the other per call  *)
(* or device; and the sweep that claims the runs the server has queued.    *)
(* All of it is one thread, but every await lets the person open and leave *)
(* apps, and what runs on afterwards reads the state of whatever is open.  *)
(*                                                                         *)
(* Two apps have no flow in common here: see Answered.                     *)
(*                                                                         *)
(* A definition that no action uses, just above one of the same shape, is  *)
(* a faulty variant of it: a bug a property is meant to catch.             *)
(***************************************************************************)
EXTENDS Naturals, FiniteSets

CONSTANTS
  Apps,         \* apps the person opens
  Events,       \* events of the desktop, each delivered once (the hub dedupes)
  Correlations, \* calls and devices
  Correlation,  \* Correlation[e]: what an event is about, None if nothing
  Runs,         \* runs the server queues
  AppOf,        \* AppOf[r]: the app a run belongs to
  Intents,      \* the runs that no binding made
  MaxActive,    \* MAX_ACTIVE_CORRELATIONS
  MaxStarts,    \* apps are opened at most so many times
  Overflow,     \* OVERFLOW_KEY
  None

Keys == Correlations \cup Events \cup {Overflow}

(* Of each event, the record that the app's script writes and the flows    *)
(* that its bindings start: both subscribers put their work in the queue.  *)
Works == {"record", "flows"} \X Events

ASSUME DispatcherAssumption ==
  /\ Correlation \in [Events -> Correlations \cup {None}]
  /\ AppOf \in [Runs -> Apps] /\ Intents \subseteq Runs
  /\ IsFiniteSet(Correlations) /\ IsFiniteSet(Events)
  /\ MaxActive \in Nat \ {0} /\ MaxStarts \in Nat
  /\ None \notin Apps \cup Keys \cup Works \cup Runs
  /\ Overflow \notin Correlations \cup Events
  /\ Correlations \cap Events = {}

VARIABLES
  app,      \* currentSlug, None while no app is open
  token,    \* startToken
  loading,  \* loads of flows under way, each with its app and its token
  runtime,  \* the app whose flows are loaded, or None
  hub,      \* whether the dispatcher hears the desktop's events
  timer,    \* whether the sweep's interval is set
  work,     \* work[w]: how far a piece of work is
  tail,     \* tail[k]: the last work queued under a key, or None
  after,    \* after[w]: the work it waits for, or None
  key,      \* key[w]: the key it is queued under, None once that is forgotten
  earlier,  \* history: the work of its call or its key that was there before
  sweeping, \* claimSweepInFlight
  sweep,    \* the sweep's position
  left,     \* runs it has listed and not come to
  run       \* run[r]: what the server has of a run

session == <<app, token, loading, runtime, hub, timer>>
queue == <<work, tail, after, key, earlier>>
claims == <<sweeping, sweep, left, run>>
vars == <<app, token, loading, runtime, hub, timer, work, tail, after, key, earlier,
          sweeping, sweep, left, run>>

Load == [app : Apps, token : Nat]
Idle == [at |-> "idle", app |-> None, run |-> None]
At(at, a, r) == [at |-> at, app |-> a, run |-> r]

Init ==
  /\ app = None /\ token \in {2 * n : n \in 0 .. MaxStarts} /\ loading = {} /\ runtime = None
  /\ hub = FALSE /\ timer = FALSE
  /\ \E over \in SUBSET Events :
       work = [w \in Works |-> IF w[2] \in over THEN "done" ELSE "new"]
  /\ tail = [k \in Keys |-> None]
  /\ after = [w \in Works |-> None]
  /\ key = [w \in Works |-> None]
  /\ earlier = [w \in Works |-> {}]
  /\ sweeping = FALSE /\ sweep = Idle /\ left = {}
  /\ run \in [Runs -> {"none", "ended"}]

(***************************************************************************)
(* Opening and leaving an app.  An effect's cleanup runs before the next   *)
(* effect, so an app is left before another one is opened; leaving a page  *)
(* of an app for its home does both.                                       *)
(***************************************************************************)
OpenApp(a) ==
  /\ app = None
  /\ token < 2 * MaxStarts
  /\ token' = token + 1
  /\ app' = a
  /\ loading' = loading \cup {[app |-> a, token |-> token + 1]}
  /\ UNCHANGED <<runtime, hub, timer, queue, claims>>

\* A fault: whatever is loaded becomes the flows of the app.
AnyLoad(l) == TRUE

StillCurrent(l) == l.token = token

\* The sweep of the app that is open begins, if none is under way.
SweepIsDue(a) ==
  IF sweeping THEN UNCHANGED <<sweeping, sweep>>
  ELSE sweeping' = TRUE /\ sweep' = At("listing", a, None)

(* The flows arrive, or the request fails.  An app may have no flow that   *)
(* is enabled, or no binding to an event.                                  *)
Loaded(l) ==
  /\ l \in loading
  /\ loading' = loading \ {l}
  /\ \/ /\ ~StillCurrent(l)
        /\ UNCHANGED <<runtime, hub, timer, sweeping, sweep>>
     \/ /\ StillCurrent(l)
        /\ runtime' = l.app /\ hub' \in {hub, TRUE}
        /\ \/ timer' = TRUE /\ SweepIsDue(app)
           \/ UNCHANGED <<timer, sweeping, sweep>>
     \/ /\ StillCurrent(l)
        /\ UNCHANGED <<runtime, hub, timer, sweeping, sweep>>
  /\ UNCHANGED <<app, token, queue, left, run>>

\* The tails are forgotten; the work that waits for them is not.
LeaveApp ==
  /\ app # None
  /\ token' = token + 1
  /\ app' = None /\ runtime' = None
  /\ hub' = FALSE /\ timer' = FALSE
  /\ tail' = [k \in Keys |-> None]
  /\ key' = [w \in Works |-> None]
  /\ UNCHANGED <<loading, work, after, earlier, claims>>

(***************************************************************************)
(* The queue of events.                                                    *)
(***************************************************************************)
Active(q) == Cardinality({k \in Keys : q[k] # None})

KeyOf(q, w) ==
  LET c == Correlation[w[2]] IN
  CASE c = None -> w[2]
    [] c # None /\ (q[c] # None \/ Active(q) < MaxActive - 1) -> c
    [] OTHER -> Overflow

Unfinished(v) == work[v] \notin {"new", "done"}

SameCall(v, w) == Correlation[v[2]] = Correlation[w[2]] /\ Correlation[w[2]] # None

(* The work that is there before w of its call or of its key, but for what *)
(* overflowed when w does not: nothing makes w wait for that.              *)
Before(w, k) ==
  {v \in Works : /\ Unfinished(v) /\ key[v] # None
                 /\ key[v] = k \/ (SameCall(v, w) /\ key[v] # Overflow)}

(* An event reaches the subscribers there are, in the order they came.     *)
Deliver(e, first, second) ==
  LET k1 == KeyOf(tail, first)
      tail1 == [tail EXCEPT ![k1] = first]
      k2 == KeyOf(tail1, second)
      both == {first, second}
  IN
  /\ app # None
  /\ "flows" \in {first[1], second[1]} <=> hub
  /\ \A w \in Works : w[2] = e => work[w] = "new"
  /\ tail' = IF first = second THEN tail1 ELSE [tail1 EXCEPT ![k2] = second]
  /\ after' = [after EXCEPT ![second] = tail1[k2], ![first] = tail[k1]]
  /\ key' = [key EXCEPT ![second] = k2, ![first] = k1]
  /\ work' = [w \in Works |-> IF w \in both THEN "queued" ELSE work[w]]
  /\ earlier' = [w \in Works |->
       IF w = first THEN Before(w, k1)
       ELSE IF w = second THEN Before(w, k2) \cup {first} ELSE earlier[w]]
  /\ UNCHANGED <<session, claims>>

(* A work begins when the one it waits for has ended, well or not.         *)
Begin(w) ==
  /\ work[w] = "queued"
  /\ after[w] # None => work[after[w]] = "done"
  /\ work' = [work EXCEPT ![w] = "begun"]
  /\ UNCHANGED <<session, tail, after, key, earlier, claims>>

\* A fault: the key is dropped whoever has queued behind.
ForgottenAnyway(w) ==
  IF key[w] # None THEN [tail EXCEPT ![key[w]] = None] ELSE tail

Forgotten(w) ==
  IF key[w] # None /\ tail[key[w]] = w THEN [tail EXCEPT ![key[w]] = None] ELSE tail

End(w) ==
  /\ work' = [work EXCEPT ![w] = "done"]
  /\ tail' = Forgotten(w)
  /\ UNCHANGED <<session, after, key, earlier, claims>>

(* The script has written its record, was not asked to, or failed.         *)
RecordEnds(w) ==
  /\ w[1] = "record" /\ work[w] = "begun"
  /\ End(w)

(* Once the person has allowed it and the desktop has been asked for, the  *)
(* bindings are those of the app that is open by now.  A sync one is waited*)
(* for; there may be none, or the desktop has them; without flows the work *)
(* is over, or fails.                                                      *)
HandleEvent(w) ==
  /\ w[1] = "flows" /\ work[w] = "begun"
  /\ \/ /\ runtime # None
        /\ work' = [work EXCEPT ![w] = "running"]
        /\ UNCHANGED <<session, tail, after, key, earlier, claims>>
     \/ End(w)

FlowsEnd(w) ==
  /\ w[1] = "flows" /\ work[w] = "running"
  /\ End(w)

(***************************************************************************)
(* The sweep that claims queued runs, one at a time.  It is of the app     *)
(* that was open when it began, whatever is open now.                      *)
(***************************************************************************)
Tick ==
  /\ timer /\ runtime # None /\ ~sweeping
  /\ SweepIsDue(app)
  /\ UNCHANGED <<session, queue, left, run>>

QueuedOf(a) == {r \in Runs : AppOf[r] = a /\ run[r] = "queued"}

ListRuns ==
  /\ sweep.at = "listing"
  /\ left' = QueuedOf(sweep.app)
  /\ sweep' = At("next", sweep.app, None)
  /\ UNCHANGED <<session, queue, sweeping, run>>

\* The listing fails, and reads as empty.
ListNothing ==
  /\ sweep.at = "listing"
  /\ left' = {}
  /\ sweep' = At("next", sweep.app, None)
  /\ UNCHANGED <<session, queue, sweeping, run>>

Choose(r) ==
  /\ sweep.at = "next" /\ r \in left
  /\ left' = left \ {r}
  /\ sweep' = At("claiming", sweep.app, r)
  /\ UNCHANGED <<session, queue, sweeping, run>>

\* The desktop is there: it will claim this one.
Defer(r) ==
  /\ sweep.at = "next" /\ r \in left
  /\ left' = left \ {r}
  /\ UNCHANGED <<session, queue, sweeping, sweep, run>>

\* A fault: a claimed run gets a status of its own, which nobody completes.
ClaimedOnly(r) == [run EXCEPT ![r] = "claimed"]

Claimed(r) == [run EXCEPT ![r] = "running"]

\* The server gives a queued run to who asks first.  Its answer may be lost.
Claim ==
  /\ sweep.at = "claiming"
  /\ \/ /\ run[sweep.run] = "queued"
        /\ run' = Claimed(sweep.run)
        /\ sweep' \in {At("won", sweep.app, sweep.run), At("next", sweep.app, None)}
     \/ /\ run[sweep.run] # "queued"
        /\ sweep' = At("next", sweep.app, None)
        /\ UNCHANGED run
  /\ UNCHANGED <<session, queue, sweeping, left>>

\* A fault: there is no `finally`.
InFlightAfterError == TRUE

InFlightAfterThrow == FALSE

(* The run's binding and flow are looked for in what is loaded by now.  A  *)
(* run without a flow there, as all of an app that was left, is ended as an*)
(* error; with nothing loaded the look for a binding throws, which ends the*)
(* sweep and leaves the run as it was claimed.  Apps that share a flow's   *)
(* slug would have one found: that of the wrong app.                       *)
Answered ==
  /\ sweep.at = "won"
  /\ \/ /\ runtime = sweep.app
        /\ sweep' = At("executing", sweep.app, sweep.run)
        /\ UNCHANGED <<sweeping, left, run>>
     \/ /\ runtime # None \/ sweep.run \in Intents
        /\ run' \in {run, [run EXCEPT ![sweep.run] = "ended"]}
        /\ sweep' = At("next", sweep.app, None)
        /\ UNCHANGED <<sweeping, left>>
     \/ /\ runtime = None /\ sweep.run \notin Intents
        /\ sweep' = Idle /\ left' = {}
        /\ sweeping' = InFlightAfterThrow
        /\ UNCHANGED run
  /\ UNCHANGED <<session, queue>>

(* executeRun, to whatever outcome; the call that completes it may fail.   *)
Executed ==
  /\ sweep.at = "executing"
  /\ run' \in {run, [run EXCEPT ![sweep.run] = "ended"]}
  /\ sweep' = At("next", sweep.app, None)
  /\ UNCHANGED <<session, queue, sweeping, left>>

SweepEnds ==
  /\ sweep.at = "next" /\ left = {}
  /\ sweeping' = FALSE /\ sweep' = Idle
  /\ UNCHANGED <<session, queue, left, run>>

(***************************************************************************)
(* The server, and the other runtimes.                                     *)
(***************************************************************************)
Enqueue(r) ==
  /\ run[r] = "none"
  /\ run' = [run EXCEPT ![r] = "queued"]
  /\ UNCHANGED <<session, queue, sweeping, sweep, left>>

\* Another tab, or the desktop, claims it and ends it.
TakenElsewhere(r) ==
  /\ run[r] = "queued"
  /\ run' = [run EXCEPT ![r] = "ended"]
  /\ UNCHANGED <<session, queue, sweeping, sweep, left>>

\* The reclaimer ends a run that was claimed long ago.
Reclaim(r) ==
  /\ run[r] = "running" /\ sweep.run # r
  /\ run' = [run EXCEPT ![r] = "ended"]
  /\ UNCHANGED <<session, queue, sweeping, sweep, left>>

Sweeps ==
  Tick \/ ListRuns \/ ListNothing \/ Claim \/ Answered \/ Executed \/ SweepEnds

Next ==
  \/ \E a \in Apps : OpenApp(a)
  \/ \E l \in loading : Loaded(l)
  \/ LeaveApp
  \/ \E e \in Events : \E u, v \in {"record", "flows"} : Deliver(e, <<u, e>>, <<v, e>>)
  \/ \E w \in Works :
       Begin(w) \/ RecordEnds(w) \/ HandleEvent(w) \/ FlowsEnd(w)
  \/ Sweeps
  \/ \E r \in Runs :
       Choose(r) \/ Defer(r) \/ Enqueue(r) \/ TakenElsewhere(r) \/ Reclaim(r)

Spec == Init /\ [][Next]_vars

(* Events and queued runs meet only in the session, which neither changes: *)
(* TLC takes them one by one, and events in one opening of an app.         *)
Apart ==
  \/ (\A w \in Works : work[w] = "done") /\ token = 0
  \/ (\A r \in Runs : run[r] = "ended") /\ token = 2 * (MaxStarts - 1)

ApartInit == Init /\ Apart

(* The interval ticks, a request is answered and a run ends in bounded     *)
(* time; a listing asked for again and again succeeds some time; and a run *)
(* listed again and again is some time not left to the desktop, which has  *)
(* not taken it.  The person owes nothing, nor does a flow's load.         *)
Fairness ==
  /\ WF_vars(Sweeps) /\ SF_vars(ListRuns)
  /\ \A r \in Runs :
       WF_vars(Choose(r) \/ Defer(r)) /\ SF_vars(Choose(r))

FairSpec == ApartInit /\ [][Next]_vars /\ Fairness

-----------------------------------------------------------------------------
TypeOK ==
  /\ app \in Apps \cup {None} /\ token \in Nat /\ loading \subseteq Load
  /\ runtime \in Apps \cup {None} /\ hub \in BOOLEAN /\ timer \in BOOLEAN
  /\ work \in [Works -> {"new", "queued", "begun", "running", "done"}]
  /\ tail \in [Keys -> Works \cup {None}]
  /\ after \in [Works -> Works \cup {None}]
  /\ key \in [Works -> Keys \cup {None}]
  /\ earlier \in [Works -> SUBSET Works]
  /\ sweeping \in BOOLEAN
  /\ sweep \in [at : {"idle", "listing", "next", "claiming", "won", "executing"},
                app : Apps \cup {None}, run : Runs \cup {None}]
  /\ left \subseteq Runs
  /\ run \in [Runs -> {"none", "queued", "running", "ended"}]

(* The flows that are loaded are those of the app that is open, however    *)
(* late a load of another one arrives (startFlowDispatcher's token).       *)
LoadedIsOpen ==
  runtime # None => runtime = app

(* Events of one call are worked through in the order they came: no flow   *)
(* of a later event starts before an earlier event's record is written     *)
(* (browserEventQueue.ts 3-7), nor before its own record if the script     *)
(* subscribed first, while the app stays open; what overflows waits its    *)
(* turn likewise.                                                          *)
EventsInOrder ==
  \A w \in Works : work[w] \notin {"new", "queued"} =>
    \A v \in earlier[w] : work[v] = "done"

(* While its app stays open with its flows loaded, a queued run does not   *)
(* wait for ever (claimQueuedAppRuns: the interval, and one sweep at a     *)
(* time), whatever became of the sweeps of other apps and former openings. *)
QueuedIsTaken ==
  \A r \in Runs :
    []<>~(run[r] = "queued" /\ timer /\ runtime = AppOf[r])
=============================================================================
