------------------------ MODULE FlowDispatcherProofs ------------------------
(***************************************************************************)
(* Theorems about FlowDispatcher, for any apps, events, calls and runs:    *)
(* its types, that the flows which are loaded are those of the open app,   *)
(* and that the events of a call keep their order.                         *)
(***************************************************************************)
EXTENDS FlowDispatcher, FiniteSetTheorems, TLAPS

-----------------------------------------------------------------------------
(* Types.                                                                  *)

(* The dispatcher, the queue and the sweep, each with its own types.       *)
SessionTypes ==
  /\ app \in Apps \cup {None} /\ token \in Nat /\ loading \subseteq Load
  /\ runtime \in Apps \cup {None} /\ hub \in BOOLEAN /\ timer \in BOOLEAN

QueueTypes ==
  /\ work \in [Works -> {"new", "queued", "begun", "running", "done"}]
  /\ tail \in [Keys -> Works \cup {None}]
  /\ after \in [Works -> Works \cup {None}]
  /\ key \in [Works -> Keys \cup {None}]
  /\ earlier \in [Works -> SUBSET Works]

SweepTypes == [at : {"idle", "listing", "next", "claiming", "won", "executing"},
               app : Apps \cup {None}, run : Runs \cup {None}]

ClaimTypes ==
  /\ sweeping \in BOOLEAN
  /\ sweep \in SweepTypes
  /\ left \subseteq Runs
  /\ run \in [Runs -> {"none", "queued", "running", "ended"}]

LEMMA TypesSplit == TypeOK <=> SessionTypes /\ QueueTypes /\ ClaimTypes
  BY DEF TypeOK, SessionTypes, QueueTypes, ClaimTypes, SweepTypes

(* An event is queued under its call, or by itself, or with what overflows.*)
LEMMA KeyIsKey ==
  ASSUME NEW q, NEW w \in Works
  PROVE  /\ KeyOf(q, w) \in Keys
         /\ Correlation[w[2]] # None => KeyOf(q, w) \in {Correlation[w[2]], Overflow}
<1> DEFINE c == Correlation[w[2]]
<1>1. w[2] \in Events
  BY DEF Works
<1>2. c \in Correlations \cup {None}
  BY <1>1, DispatcherAssumption
<1>3. CASE c = None
  BY <1>1, <1>3 DEF KeyOf, Keys
<1>4. CASE c # None
  BY <1>2, <1>4 DEF KeyOf, Keys
<1> QED BY <1>3, <1>4

LEMMA SweepIsTyped ==
  /\ Idle \in SweepTypes
  /\ \A a \in Apps \cup {None}, r \in Runs \cup {None} :
       \A at \in {"listing", "next", "claiming", "won", "executing"} :
         At(at, a, r) \in SweepTypes
  BY DEF SweepTypes, Idle, At

LEMMA InitTypes == Init => TypeOK
<1> SUFFICES ASSUME Init PROVE TypeOK
  OBVIOUS
<1>1. SessionTypes
  <2>1. \A n \in 0 .. MaxStarts : 2 * n \in Nat
    BY DispatcherAssumption
  <2> QED BY <2>1 DEF Init, SessionTypes
<1>2. QueueTypes
  BY DEF Init, QueueTypes
<1>3. ClaimTypes
  BY DEF Init, ClaimTypes, SweepTypes, Idle
<1> QED BY <1>1, <1>2, <1>3, TypesSplit

(* A delivery, or a work that ends, as the queue's types see it.           *)
LEMMA DeliverTypes ==
  ASSUME TypeOK, NEW e \in Events,
         NEW first \in {"record", "flows"} \X {e},
         NEW second \in {"record", "flows"} \X {e},
         Deliver(e, first, second)
  PROVE  QueueTypes'
<1> DEFINE k1 == KeyOf(tail, first)
           tail1 == [tail EXCEPT ![k1] = first]
           k2 == KeyOf(tail1, second)
<1>1. first \in Works /\ second \in Works
  BY DEF Works
<1>2. k1 \in Keys /\ k2 \in Keys
  BY <1>1, KeyIsKey
<1>3. QueueTypes
  BY TypesSplit
<1>4. tail1 \in [Keys -> Works \cup {None}]
  BY <1>1, <1>3 DEF QueueTypes
<1>5. /\ tail' = IF first = second THEN tail1 ELSE [tail1 EXCEPT ![k2] = second]
      /\ after' = [after EXCEPT ![second] = tail1[k2], ![first] = tail[k1]]
      /\ key' = [key EXCEPT ![second] = k2, ![first] = k1]
      /\ work' = [w \in Works |-> IF w \in {first, second} THEN "queued" ELSE work[w]]
      /\ earlier' = [w \in Works |->
           IF w = first THEN Before(w, k1)
           ELSE IF w = second THEN Before(w, k2) \cup {first} ELSE earlier[w]]
  BY DEF Deliver
<1> HIDE DEF k1, k2, tail1
<1>6. tail1[k2] \in Works \cup {None} /\ tail[k1] \in Works \cup {None}
  BY <1>2, <1>3, <1>4 DEF QueueTypes
<1>7. work' \in [Works -> {"new", "queued", "begun", "running", "done"}]
  BY <1>3, <1>5 DEF QueueTypes
<1>8. tail' \in [Keys -> Works \cup {None}]
  BY <1>1, <1>4, <1>5
<1>9. after' \in [Works -> Works \cup {None}] /\ key' \in [Works -> Keys \cup {None}]
  BY <1>1, <1>2, <1>3, <1>5, <1>6 DEF QueueTypes
<1>10. earlier' \in [Works -> SUBSET Works]
  BY <1>1, <1>3, <1>5 DEF QueueTypes, Before
<1> QED BY <1>7, <1>8, <1>9, <1>10 DEF QueueTypes

LEMMA EndTypes ==
  ASSUME TypeOK, NEW w \in Works, End(w)
  PROVE  QueueTypes' /\ UNCHANGED <<session, claims>>
<1>1. QueueTypes
  BY TypesSplit
<1> QED BY <1>1 DEF End, Forgotten, QueueTypes

LEMMA SessionTypesNext == TypeOK /\ [Next]_vars => SessionTypes'
<1> SUFFICES ASSUME TypeOK, [Next]_vars PROVE SessionTypes'
  OBVIOUS
<1> USE DEF SessionTypes
<1>0. SessionTypes
  BY TypesSplit
<1>1. ASSUME NEW a \in Apps, OpenApp(a) PROVE SessionTypes'
  BY <1>0, <1>1 DEF OpenApp, Load
<1>2. ASSUME NEW l \in loading, Loaded(l) PROVE SessionTypes'
  BY <1>0, <1>2 DEF Loaded, Load
<1>3. CASE LeaveApp
  <2>1. token + 1 \in Nat
    BY <1>0
  <2>2. hub' = FALSE /\ timer' = FALSE /\ UNCHANGED loading
    BY <1>3 DEF LeaveApp
  <2>3. app' = None /\ runtime' = None /\ token' = token + 1
    BY <1>3 DEF LeaveApp
  <2> QED BY <1>0, <2>1, <2>2, <2>3
<1>4. ASSUME UNCHANGED session PROVE SessionTypes'
  BY <1>0, <1>4 DEF session
<1>5. ASSUME NEW w \in Works,
             Begin(w) \/ RecordEnds(w) \/ HandleEvent(w) \/ FlowsEnd(w)
      PROVE  UNCHANGED session
  BY <1>5 DEF Begin, RecordEnds, HandleEvent, FlowsEnd, End
<1>6. CASE Sweeps
  BY <1>4, <1>6 DEF Sweeps, Tick, ListRuns, ListNothing, Claim, Answered, Executed, SweepEnds
<1>7. ASSUME NEW r \in Runs,
             Choose(r) \/ Defer(r) \/ Enqueue(r) \/ TakenElsewhere(r) \/ Reclaim(r)
      PROVE  UNCHANGED session
  BY <1>7 DEF Choose, Defer, Enqueue, TakenElsewhere, Reclaim
<1>8. ASSUME NEW e \in Events, NEW u \in {"record", "flows"}, NEW v \in {"record", "flows"},
             Deliver(e, <<u, e>>, <<v, e>>)
      PROVE  UNCHANGED session
  BY <1>8 DEF Deliver
<1>9. CASE UNCHANGED vars
  BY <1>4, <1>9 DEF vars, session
<1> QED BY <1>1, <1>2, <1>3, <1>4, <1>5, <1>6, <1>7, <1>8, <1>9 DEF Next

LEMMA QueueTypesNext == TypeOK /\ [Next]_vars => QueueTypes'
<1> SUFFICES ASSUME TypeOK, [Next]_vars PROVE QueueTypes'
  OBVIOUS
<1>0. QueueTypes
  BY TypesSplit
<1>1. ASSUME UNCHANGED queue PROVE QueueTypes'
  BY <1>0, <1>1 DEF queue, QueueTypes
<1>2. CASE \E a \in Apps : OpenApp(a)
  BY <1>1, <1>2 DEF OpenApp
<1>3. CASE \E l \in loading : Loaded(l)
  BY <1>1, <1>3 DEF Loaded
<1>4. CASE LeaveApp
  BY <1>0, <1>4 DEF LeaveApp, QueueTypes
<1>5. ASSUME NEW e \in Events, NEW u \in {"record", "flows"}, NEW v \in {"record", "flows"},
             Deliver(e, <<u, e>>, <<v, e>>)
      PROVE  QueueTypes'
  BY <1>5, DeliverTypes
<1>6. ASSUME NEW w \in Works, Begin(w) \/ HandleEvent(w) PROVE QueueTypes'
  <2>1. CASE End(w)
    BY <2>1, EndTypes
  <2>2. CASE ~End(w)
    BY <1>0, <1>6, <2>2 DEF Begin, HandleEvent, QueueTypes
  <2> QED BY <2>1, <2>2
<1>7. ASSUME NEW w \in Works, RecordEnds(w) \/ FlowsEnd(w) PROVE QueueTypes'
  BY <1>7, EndTypes DEF RecordEnds, FlowsEnd
<1>8. CASE Sweeps
  BY <1>1, <1>8 DEF Sweeps, Tick, ListRuns, ListNothing, Claim, Answered, Executed, SweepEnds
<1>9. ASSUME NEW r \in Runs,
             Choose(r) \/ Defer(r) \/ Enqueue(r) \/ TakenElsewhere(r) \/ Reclaim(r)
      PROVE  QueueTypes'
  BY <1>1, <1>9 DEF Choose, Defer, Enqueue, TakenElsewhere, Reclaim
<1>10. CASE UNCHANGED vars
  BY <1>1, <1>10 DEF vars, queue
<1> QED BY <1>2, <1>3, <1>4, <1>5, <1>6, <1>7, <1>8, <1>9, <1>10 DEF Next

LEMMA ClaimTypesNext == TypeOK /\ [Next]_vars => ClaimTypes'
<1> SUFFICES ASSUME TypeOK, [Next]_vars PROVE ClaimTypes'
  OBVIOUS
<1> USE DEF ClaimTypes
<1>0. ClaimTypes /\ app \in Apps \cup {None}
  BY TypesSplit DEF SessionTypes
<1>1. ASSUME UNCHANGED claims PROVE ClaimTypes'
  BY <1>0, <1>1 DEF claims
<1>2. CASE \E a \in Apps : OpenApp(a)
  BY <1>1, <1>2 DEF OpenApp
<1>3. ASSUME SweepIsDue(app), UNCHANGED <<left, run>> PROVE ClaimTypes'
  <2>1. CASE sweeping
    BY <1>0, <1>3, <2>1 DEF SweepIsDue
  <2>2. CASE ~sweeping
    BY <1>0, <1>3, <2>2, SweepIsTyped DEF SweepIsDue
  <2> QED BY <2>1, <2>2
<1>4. ASSUME NEW l \in loading, Loaded(l) PROVE ClaimTypes'
  BY <1>1, <1>3, <1>4 DEF Loaded, claims
<1>5. CASE LeaveApp
  BY <1>1, <1>5 DEF LeaveApp
<1>6. ASSUME NEW e \in Events, NEW u \in {"record", "flows"}, NEW v \in {"record", "flows"},
             Deliver(e, <<u, e>>, <<v, e>>)
      PROVE  ClaimTypes'
  BY <1>1, <1>6 DEF Deliver
<1>7. ASSUME NEW w \in Works,
             Begin(w) \/ RecordEnds(w) \/ HandleEvent(w) \/ FlowsEnd(w)
      PROVE  ClaimTypes'
  BY <1>1, <1>7 DEF Begin, RecordEnds, HandleEvent, FlowsEnd, End
<1>8. sweep.app \in Apps \cup {None} /\ sweep.run \in Runs \cup {None}
  BY <1>0 DEF SweepTypes
<1>9. CASE Sweeps
  <2>1. CASE Tick
    BY <1>3, <2>1 DEF Tick
  <2>2. CASE ListRuns \/ ListNothing
    BY <1>0, <1>8, <2>2, SweepIsTyped DEF ListRuns, ListNothing, QueuedOf
  <2>3. CASE Claim
    BY <1>0, <1>8, <2>3, SweepIsTyped DEF Claim, Claimed
  <2>4. CASE Answered
    <3>1. sweep' \in SweepTypes
      BY <1>8, <2>4, SweepIsTyped DEF Answered
    <3>2. sweeping' \in BOOLEAN /\ left' \subseteq Runs
      BY <1>0, <2>4 DEF Answered, InFlightAfterThrow
    <3>3. run' \in [Runs -> {"none", "queued", "running", "ended"}]
      BY <1>0, <2>4 DEF Answered
    <3> QED BY <3>1, <3>2, <3>3
  <2>5. CASE Executed
    BY <1>0, <1>8, <2>5, SweepIsTyped DEF Executed
  <2>6. CASE SweepEnds
    BY <1>0, <2>6, SweepIsTyped DEF SweepEnds
  <2> QED BY <1>9, <2>1, <2>2, <2>3, <2>4, <2>5, <2>6 DEF Sweeps
<1>10. ASSUME NEW r \in Runs,
              Choose(r) \/ Defer(r) \/ Enqueue(r) \/ TakenElsewhere(r) \/ Reclaim(r)
       PROVE  ClaimTypes'
  BY <1>0, <1>8, <1>10, SweepIsTyped DEF Choose, Defer, Enqueue, TakenElsewhere, Reclaim
<1>11. CASE UNCHANGED vars
  BY <1>1, <1>11 DEF vars, claims
<1> QED BY <1>2, <1>4, <1>5, <1>6, <1>7, <1>9, <1>10, <1>11 DEF Next

(* Every variable of the dispatcher, its queue and its sweep keeps its type*)
(* (flowDispatcher.ts, browserEventQueue.ts).                              *)
THEOREM TypesHold == Spec => []TypeOK
<1>1. TypeOK /\ [Next]_vars => TypeOK'
  <2> SUFFICES ASSUME TypeOK, [Next]_vars PROVE TypeOK'
    OBVIOUS
  <2>1. SessionTypes' /\ QueueTypes' /\ ClaimTypes'
    BY SessionTypesNext, QueueTypesNext, ClaimTypesNext
  <2> QED BY <2>1 DEF TypeOK, SessionTypes, QueueTypes, ClaimTypes, SweepTypes
<1> QED BY InitTypes, <1>1, PTL DEF Spec

-----------------------------------------------------------------------------
(* What is loaded.                                                         *)

(* A load that is under way has a token that was drawn, and the last one   *)
(* is drawn for the app that is open, if any.                              *)
LoadInv ==
  /\ \A l \in loading : l.token <= token /\ (l.token = token => app = l.app)
  /\ LoadedIsOpen

(* However late the flows of an app arrive, those that are loaded are those*)
(* of the app that is open (flowDispatcher.ts 660).                        *)
THEOREM LoadedIsOpenHolds == Spec => []LoadedIsOpen
<1>1. Init => LoadInv
  BY DEF Init, LoadInv, LoadedIsOpen
<1>2. TypeOK /\ LoadInv /\ [Next]_vars => LoadInv'
  <2> SUFFICES ASSUME TypeOK, LoadInv, [Next]_vars PROVE LoadInv'
    OBVIOUS
  <2> USE DEF LoadInv, LoadedIsOpen
  <2>0. SessionTypes /\ \A l \in loading : l.token \in Nat /\ l.app \in Apps
    BY TypesSplit DEF SessionTypes, Load
  <2>1. ASSUME NEW a \in Apps, OpenApp(a) PROVE LoadInv'
    <3>1. runtime' = None
      BY <2>1, DispatcherAssumption DEF OpenApp
    <3>2. ASSUME NEW l \in loading' PROVE l.token <= token' /\ (l.token = token' => app' = l.app)
      BY <2>0, <2>1, <3>2 DEF OpenApp, SessionTypes
    <3> QED BY <3>1, <3>2
  <2>2. ASSUME NEW l \in loading, Loaded(l) PROVE LoadInv'
    BY <2>0, <2>2 DEF Loaded, StillCurrent
  <2>3. CASE LeaveApp
    BY <2>0, <2>3 DEF LeaveApp, SessionTypes
  <2>4. ASSUME UNCHANGED session PROVE LoadInv'
    BY <2>4 DEF session
  <2>5. ASSUME NEW w \in Works,
               Begin(w) \/ RecordEnds(w) \/ HandleEvent(w) \/ FlowsEnd(w)
        PROVE  LoadInv'
    BY <2>4, <2>5 DEF Begin, RecordEnds, HandleEvent, FlowsEnd, End
  <2>6. CASE Sweeps
    BY <2>4, <2>6 DEF Sweeps, Tick, ListRuns, ListNothing, Claim, Answered, Executed, SweepEnds
  <2>7. ASSUME NEW r \in Runs,
               Choose(r) \/ Defer(r) \/ Enqueue(r) \/ TakenElsewhere(r) \/ Reclaim(r)
        PROVE  LoadInv'
    BY <2>4, <2>7 DEF Choose, Defer, Enqueue, TakenElsewhere, Reclaim
  <2>8. ASSUME NEW e \in Events, NEW u \in {"record", "flows"}, NEW v \in {"record", "flows"},
               Deliver(e, <<u, e>>, <<v, e>>)
        PROVE  LoadInv'
    BY <2>4, <2>8 DEF Deliver
  <2>9. CASE UNCHANGED vars
    BY <2>4, <2>9 DEF vars, session
  <2> QED BY <2>1, <2>2, <2>3, <2>5, <2>6, <2>7, <2>8, <2>9 DEF Next
<1> QED BY <1>1, <1>2, TypesHold, PTL DEF Spec, LoadInv

-----------------------------------------------------------------------------
(* The order of a call's events.                                           *)

(* What waits stands behind all that was there before it: each such work is*)
(* over, or the one it waits for, or before that one.                      *)
WaitsInv ==
  \A w \in Works : work[w] = "queued" =>
    /\ after[w] # None => work[after[w]] # "new"
    /\ \A v \in earlier[w] :
         \/ work[v] = "done" \/ v = after[w]
         \/ after[w] # None /\ v \in earlier[after[w]]

(* A work has the key of its call, or overflowed.                          *)
KeyInv ==
  \A v \in Works : key[v] # None /\ Correlation[v[2]] # None =>
    key[v] \in {Correlation[v[2]], Overflow}

(* The tail of a key is under way and has all that is under way under the  *)
(* key before it.                                                          *)
TailInv ==
  /\ \A k \in Keys : tail[k] # None => key[tail[k]] = k /\ Unfinished(tail[k])
  /\ \A v \in Works : Unfinished(v) /\ key[v] # None =>
       /\ tail[key[v]] # None
       /\ v = tail[key[v]] \/ v \in earlier[tail[key[v]]]

OrderInv == TypeOK /\ EventsInOrder /\ WaitsInv /\ KeyInv /\ TailInv

(* A work that ends takes the key along only if nothing is queued behind.  *)
LEMMA EndKeepsOrder ==
  ASSUME OrderInv, NEW w \in Works, work[w] \in {"begun", "running"}, End(w)
  PROVE  (EventsInOrder /\ WaitsInv /\ KeyInv /\ TailInv)'
<1>1. QueueTypes
  BY TypesSplit DEF OrderInv
<1>2. work' = [work EXCEPT ![w] = "done"] /\ UNCHANGED <<after, key, earlier>>
  BY DEF End
<1>3. EventsInOrder'
  BY <1>1, <1>2 DEF OrderInv, EventsInOrder, QueueTypes
<1>4. WaitsInv'
  BY <1>1, <1>2 DEF OrderInv, WaitsInv, QueueTypes
<1>5. KeyInv'
  BY <1>2 DEF OrderInv, KeyInv
<1>6. ASSUME NEW k \in Keys, tail'[k] # None
      PROVE  tail'[k] = tail[k] /\ tail[k] # w
  <2>1. CASE key[w] # None /\ tail[key[w]] = w
    <3>1. tail' = [tail EXCEPT ![key[w]] = None]
      BY <2>1 DEF End, Forgotten
    <3> QED BY <1>1, <1>6, <2>1, <3>1 DEF OrderInv, TailInv, QueueTypes
  <2>2. CASE ~(key[w] # None /\ tail[key[w]] = w)
    <3>1. tail' = tail
      BY <2>2 DEF End, Forgotten
    <3>2. tail[k] = w => key[w] = k
      BY <1>6, <3>1 DEF OrderInv, TailInv
    <3> QED BY <1>6, <2>2, <3>1, <3>2, DispatcherAssumption
  <2> QED BY <2>1, <2>2
<1>7. ASSUME NEW k \in Keys, tail'[k] # None
      PROVE  key'[tail'[k]] = k /\ work'[tail'[k]] \notin {"new", "done"}
  <2>1. tail'[k] = tail[k] /\ tail[k] # w /\ tail[k] \in Works
    BY <1>1, <1>6, <1>7 DEF QueueTypes
  <2>2. work'[tail[k]] = work[tail[k]]
    BY <1>1, <1>2, <2>1 DEF QueueTypes
  <2> QED BY <1>2, <1>7, <2>1, <2>2 DEF OrderInv, TailInv, Unfinished
<1>8. ASSUME NEW v \in Works, Unfinished(v)', key'[v] # None
      PROVE  /\ tail'[key'[v]] # None
             /\ v = tail'[key'[v]] \/ v \in earlier'[tail'[key'[v]]]
  <2>1. v # w /\ Unfinished(v) /\ key'[v] = key[v] /\ key[v] \in Keys
    BY <1>1, <1>2, <1>8 DEF Unfinished, QueueTypes
  <2>2. tail[key[v]] # None /\ (v = tail[key[v]] \/ v \in earlier[tail[key[v]]])
    BY <1>8, <2>1 DEF OrderInv, TailInv
  <2>3. tail[key[v]] # w
    BY <2>1, <2>2 DEF OrderInv, EventsInOrder, Unfinished
  <2>4. tail'[key[v]] = tail[key[v]]
    BY <1>1, <2>1, <2>3 DEF End, Forgotten, QueueTypes
  <2> QED BY <1>2, <2>1, <2>2, <2>4
<1>9. TailInv'
  BY <1>7, <1>8 DEF TailInv, Unfinished
<1> QED BY <1>3, <1>4, <1>5, <1>9

(* The second subscriber finds the key that the first one took.            *)
LEMMA SameKey ==
  ASSUME QueueTypes, NEW e \in Events,
         NEW first \in {"record", "flows"} \X {e},
         NEW second \in {"record", "flows"} \X {e}
  PROVE  KeyOf([tail EXCEPT ![KeyOf(tail, first)] = first], second) = KeyOf(tail, first)
<1> DEFINE k == KeyOf(tail, first)
           tail1 == [tail EXCEPT ![k] = first]
           c == Correlation[e]
           used(q) == {j \in Keys : q[j] # None}
<1>1. first[2] = e /\ second[2] = e /\ first \in Works /\ first # None
  BY DispatcherAssumption DEF Works
<1>2. k \in Keys /\ c \in Correlations \cup {None} /\ tail1 \in [Keys -> Works \cup {None}]
  BY <1>1, KeyIsKey, DispatcherAssumption DEF QueueTypes
<1>3. CASE c = None
  BY <1>1, <1>3 DEF KeyOf
<1>4. CASE c # None /\ k = c
  <2>1. tail1[c] # None
    BY <1>1, <1>2, <1>4 DEF QueueTypes
  <2> QED BY <1>1, <1>4, <2>1 DEF KeyOf
<1>5. CASE c # None /\ k # c
  <2>1. k = Overflow /\ tail[c] = None /\ ~(Active(tail) < MaxActive - 1)
    BY <1>1, <1>5 DEF KeyOf
  <2>2. c \in Keys /\ c # Overflow
    BY <1>2, <1>5, DispatcherAssumption DEF Keys
  <2>3. tail1[c] = None
    BY <2>1, <2>2 DEF QueueTypes
  <2>4. IsFiniteSet(Keys)
    BY DispatcherAssumption, FS_Union, FS_Singleton DEF Keys
  <2>5. used(tail) \subseteq used(tail1) /\ IsFiniteSet(used(tail1))
    BY <1>1, <1>2, <2>4, FS_Subset DEF QueueTypes
  <2>6. /\ Cardinality(used(tail)) <= Cardinality(used(tail1))
        /\ Cardinality(used(tail)) \in Nat /\ Cardinality(used(tail1)) \in Nat
    BY <2>5, FS_Subset, FS_CardinalityType
  <2>7. ~(Active(tail1) < MaxActive - 1)
    BY <2>1, <2>6, DispatcherAssumption DEF Active
  <2> QED BY <1>1, <1>5, <2>1, <2>3, <2>7 DEF KeyOf
<1> QED BY <1>3, <1>4, <1>5

(* What is queued stands behind all that is under its key.                 *)
LEMMA DeliverKeepsOrder ==
  ASSUME OrderInv, NEW e \in Events,
         NEW first \in {"record", "flows"} \X {e},
         NEW second \in {"record", "flows"} \X {e},
         Deliver(e, first, second)
  PROVE  (EventsInOrder /\ WaitsInv /\ KeyInv /\ TailInv)'
<1> DEFINE k == KeyOf(tail, first)
<1>1. QueueTypes
  BY TypesSplit DEF OrderInv
<1>2. /\ first \in Works /\ second \in Works /\ None \notin Works
      /\ first[2] = e /\ second[2] = e
  BY DispatcherAssumption DEF Works
<1>3. /\ k \in Keys
      /\ Correlation[e] # None => k \in {Correlation[e], Overflow}
  BY <1>2, KeyIsKey
<1>4. KeyOf([tail EXCEPT ![k] = first], second) = k
  BY <1>1, SameKey
<1>5. work[first] = "new" /\ work[second] = "new"
  BY <1>2 DEF Deliver
<1>6. /\ tail' = [tail EXCEPT ![k] = second]
      /\ after' = [after EXCEPT ![second] = first, ![first] = tail[k]]
      /\ key' = [key EXCEPT ![second] = k, ![first] = k]
      /\ work' = [w \in Works |-> IF w \in {first, second} THEN "queued" ELSE work[w]]
      /\ earlier' = [w \in Works |->
           IF w = first THEN Before(w, k)
           ELSE IF w = second THEN Before(w, k) \cup {first} ELSE earlier[w]]
  <2>1. [tail EXCEPT ![k] = first][k] = first
    BY <1>1, <1>3 DEF QueueTypes
  <2>2. [[tail EXCEPT ![k] = first] EXCEPT ![k] = second] = [tail EXCEPT ![k] = second]
    BY <1>1, <1>3 DEF QueueTypes
  <2>3. /\ tail' = IF first = second THEN [tail EXCEPT ![k] = first]
                   ELSE [[tail EXCEPT ![k] = first] EXCEPT ![k] = second]
        /\ after' = [after EXCEPT ![second] = [tail EXCEPT ![k] = first][k], ![first] = tail[k]]
        /\ key' = [key EXCEPT ![second] = k, ![first] = k]
        /\ work' = [w \in Works |-> IF w \in {first, second} THEN "queued" ELSE work[w]]
        /\ earlier' = [w \in Works |->
             IF w = first THEN Before(w, k)
             ELSE IF w = second THEN Before(w, k) \cup {first} ELSE earlier[w]]
    BY <1>4 DEF Deliver
  <2> HIDE DEF k
  <2> QED BY <2>1, <2>2, <2>3
<1> HIDE DEF k
<1>7. ASSUME NEW j \in Keys, tail[j] # None
      PROVE  tail[j] \in Works /\ work[tail[j]] # "new"
  BY <1>1, <1>7 DEF OrderInv, TailInv, QueueTypes, Unfinished
<1>8. ASSUME NEW w \in Works, w # first, w # second
      PROVE  /\ work'[w] = work[w] /\ after'[w] = after[w]
             /\ key'[w] = key[w] /\ earlier'[w] = earlier[w]
  BY <1>1, <1>6, <1>8 DEF QueueTypes
<1>9. /\ work'[first] = "queued" /\ work'[second] = "queued"
      /\ key'[first] = k /\ key'[second] = k
      /\ after'[first] = tail[k] /\ earlier'[first] = Before(first, k)
      /\ first # second =>
           after'[second] = first /\ earlier'[second] = Before(first, k) \cup {first}
  BY <1>1, <1>2, <1>6 DEF QueueTypes, Before, SameCall
<1>10. EventsInOrder'
  <2> SUFFICES ASSUME NEW w \in Works, work'[w] \notin {"new", "queued"},
                      NEW v \in earlier'[w]
               PROVE  work'[v] = "done"
    BY DEF EventsInOrder
  <2>1. w # first /\ w # second
    BY <1>9
  <2>2. work[v] = "done" /\ v \in Works
    BY <1>1, <1>8, <2>1 DEF OrderInv, EventsInOrder, QueueTypes
  <2> QED BY <1>5, <1>8, <2>2
<1>11. ASSUME NEW v \in Before(first, k)
       PROVE  /\ v \in Works /\ v # first /\ v # second /\ tail[k] # None
              /\ v = tail[k] \/ v \in earlier[tail[k]]
  <2>1. /\ v \in Works /\ Unfinished(v) /\ key[v] # None
        /\ key[v] = k \/ (SameCall(v, first) /\ key[v] # Overflow)
    BY <1>11 DEF Before
  <2>2. v # first /\ v # second
    BY <1>5, <2>1 DEF Unfinished
  <2>3. tail[key[v]] # None /\ (v = tail[key[v]] \/ v \in earlier[tail[key[v]]])
    BY <2>1 DEF OrderInv, TailInv
  <2>4. key[v] = k
    <3>1. CASE SameCall(v, first) /\ key[v] # Overflow
      <4>1. key[v] = Correlation[e] /\ Correlation[e] # None
        BY <1>2, <2>1, <3>1 DEF OrderInv, KeyInv, SameCall
      <4>2. tail[Correlation[e]] # None
        BY <2>3, <4>1
      <4> QED BY <1>2, <4>1, <4>2 DEF k, KeyOf
    <3> QED BY <2>1, <3>1
  <2> QED BY <2>1, <2>2, <2>3, <2>4
<1>12. WaitsInv'
  <2> SUFFICES ASSUME NEW w \in Works, work'[w] = "queued"
               PROVE  /\ after'[w] # None => work'[after'[w]] # "new"
                      /\ \A v \in earlier'[w] :
                           \/ work'[v] = "done" \/ v = after'[w]
                           \/ after'[w] # None /\ v \in earlier'[after'[w]]
    BY DEF WaitsInv
  <2>1. CASE w = first
    <3>1. ASSUME tail[k] # None
          PROVE  /\ tail[k] # first /\ tail[k] # second /\ tail[k] \in Works
                 /\ work[tail[k]] # "new"
      BY <1>3, <1>5, <1>7, <3>1
    <3>2. tail[k] # None => work'[tail[k]] # "new" /\ earlier'[tail[k]] = earlier[tail[k]]
      BY <1>8, <3>1
    <3> QED BY <1>9, <1>11, <2>1, <3>2
  <2>2. CASE w = second /\ first # second
    BY <1>2, <1>9, <2>2
  <2>3. CASE w # first /\ w # second
    <3>1. /\ work[w] = "queued" /\ after'[w] = after[w] /\ earlier'[w] = earlier[w]
          /\ earlier[w] \subseteq Works /\ after[w] \in Works \cup {None}
      BY <1>1, <1>8, <2>3 DEF QueueTypes
    <3>2. after[w] # None => work[after[w]] # "new"
      BY <3>1 DEF OrderInv, WaitsInv
    <3>3. after[w] # None =>
            work'[after[w]] = work[after[w]] /\ earlier'[after[w]] = earlier[after[w]]
      BY <1>5, <1>8, <3>1, <3>2
    <3>4. ASSUME NEW v \in earlier[w]
          PROVE  \/ work'[v] = "done" \/ v = after[w]
                 \/ after[w] # None /\ v \in earlier[after[w]]
      <4>1. work[v] = "done" => work'[v] = "done"
        BY <1>5, <1>8, <3>1
      <4> QED BY <3>1, <4>1 DEF OrderInv, WaitsInv
    <3> QED BY <3>1, <3>2, <3>3, <3>4
  <2> QED BY <2>1, <2>2, <2>3
<1>13. KeyInv'
  <2> SUFFICES ASSUME NEW v \in Works, key'[v] # None, Correlation[v[2]] # None
               PROVE  key'[v] \in {Correlation[v[2]], Overflow}
    BY DEF KeyInv
  <2>1. CASE v = first \/ v = second
    BY <1>2, <1>3, <1>9, <2>1
  <2>2. CASE v # first /\ v # second
    BY <1>8, <2>2 DEF OrderInv, KeyInv
  <2> QED BY <2>1, <2>2
<1>14. /\ tail'[k] = second
       /\ \A j \in Keys : j # k => tail'[j] = tail[j]
  BY <1>1, <1>3, <1>6 DEF QueueTypes
<1>15. ASSUME NEW j \in Keys, tail'[j] # None
       PROVE  key'[tail'[j]] = j /\ work'[tail'[j]] \notin {"new", "done"}
  <2>1. CASE j = k
    BY <1>9, <1>14, <2>1 DEF Unfinished
  <2>2. CASE j # k
    <3>1. tail'[j] = tail[j] /\ tail[j] \in Works /\ work[tail[j]] # "new"
      BY <1>7, <1>14, <1>15, <2>2
    <3>2. tail[j] # first /\ tail[j] # second
      BY <1>5, <3>1
    <3>3. key'[tail[j]] = key[tail[j]] /\ work'[tail[j]] = work[tail[j]]
      BY <1>8, <3>1, <3>2
    <3> QED BY <1>15, <3>1, <3>3 DEF OrderInv, TailInv, Unfinished
  <2> QED BY <2>1, <2>2
<1>16. ASSUME NEW v \in Works, Unfinished(v)', key'[v] # None
       PROVE  /\ tail'[key'[v]] # None
              /\ v = tail'[key'[v]] \/ v \in earlier'[tail'[key'[v]]]
  <2>1. CASE v = first \/ v = second
    BY <1>2, <1>9, <1>14, <2>1
  <2>2. CASE v # first /\ v # second
    <3>1. Unfinished(v) /\ key'[v] = key[v] /\ key[v] \in Keys
      BY <1>1, <1>8, <1>16, <2>2 DEF Unfinished, QueueTypes
    <3>2. tail[key[v]] # None /\ (v = tail[key[v]] \/ v \in earlier[tail[key[v]]])
      BY <1>16, <3>1 DEF OrderInv, TailInv
    <3>3. CASE key[v] = k
      <4>1. v \in Before(first, k)
        BY <1>16, <3>1, <3>3 DEF Before
      <4>2. v \in earlier'[second]
        BY <1>9, <4>1
      <4> QED BY <1>2, <1>14, <3>1, <3>3, <4>2
    <3>4. CASE key[v] # k
      <4>1. tail'[key[v]] = tail[key[v]] /\ tail[key[v]] \in Works
            /\ work[tail[key[v]]] # "new"
        BY <1>7, <1>14, <3>1, <3>2, <3>4
      <4>2. tail[key[v]] # first /\ tail[key[v]] # second
        BY <1>5, <4>1
      <4>3. earlier'[tail[key[v]]] = earlier[tail[key[v]]]
        BY <1>8, <4>1, <4>2
      <4> QED BY <3>1, <3>2, <4>1, <4>3
    <3> QED BY <3>3, <3>4
  <2> QED BY <2>1, <2>2
<1>17. TailInv'
  BY <1>15, <1>16 DEF TailInv, Unfinished
<1> QED BY <1>10, <1>12, <1>13, <1>17

(* The work of a call's events begins in the order the events came, the    *)
(* script's records and the bindings' flows in one queue                   *)
(* (browserEventQueue.ts 41-57).                                           *)
THEOREM EventsInOrderHolds == Spec => []EventsInOrder
<1>1. Init => EventsInOrder /\ WaitsInv /\ KeyInv /\ TailInv
  BY DEF Init, EventsInOrder, WaitsInv, KeyInv, TailInv, Unfinished
<1>2. OrderInv /\ [Next]_vars => (EventsInOrder /\ WaitsInv /\ KeyInv /\ TailInv)'
  <2> SUFFICES ASSUME OrderInv, [Next]_vars
               PROVE  (EventsInOrder /\ WaitsInv /\ KeyInv /\ TailInv)'
    OBVIOUS
  <2>0. QueueTypes
    BY TypesSplit DEF OrderInv
  <2>1. ASSUME UNCHANGED queue PROVE (EventsInOrder /\ WaitsInv /\ KeyInv /\ TailInv)'
    BY <2>1 DEF OrderInv, queue, EventsInOrder, WaitsInv, KeyInv, TailInv, Unfinished
  <2>2. CASE \E a \in Apps : OpenApp(a)
    BY <2>1, <2>2 DEF OpenApp
  <2>3. CASE \E l \in loading : Loaded(l)
    BY <2>1, <2>3 DEF Loaded
  <2>4. CASE LeaveApp
    <3>1. /\ \A j \in Keys : tail'[j] = None
          /\ \A w \in Works : key'[w] = None
          /\ UNCHANGED <<work, after, earlier>>
      BY <2>4 DEF LeaveApp
    <3> QED BY <3>1 DEF OrderInv, EventsInOrder, WaitsInv, KeyInv, TailInv, Unfinished
  <2>5. ASSUME NEW e \in Events, NEW u \in {"record", "flows"}, NEW v \in {"record", "flows"},
               Deliver(e, <<u, e>>, <<v, e>>)
        PROVE  (EventsInOrder /\ WaitsInv /\ KeyInv /\ TailInv)'
    BY <2>5, DeliverKeepsOrder
  <2>6. ASSUME NEW w \in Works, NEW s \in {"begun", "running"},
               work[w] \in {"queued", "begun"},
               work[w] = "queued" => (after[w] # None => work[after[w]] = "done"),
               work' = [work EXCEPT ![w] = s], UNCHANGED <<tail, after, key, earlier>>
        PROVE  (EventsInOrder /\ WaitsInv /\ KeyInv /\ TailInv)'
    <3>1. ASSUME NEW v \in earlier[w] PROVE work[v] = "done"
      <4>0. v \in Works /\ v # None
        BY <2>0, <3>1, DispatcherAssumption DEF QueueTypes
      <4>1. CASE work[w] = "begun"
        BY <3>1, <4>1 DEF OrderInv, EventsInOrder
      <4>2. CASE work[w] = "queued" /\ v \notin earlier[after[w]]
        BY <2>6, <3>1, <4>0, <4>2 DEF OrderInv, WaitsInv
      <4>3. CASE work[w] = "queued" /\ after[w] # None /\ v \in earlier[after[w]]
        <5>1. after[w] \in Works /\ work[after[w]] = "done"
          BY <2>0, <2>6, <4>3 DEF QueueTypes
        <5> QED BY <4>3, <5>1 DEF OrderInv, EventsInOrder
      <4>4. CASE work[w] = "queued" /\ after[w] = None
        BY <3>1, <4>0, <4>4 DEF OrderInv, WaitsInv
      <4> QED BY <2>6, <4>1, <4>2, <4>3, <4>4
    <3>2. /\ \A v \in Works : v # w => work'[v] = work[v]
          /\ work'[w] = s /\ work[w] # "done" /\ w \in Works
      BY <2>0, <2>6 DEF QueueTypes
    <3>3. EventsInOrder'
      BY <2>0, <2>6, <3>1, <3>2 DEF OrderInv, EventsInOrder, QueueTypes
    <3>4. WaitsInv'
      BY <2>0, <2>6, <3>2 DEF OrderInv, WaitsInv, QueueTypes
    <3>5. \A v \in Works : Unfinished(v)' <=> Unfinished(v)
      BY <2>6, <3>2 DEF Unfinished
    <3>6. KeyInv' /\ TailInv'
      BY <2>0, <2>6, <3>5 DEF OrderInv, KeyInv, TailInv, QueueTypes
    <3> QED BY <3>3, <3>4, <3>6
  <2>7. ASSUME NEW w \in Works, Begin(w)
        PROVE  (EventsInOrder /\ WaitsInv /\ KeyInv /\ TailInv)'
    BY <2>6, <2>7 DEF Begin
  <2>8. ASSUME NEW w \in Works, RecordEnds(w) \/ HandleEvent(w) \/ FlowsEnd(w)
        PROVE  (EventsInOrder /\ WaitsInv /\ KeyInv /\ TailInv)'
    <3>1. work[w] \in {"begun", "running"}
      BY <2>8 DEF RecordEnds, HandleEvent, FlowsEnd
    <3>2. CASE End(w)
      BY <3>1, <3>2, EndKeepsOrder
    <3>3. CASE ~End(w)
      BY <2>6, <2>8, <3>3 DEF RecordEnds, HandleEvent, FlowsEnd
    <3> QED BY <3>2, <3>3
  <2>9. CASE Sweeps
    BY <2>1, <2>9 DEF Sweeps, Tick, ListRuns, ListNothing, Claim, Answered, Executed, SweepEnds
  <2>10. ASSUME NEW r \in Runs,
                Choose(r) \/ Defer(r) \/ Enqueue(r) \/ TakenElsewhere(r) \/ Reclaim(r)
         PROVE  (EventsInOrder /\ WaitsInv /\ KeyInv /\ TailInv)'
    BY <2>1, <2>10 DEF Choose, Defer, Enqueue, TakenElsewhere, Reclaim
  <2>11. CASE UNCHANGED vars
    BY <2>1, <2>11 DEF vars, queue
  <2> QED BY <2>2, <2>3, <2>4, <2>5, <2>7, <2>8, <2>9, <2>10, <2>11 DEF Next
<1>3. Init /\ [][Next]_vars /\ []TypeOK => []OrderInv
  BY <1>1, <1>2, PTL DEF OrderInv
<1>4. OrderInv => EventsInOrder
  BY DEF OrderInv
<1> QED BY <1>3, <1>4, TypesHold, PTL DEF Spec
=============================================================================
