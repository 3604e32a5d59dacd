--------------------------- MODULE FlowRunsProofs ---------------------------
(***************************************************************************)
(* Theorems about FlowRuns, for any events, bindings, runners and limits.  *)
(***************************************************************************)
EXTENDS FlowRuns, TLAPS

-----------------------------------------------------------------------------
(* Runs and their handlers                                                 *)

LEMMA SourceIsRun ==
  ASSUME NEW s \in Sources
  PROVE  SourceRun(s) \in Runs
<1>1. <<>> \in [1 .. 0 -> Bindings]
  OBVIOUS
<1>2. 0 \in 0 .. MaxDepth
  BY RunsAssumption
<1> QED
  BY <1>1, <1>2 DEF SourceRun, Runs, Paths

(* A handler is a run of its own, of the same event, made for its binding. *)
LEMMA HandlerIsRun ==
  ASSUME NEW r \in Runs, NEW b \in Bindings, Len(r[2]) < MaxDepth
  PROVE  /\ Handler(r, b) \in Runs
         /\ Handler(r, b) # r
         /\ Handler(r, b)[1] = r[1]
         /\ IsHandlerOf(b, Handler(r, b))
<1>1. PICK n \in 0 .. MaxDepth : r[2] \in [1 .. n -> Bindings]
  BY DEF Runs, Paths
<1>2. n \in Nat /\ MaxDepth \in Nat
  BY RunsAssumption
<1>3. r[2] \in Seq(Bindings) /\ Len(r[2]) = n
  BY <1>1, <1>2
<1>4. n + 1 \in 0 .. MaxDepth
  BY <1>2, <1>3
<1> DEFINE p == Append(r[2], b)
<1>5. p \in Seq(Bindings) /\ Len(p) = n + 1 /\ p[n + 1] = b
  BY <1>2, <1>3
<1>6. p \in [1 .. n + 1 -> Bindings]
  <2> HIDE DEF p
  <2>1. p \in [1 .. Len(p) -> Bindings]
    BY <1>5
  <2> QED BY <1>5, <2>1
<1>7. p \in Paths /\ p # r[2]
  <2> HIDE DEF p
  <2>1. p \in Paths
    BY <1>4, <1>6 DEF Paths
  <2>2. Len(p) # Len(r[2])
    BY <1>2, <1>3, <1>5
  <2> QED BY <2>1, <2>2
<1>8. r[1] \in Sources /\ r = <<r[1], r[2]>>
  BY DEF Runs
<1>9. Handler(r, b)[1] = r[1] /\ Handler(r, b)[2] = p
  BY DEF Handler
<1>10. IsHandlerOf(b, Handler(r, b))
  <2> HIDE DEF p
  <2> QED BY <1>2, <1>5, <1>9 DEF IsHandlerOf
<1>11. Handler(r, b) \in Runs
  BY <1>7, <1>8 DEF Handler, Runs
<1> QED
  BY <1>7, <1>9, <1>10, <1>11

-----------------------------------------------------------------------------
(* Type correctness                                                        *)

LEMMA TypeInit == Init => TypeOK
  BY RunsAssumption DEF Init, TypeOK, States, Steps, Actors

(* Every step keeps every variable in its set.                             *)
LEMMA TypeStep == TypeOK /\ [Next]_vars => TypeOK'
<1> SUFFICES ASSUME TypeOK, [Next]_vars PROVE TypeOK'
  OBVIOUS
<1> USE DEF TypeOK, rowVars, eventVars, workVars, jobVars, States, Steps, Outcomes
<1>a. /\ Runners \subseteq Actors /\ Jobs \subseteq Actors
      /\ "reclaimer" \in Actors /\ "sweep" \in Actors
  BY DEF Actors, Jobs
<1>b. \A r, o : Subscribers(r, o) \subseteq Bindings
  BY DEF Subscribers
<1> USE <1>a, <1>b
<1>1. ASSUME NEW s \in Sources, EnqueueSource(s) PROVE TypeOK'
  BY <1>1 DEF EnqueueSource
<1>2. ASSUME NEW s \in Sources, NEW w \in Runners, Refuse(w, s) PROVE TypeOK'
  BY <1>2, SourceIsRun DEF Refuse
<1>3. ASSUME NEW s \in Sources, NEW w \in Runners, Reserve(w, s) PROVE TypeOK'
  BY <1>3, SourceIsRun DEF Reserve, Begin
<1>4. ASSUME NEW w \in Runners, NEW r \in Runs, Claim(w, r) PROVE TypeOK'
  BY <1>4 DEF Claim, Begin
<1>5. ASSUME NEW w \in Runners, Complete(w) PROVE TypeOK'
  BY <1>5 DEF Complete, Return, WriteEvent
<1>6. ASSUME NEW w \in Runners, CompleteFails(w) PROVE TypeOK'
  BY <1>6 DEF CompleteFails, Return
<1>7. ASSUME NEW w \in Runners, Finalize(w) PROVE TypeOK'
  BY <1>7 DEF Finalize
<1>8. ASSUME NEW a \in Actors, Emit(a) PROVE TypeOK'
  BY <1>8 DEF Emit, Return, WriteEvent, Terminal
<1>9. ASSUME NEW a \in Actors, EmitFails(a) PROVE TypeOK'
  BY <1>9 DEF EmitFails, Return
<1>10. ASSUME NEW a \in Actors, Look(a) PROVE TypeOK'
  BY <1>10 DEF Look
<1>11. ASSUME NEW a \in Actors, Enqueue(a) PROVE TypeOK'
  BY <1>11 DEF Enqueue, Looked
<1>12. ASSUME NEW a \in Actors, EnqueueFails(a) PROVE TypeOK'
  BY <1>12 DEF EnqueueFails, Looked
<1>13. ASSUME NEW a \in Actors, Mark(a) PROVE TypeOK'
  <2>1. attempts' \in [Runs -> 0 .. MaxAttempts]
    <3>1. \A n \in 0 .. MaxAttempts :
            (IF n < MaxAttempts THEN n + 1 ELSE n) \in 0 .. MaxAttempts
      BY RunsAssumption
    <3>2. attempts' = [attempts EXCEPT ![run[a]] =
            IF attempts[run[a]] < MaxAttempts THEN attempts[run[a]] + 1 ELSE attempts[run[a]]]
      BY <1>13 DEF Mark
    <3> QED BY <3>1, <3>2
  <2>2. at' \in [Actors -> Steps] /\ run' \in [Actors -> Runs \cup {None}]
    BY <1>13 DEF Mark, Return
  <2>3. dispatch' \in [Runs -> {"none", "pending", "done", "failed"}]
    BY <1>13 DEF Mark, MarkOf
  <2>4. broke' \in [Actors -> BOOLEAN]
    BY <1>13 DEF Mark
  <2> QED BY <1>13, <2>1, <2>2, <2>3, <2>4 DEF Mark
<1>14. ASSUME NEW a \in Actors, Park(a) PROVE TypeOK'
  BY <1>14 DEF Park, Return
<1>15. CASE PickStuck
  BY <1>15 DEF PickStuck, GoThrough
<1>16. CASE Reclaim
  BY <1>16 DEF Reclaim, ReclaimedAs
<1>17. CASE PickMissing
  BY <1>17 DEF PickMissing, GoThrough
<1>18. CASE PickPending
  BY <1>18 DEF PickPending, GoThrough
<1>19. ASSUME NEW j \in Jobs, NextEmit(j) PROVE TypeOK'
  BY <1>19 DEF NextEmit
<1>20. CASE NextSend
  BY <1>20 DEF NextSend
<1>21. ASSUME NEW j \in Jobs, PassEnds(j) PROVE TypeOK'
  BY <1>21 DEF PassEnds
<1>22. ASSUME NEW w \in Runners, Crash(w) PROVE TypeOK'
  BY <1>22 DEF Crash
<1>23. ASSUME NEW r \in Runs, Age(r) PROVE TypeOK'
  BY <1>23 DEF Age
<1>24. CASE UNCHANGED vars
  BY <1>24 DEF vars
<1> QED
  BY <1>1, <1>2, <1>3, <1>4, <1>5, <1>6, <1>7, <1>8, <1>9, <1>10, <1>11, <1>12,
     <1>13, <1>14, <1>15, <1>16, <1>17, <1>18, <1>19, <1>20, <1>21, <1>22, <1>23, <1>24
  DEF Next, Work, Dispatch, ReclaimerStep, SweepStep, Actors, Jobs

(* Every variable of the flow service stays in its set: runs, events and   *)
(* the actors' notes about them.                                           *)
THEOREM TypeCorrect == Spec => []TypeOK
  BY TypeInit, TypeStep, PTL DEF Spec

-----------------------------------------------------------------------------
(* Executed once                                                           *)

(* Only a run that nobody has begun yet, and that has no age, is there to  *)
(* begin.                                                                  *)
BegunOnce ==
  \A r \in Runs :
    /\ starts[r] <= 1
    /\ status[r] \in {"none", "queued"} => starts[r] = 0 /\ r \notin old

LEMMA BegunInit == Init => BegunOnce
  BY DEF Init, BegunOnce

LEMMA BegunStep == TypeOK /\ BegunOnce /\ [Next]_vars => BegunOnce'
<1> SUFFICES ASSUME TypeOK, BegunOnce, [Next]_vars PROVE BegunOnce'
  OBVIOUS
<1> USE DEF TypeOK, BegunOnce, Outcomes, rowVars
<1>1. ASSUME NEW s \in Sources, EnqueueSource(s) PROVE BegunOnce'
  BY <1>1 DEF EnqueueSource
<1>2. ASSUME NEW s \in Sources, NEW w \in Runners, Refuse(w, s) PROVE BegunOnce'
  BY <1>2 DEF Refuse
<1>3. ASSUME NEW s \in Sources, NEW w \in Runners, Reserve(w, s) PROVE BegunOnce'
  BY <1>3, SourceIsRun DEF Reserve, Begin
<1>4. ASSUME NEW w \in Runners, NEW r \in Runs, Claim(w, r) PROVE BegunOnce'
  BY <1>4 DEF Claim, Claimable, Begin
<1>5. ASSUME NEW w \in Runners, Complete(w) PROVE BegunOnce'
  BY <1>5 DEF Complete
<1>6. ASSUME NEW w \in Runners, CompleteFails(w) PROVE BegunOnce'
  BY <1>6 DEF CompleteFails
<1>7. ASSUME NEW w \in Runners, Finalize(w) PROVE BegunOnce'
  BY <1>7 DEF Finalize
<1>8. ASSUME NEW a \in Actors, Emit(a) PROVE BegunOnce'
  BY <1>8 DEF Emit
<1>9. ASSUME NEW a \in Actors, EmitFails(a) PROVE BegunOnce'
  BY <1>9 DEF EmitFails
<1>10. ASSUME NEW a \in Actors, Look(a) PROVE BegunOnce'
  BY <1>10 DEF Look
<1>11. ASSUME NEW a \in Actors, Enqueue(a) PROVE BegunOnce'
  BY <1>11 DEF Enqueue, Looked
<1>12. ASSUME NEW a \in Actors, EnqueueFails(a) PROVE BegunOnce'
  BY <1>12 DEF EnqueueFails, Looked
<1>13. ASSUME NEW a \in Actors, Mark(a) PROVE BegunOnce'
  BY <1>13 DEF Mark
<1>14. ASSUME NEW a \in Actors, Park(a) PROVE BegunOnce'
  BY <1>14 DEF Park
<1>15. CASE PickStuck
  BY <1>15 DEF PickStuck
<1>16. CASE Reclaim
  BY <1>16 DEF Reclaim, ReclaimedAs
<1>17. CASE PickMissing
  BY <1>17 DEF PickMissing
<1>18. CASE PickPending
  BY <1>18 DEF PickPending
<1>19. ASSUME NEW j \in Jobs, NextEmit(j) PROVE BegunOnce'
  BY <1>19 DEF NextEmit
<1>20. CASE NextSend
  BY <1>20 DEF NextSend
<1>21. ASSUME NEW j \in Jobs, PassEnds(j) PROVE BegunOnce'
  BY <1>21 DEF PassEnds
<1>22. ASSUME NEW w \in Runners, Crash(w) PROVE BegunOnce'
  BY <1>22 DEF Crash
<1>23. ASSUME NEW r \in Runs, Age(r) PROVE BegunOnce'
  BY <1>23 DEF Age
<1>24. CASE UNCHANGED vars
  BY <1>24 DEF vars
<1> QED
  BY <1>1, <1>2, <1>3, <1>4, <1>5, <1>6, <1>7, <1>8, <1>9, <1>10, <1>11, <1>12,
     <1>13, <1>14, <1>15, <1>16, <1>17, <1>18, <1>19, <1>20, <1>21, <1>22, <1>23, <1>24
  DEF Next, Work, Dispatch, ReclaimerStep, SweepStep, Actors, Jobs

(* No run is begun twice: not by two runners that claim or reserve it at   *)
(* the same time, not after a crash, a reclaim or a failed completion.     *)
THEOREM ExecutedOnceHolds == Spec => []ExecutedOnce
<1>1. BegunOnce => ExecutedOnce
  BY DEF BegunOnce, ExecutedOnce
<1> QED
  BY <1>1, BegunInit, BegunStep, TypeCorrect, PTL DEF Spec

-----------------------------------------------------------------------------
(* Who is about what                                                       *)

(* An actor that is busy with a run names one, and the reclaimer's batch   *)
(* is made of runs that were old when it read them.                        *)
Busy == {"execute", "emit", "dispatch", "enqueue", "park"}
BusyWithRuns ==
  /\ \A a \in Actors : at[a] \in Busy => run[a] \in Runs
  /\ at["reclaimer"] = "update" => picked["reclaimer"] \subseteq old

LEMMA BusyInit == Init => BusyWithRuns
  BY DEF Init, BusyWithRuns, Busy, Actors, Jobs

LEMMA BusyStep == TypeOK /\ BusyWithRuns /\ [Next]_vars => BusyWithRuns'
<1> SUFFICES ASSUME TypeOK, BusyWithRuns, [Next]_vars PROVE BusyWithRuns'
  OBVIOUS
<1>a. /\ Runners \subseteq Actors /\ Jobs \subseteq Actors
      /\ "reclaimer" \in Jobs /\ "sweep" \in Jobs
      /\ \A w \in Runners : w # "reclaimer" /\ w # "sweep"
  BY RunnersAssumption DEF Actors, Jobs
<1> USE <1>a DEF TypeOK, BusyWithRuns, Busy, Stuck, rowVars, eventVars, workVars, jobVars
<1>1. ASSUME NEW s \in Sources, EnqueueSource(s) PROVE BusyWithRuns'
  BY <1>1 DEF EnqueueSource
<1>2. ASSUME NEW s \in Sources, NEW w \in Runners, Refuse(w, s) PROVE BusyWithRuns'
  BY <1>2, SourceIsRun DEF Refuse
<1>3. ASSUME NEW s \in Sources, NEW w \in Runners, Reserve(w, s) PROVE BusyWithRuns'
  BY <1>3, SourceIsRun DEF Reserve, Begin
<1>4. ASSUME NEW w \in Runners, NEW r \in Runs, Claim(w, r) PROVE BusyWithRuns'
  BY <1>4 DEF Claim, Begin
<1>5. ASSUME NEW w \in Runners, Complete(w) PROVE BusyWithRuns'
  BY <1>5 DEF Complete, Return, WriteEvent
<1>6. ASSUME NEW w \in Runners, CompleteFails(w) PROVE BusyWithRuns'
  BY <1>6 DEF CompleteFails, Return
<1>7. ASSUME NEW w \in Runners, Finalize(w) PROVE BusyWithRuns'
  BY <1>7 DEF Finalize
<1>8. ASSUME NEW a \in Actors, Emit(a) PROVE BusyWithRuns'
  BY <1>8 DEF Emit, Return, WriteEvent
<1>9. ASSUME NEW a \in Actors, EmitFails(a) PROVE BusyWithRuns'
  BY <1>9 DEF EmitFails, Return
<1>10. ASSUME NEW a \in Actors, Look(a) PROVE BusyWithRuns'
  BY <1>10 DEF Look
<1>11. ASSUME NEW a \in Actors, Enqueue(a) PROVE BusyWithRuns'
  BY <1>11 DEF Enqueue, Looked
<1>12. ASSUME NEW a \in Actors, EnqueueFails(a) PROVE BusyWithRuns'
  BY <1>12 DEF EnqueueFails, Looked
<1>13. ASSUME NEW a \in Actors, Mark(a) PROVE BusyWithRuns'
  BY <1>13 DEF Mark, Return
<1>14. ASSUME NEW a \in Actors, Park(a) PROVE BusyWithRuns'
  BY <1>14 DEF Park, Return
<1>15. CASE PickStuck
  BY <1>15 DEF PickStuck, GoThrough
<1>16. CASE Reclaim
  BY <1>16 DEF Reclaim
<1>17. CASE PickMissing
  BY <1>17 DEF PickMissing, GoThrough
<1>18. CASE PickPending
  BY <1>18 DEF PickPending, GoThrough
<1>19. ASSUME NEW j \in Jobs, NextEmit(j) PROVE BusyWithRuns'
  BY <1>19 DEF NextEmit
<1>20. CASE NextSend
  BY <1>20 DEF NextSend
<1>21. ASSUME NEW j \in Jobs, PassEnds(j) PROVE BusyWithRuns'
  BY <1>21 DEF PassEnds
<1>22. ASSUME NEW w \in Runners, Crash(w) PROVE BusyWithRuns'
  BY <1>22 DEF Crash
<1>23. ASSUME NEW r \in Runs, Age(r) PROVE BusyWithRuns'
  BY <1>23 DEF Age
<1>24. CASE UNCHANGED vars
  BY <1>24 DEF vars
<1> QED
  BY <1>1, <1>2, <1>3, <1>4, <1>5, <1>6, <1>7, <1>8, <1>9, <1>10, <1>11, <1>12,
     <1>13, <1>14, <1>15, <1>16, <1>17, <1>18, <1>19, <1>20, <1>21, <1>22, <1>23, <1>24
  DEF Next, Work, Dispatch, ReclaimerStep, SweepStep, Actors, Jobs

-----------------------------------------------------------------------------
(* One life, one outcome                                                   *)

(* No cloud runner loses its run to the reclaimer: the runner is done when *)
(* the run grows old, or there is no cloud run.                            *)
OnTime == "slow" \notin Hazards \/ "cloud" \notin Kinds

(* A cloud run that is being executed is running, young, and executed by   *)
(* one runner, so that its unguarded UPDATE ends it for the first time.    *)
CloudInHand ==
  \A w \in Runners :
    at[w] = "execute" /\ IsCloud(run[w]) =>
      /\ status[run[w]] = "running" /\ run[w] \notin old
      /\ \A v \in Runners : at[v] = "execute" /\ run[v] = run[w] => v = w

OutcomeInv == EventTellsTheOutcome /\ CloudInHand

LEMMA OutcomeInit == Init => OutcomeInv
  BY DEF Init, OutcomeInv, EventTellsTheOutcome, CloudInHand, Actors

(* Where cloud runs may outlive their time there are none.                 *)
LEMMA CloudIsOnTime ==
  ASSUME OnTime, TypeOK, NEW r \in Runs, IsCloud(r)
  PROVE  "slow" \notin Hazards
  BY DEF OnTime, TypeOK, IsCloud, Runs

(* Where one's steps are in order, what is told stays true.                *)
LEMMA TellsStep ==
  ASSUME TypeOK, BusyWithRuns, OutcomeInv, [Next]_vars
  PROVE  EventTellsTheOutcome'
<1>a. /\ Runners \subseteq Actors /\ "reclaimer" \notin Runners /\ "sweep" \notin Runners
      /\ Jobs \subseteq Actors
  BY RunnersAssumption DEF Actors, Jobs
<1>b. \A w \in Runners : at[w] = "execute" => run[w] \in Runs
  BY <1>a DEF BusyWithRuns, Busy
<1> USE <1>a, <1>b DEF TypeOK, OutcomeInv, EventTellsTheOutcome, Outcomes, rowVars, eventVars
<1>1. ASSUME NEW s \in Sources, EnqueueSource(s) PROVE EventTellsTheOutcome'
  BY <1>1 DEF EnqueueSource
<1>2. ASSUME NEW s \in Sources, NEW w \in Runners, Refuse(w, s) PROVE EventTellsTheOutcome'
  BY <1>2, SourceIsRun DEF Refuse
<1>3. ASSUME NEW s \in Sources, NEW w \in Runners, Reserve(w, s) PROVE EventTellsTheOutcome'
  BY <1>3, SourceIsRun DEF Reserve, Begin
<1>4. ASSUME NEW w \in Runners, NEW r \in Runs, Claim(w, r) PROVE EventTellsTheOutcome'
  BY <1>4 DEF Claim, Claimable, Begin
<1>5. ASSUME NEW w \in Runners, Complete(w) PROVE EventTellsTheOutcome'
  BY <1>5 DEF Complete, Return, WriteEvent, CanWrite
<1>6. ASSUME NEW w \in Runners, CompleteFails(w) PROVE EventTellsTheOutcome'
  BY <1>6 DEF CompleteFails, Return
<1>7. ASSUME NEW w \in Runners, Finalize(w) PROVE EventTellsTheOutcome'
  BY <1>7 DEF Finalize, CloudInHand
<1>8. ASSUME NEW a \in Actors, Emit(a) PROVE EventTellsTheOutcome'
  BY <1>8 DEF Emit, Return, WriteEvent, CanWrite, Terminal
<1>9. ASSUME NEW a \in Actors, EmitFails(a) PROVE EventTellsTheOutcome'
  BY <1>9 DEF EmitFails, Return
<1>10. ASSUME NEW a \in Actors, Look(a) PROVE EventTellsTheOutcome'
  BY <1>10 DEF Look
<1>11. ASSUME NEW a \in Actors, Enqueue(a) PROVE EventTellsTheOutcome'
  BY <1>11 DEF Enqueue, Looked
<1>12. ASSUME NEW a \in Actors, EnqueueFails(a) PROVE EventTellsTheOutcome'
  BY <1>12 DEF EnqueueFails, Looked
<1>13. ASSUME NEW a \in Actors, Mark(a) PROVE EventTellsTheOutcome'
  BY <1>13 DEF Mark, Return
<1>14. ASSUME NEW a \in Actors, Park(a) PROVE EventTellsTheOutcome'
  BY <1>14 DEF Park, Return
<1>15. CASE PickStuck
  BY <1>15 DEF PickStuck, GoThrough
<1>16. CASE Reclaim
  BY <1>16 DEF Reclaim, Reclaimable, ReclaimedAs
<1>17. CASE PickMissing
  BY <1>17 DEF PickMissing, GoThrough
<1>18. CASE PickPending
  BY <1>18 DEF PickPending, GoThrough
<1>19. ASSUME NEW j \in Jobs, NextEmit(j) PROVE EventTellsTheOutcome'
  BY <1>19 DEF NextEmit
<1>20. CASE NextSend
  BY <1>20 DEF NextSend
<1>21. ASSUME NEW j \in Jobs, PassEnds(j) PROVE EventTellsTheOutcome'
  BY <1>21 DEF PassEnds
<1>22. ASSUME NEW w \in Runners, Crash(w) PROVE EventTellsTheOutcome'
  BY <1>22 DEF Crash
<1>23. ASSUME NEW r \in Runs, Age(r) PROVE EventTellsTheOutcome'
  BY <1>23 DEF Age
<1>24. CASE UNCHANGED vars
  BY <1>24 DEF vars
<1> QED
  BY <1>1, <1>2, <1>3, <1>4, <1>5, <1>6, <1>7, <1>8, <1>9, <1>10, <1>11, <1>12,
     <1>13, <1>14, <1>15, <1>16, <1>17, <1>18, <1>19, <1>20, <1>21, <1>22, <1>23, <1>24
  DEF Next, Work, Dispatch, ReclaimerStep, SweepStep, Actors, Jobs

LEMMA InHandStep ==
  ASSUME OnTime, TypeOK, BegunOnce, BusyWithRuns, OutcomeInv, [Next]_vars
  PROVE  CloudInHand'
<1>a. /\ Runners \subseteq Actors /\ "reclaimer" \notin Runners /\ "sweep" \notin Runners
      /\ Jobs \subseteq Actors
  BY RunnersAssumption DEF Actors, Jobs
<1>b. \A w \in Runners : at[w] = "execute" => run[w] \in Runs
  BY <1>a DEF BusyWithRuns, Busy
<1>t. \A w \in Runners : at[w] = "execute" /\ IsCloud(run[w]) => "slow" \notin Hazards
  BY <1>b, CloudIsOnTime
<1>k. ASSUME kind' = kind,
             \A w \in Runners :
               at'[w] = "execute" => at[w] = "execute" /\ run'[w] = run[w],
             \A w \in Runners :
               at'[w] = "execute" /\ IsCloud(run[w]) =>
                 status'[run[w]] = status[run[w]] /\ (run[w] \in old' => run[w] \in old)
      PROVE  CloudInHand'
  BY <1>k DEF OutcomeInv, CloudInHand, IsCloud
<1> USE <1>a, <1>b DEF TypeOK, OutcomeInv, IsCloud, Steps, Jobs, rowVars, jobVars
<1>1. ASSUME NEW s \in Sources, EnqueueSource(s) PROVE CloudInHand'
  BY <1>1, <1>k DEF EnqueueSource, CloudInHand
<1>2. ASSUME NEW s \in Sources, NEW w \in Runners, Refuse(w, s) PROVE CloudInHand'
  BY <1>2, <1>k, SourceIsRun DEF Refuse, CloudInHand
<1>3. ASSUME NEW s \in Sources, NEW w \in Runners, Reserve(w, s) PROVE CloudInHand'
  <2>1. /\ SourceRun(s) \in Runs /\ status[SourceRun(s)] \in {"none", "queued"}
        /\ status' = [status EXCEPT ![SourceRun(s)] = "running"]
        /\ at' = [at EXCEPT ![w] = "execute"] /\ run' = [run EXCEPT ![w] = SourceRun(s)]
        /\ old' = old /\ kind' = kind
    BY <1>3, SourceIsRun DEF Reserve, Begin
  <2>2. \A v \in Runners : at[v] = "execute" /\ IsCloud(run[v]) => run[v] # SourceRun(s)
    BY <2>1 DEF CloudInHand
  <2>3. SourceRun(s) \notin old
    BY <2>1 DEF BegunOnce
  <2> QED BY <2>1, <2>2, <2>3 DEF CloudInHand
<1>4. ASSUME NEW w \in Runners, NEW r \in Runs, Claim(w, r) PROVE CloudInHand'
  <2>1. /\ r \in Runs /\ status[r] \in {"none", "queued"}
        /\ status' = [status EXCEPT ![r] = "running"]
        /\ at' = [at EXCEPT ![w] = "execute"] /\ run' = [run EXCEPT ![w] = r]
        /\ old' = old /\ kind' = kind
    BY <1>4, SourceIsRun DEF Claim, Claimable, Begin
  <2>2. \A v \in Runners : at[v] = "execute" /\ IsCloud(run[v]) => run[v] # r
    BY <2>1 DEF CloudInHand
  <2>3. r \notin old
    BY <2>1 DEF BegunOnce
  <2> QED BY <2>1, <2>2, <2>3 DEF CloudInHand
<1>5. ASSUME NEW w \in Runners, Complete(w) PROVE CloudInHand'
  <2>1. kind' = kind /\ old' = old /\ ~IsCloud(run[w])
    BY <1>5 DEF Complete
  <2>2. at' = [at EXCEPT ![w] = at'[w]] /\ at'[w] # "execute"
    BY <1>5 DEF Complete, Return, WriteEvent
  <2>3. run' = [run EXCEPT ![w] = run'[w]]
    BY <1>5 DEF Complete, Return
  <2>4. status' = [status EXCEPT ![run[w]] = status'[run[w]]]
    BY <1>5 DEF Complete
  <2> HIDE DEF IsCloud
  <2> QED BY <1>k, <2>1, <2>2, <2>3, <2>4
<1>6. ASSUME NEW w \in Runners, CompleteFails(w) PROVE CloudInHand'
  BY <1>6, <1>k DEF CompleteFails, Return
<1>7. ASSUME NEW w \in Runners, Finalize(w) PROVE CloudInHand'
  BY <1>7 DEF Finalize, CloudInHand
<1>8. ASSUME NEW a \in Actors, Emit(a) PROVE CloudInHand'
  BY <1>8, <1>k DEF Emit, Return, WriteEvent, CanWrite, Terminal
<1>9. ASSUME NEW a \in Actors, EmitFails(a) PROVE CloudInHand'
  BY <1>9, <1>k DEF EmitFails, Return
<1>10. ASSUME NEW a \in Actors, Look(a) PROVE CloudInHand'
  BY <1>10, <1>k DEF Look
<1>11. ASSUME NEW a \in Actors, Enqueue(a) PROVE CloudInHand'
  BY <1>11, <1>k DEF Enqueue, Looked, CloudInHand
<1>12. ASSUME NEW a \in Actors, EnqueueFails(a) PROVE CloudInHand'
  BY <1>12, <1>k DEF EnqueueFails, Looked
<1>13. ASSUME NEW a \in Actors, Mark(a) PROVE CloudInHand'
  BY <1>13, <1>k DEF Mark, Return
<1>14. ASSUME NEW a \in Actors, Park(a) PROVE CloudInHand'
  BY <1>14, <1>k DEF Park, Return
<1>15. CASE PickStuck
  BY <1>15, <1>k DEF PickStuck, GoThrough
<1>16. CASE Reclaim
  BY <1>16, <1>k DEF Reclaim, BusyWithRuns, CloudInHand
<1>17. CASE PickMissing
  BY <1>17, <1>k DEF PickMissing, GoThrough
<1>18. CASE PickPending
  BY <1>18, <1>k DEF PickPending, GoThrough
<1>19. ASSUME NEW j \in Jobs, NextEmit(j) PROVE CloudInHand'
  BY <1>19, <1>k DEF NextEmit
<1>20. CASE NextSend
  BY <1>20, <1>k DEF NextSend
<1>21. ASSUME NEW j \in Jobs, PassEnds(j) PROVE CloudInHand'
  BY <1>21, <1>k DEF PassEnds
<1>22. ASSUME NEW w \in Runners, Crash(w) PROVE CloudInHand'
  BY <1>22, <1>k DEF Crash
<1>23. ASSUME NEW r \in Runs, Age(r) PROVE CloudInHand'
  BY <1>23, <1>k, <1>t DEF Age
<1>24. CASE UNCHANGED vars
  BY <1>24, <1>k DEF vars
<1> QED
  BY <1>1, <1>2, <1>3, <1>4, <1>5, <1>6, <1>7, <1>8, <1>9, <1>10, <1>11, <1>12,
     <1>13, <1>14, <1>15, <1>16, <1>17, <1>18, <1>19, <1>20, <1>21, <1>22, <1>23, <1>24
  DEF Next, Work, Dispatch, ReclaimerStep, SweepStep, Actors, Jobs

(* Subscribers are told of the outcome that the run's row has, as long as  *)
(* no cloud run is reclaimed before it ends.                               *)
THEOREM EventTellsTheOutcomeHolds == OnTime /\ Spec => []EventTellsTheOutcome
<1> SUFFICES ASSUME OnTime PROVE Spec => []EventTellsTheOutcome
  OBVIOUS
<1>1. OutcomeInv => EventTellsTheOutcome
  BY DEF OutcomeInv
<1>2. TypeOK /\ BegunOnce /\ BusyWithRuns /\ OutcomeInv /\ [Next]_vars => OutcomeInv'
  BY TellsStep, InHandStep DEF OutcomeInv
<1> QED
  BY <1>1, <1>2, OutcomeInit, BusyInit, BusyStep, BegunInit, BegunStep, TypeCorrect, PTL DEF Spec

(* Each step is one that RunOnce allows every run.                         *)
LEMMA EachLives ==
  ASSUME TypeOK, BusyWithRuns, OutcomeInv, [Next]_vars
  PROVE  RO!Next
<1>a. Runners \subseteq Actors /\ Jobs \subseteq Actors
  BY DEF Actors
<1>b. \A w \in Runners : at[w] = "execute" => run[w] \in Runs
  BY <1>a DEF BusyWithRuns, Busy
<1> USE <1>a, <1>b DEF RO!Next, RO!Lives, RO!Tells, TypeOK, Outcomes, States,
        rowVars, eventVars, workVars, jobVars
<1>1. ASSUME NEW s \in Sources, EnqueueSource(s) PROVE RO!Next
  BY <1>1 DEF EnqueueSource
<1>2. ASSUME NEW s \in Sources, NEW w \in Runners, Refuse(w, s) PROVE RO!Next
  BY <1>2, SourceIsRun DEF Refuse
<1>3. ASSUME NEW s \in Sources, NEW w \in Runners, Reserve(w, s) PROVE RO!Next
  BY <1>3, SourceIsRun DEF Reserve, Begin
<1>4. ASSUME NEW w \in Runners, NEW r \in Runs, Claim(w, r) PROVE RO!Next
  BY <1>4 DEF Claim, Claimable, Begin
<1>5. ASSUME NEW w \in Runners, Complete(w) PROVE RO!Next
  BY <1>5 DEF Complete, Return, WriteEvent, CanWrite
<1>6. ASSUME NEW w \in Runners, CompleteFails(w) PROVE RO!Next
  BY <1>6 DEF CompleteFails, Return
<1>7. ASSUME NEW w \in Runners, Finalize(w) PROVE RO!Next
  BY <1>7 DEF Finalize, OutcomeInv, CloudInHand
<1>8. ASSUME NEW a \in Actors, Emit(a) PROVE RO!Next
  BY <1>8 DEF Emit, Return, WriteEvent, CanWrite, Terminal
<1>9. ASSUME NEW a \in Actors, EmitFails(a) PROVE RO!Next
  BY <1>9 DEF EmitFails, Return
<1>10. ASSUME NEW a \in Actors, Look(a) PROVE RO!Next
  BY <1>10 DEF Look
<1>11. ASSUME NEW a \in Actors, Enqueue(a) PROVE RO!Next
  BY <1>11 DEF Enqueue, Looked
<1>12. ASSUME NEW a \in Actors, EnqueueFails(a) PROVE RO!Next
  BY <1>12 DEF EnqueueFails, Looked
<1>13. ASSUME NEW a \in Actors, Mark(a) PROVE RO!Next
  BY <1>13 DEF Mark, Return
<1>14. ASSUME NEW a \in Actors, Park(a) PROVE RO!Next
  BY <1>14 DEF Park, Return
<1>15. CASE PickStuck
  BY <1>15 DEF PickStuck, GoThrough
<1>16. CASE Reclaim
  BY <1>16 DEF Reclaim, Reclaimable, ReclaimedAs
<1>17. CASE PickMissing
  BY <1>17 DEF PickMissing, GoThrough
<1>18. CASE PickPending
  BY <1>18 DEF PickPending, GoThrough
<1>19. ASSUME NEW j \in Jobs, NextEmit(j) PROVE RO!Next
  BY <1>19 DEF NextEmit
<1>20. CASE NextSend
  BY <1>20 DEF NextSend
<1>21. ASSUME NEW j \in Jobs, PassEnds(j) PROVE RO!Next
  BY <1>21 DEF PassEnds
<1>22. ASSUME NEW w \in Runners, Crash(w) PROVE RO!Next
  BY <1>22 DEF Crash
<1>23. ASSUME NEW r \in Runs, Age(r) PROVE RO!Next
  BY <1>23 DEF Age
<1>24. CASE UNCHANGED vars
  BY <1>24 DEF vars
<1> QED
  BY <1>1, <1>2, <1>3, <1>4, <1>5, <1>6, <1>7, <1>8, <1>9, <1>10, <1>11, <1>12,
     <1>13, <1>14, <1>15, <1>16, <1>17, <1>18, <1>19, <1>20, <1>21, <1>22, <1>23, <1>24
  DEF Next, Work, Dispatch, ReclaimerStep, SweepStep, Actors, Jobs

(* The flow service implements RunOnce: a run is queued or started once,   *)
(* ends once whoever ends it, and one outcome is told of it, the right one.*)
THEOREM ImplementsRunOnce == OnTime /\ Spec => RunsOnce
<1> SUFFICES ASSUME OnTime PROVE Spec => RunsOnce
  OBVIOUS
<1>1. Init => RO!Init
  BY DEF Init, RO!Init
<1>2. TypeOK /\ BusyWithRuns /\ OutcomeInv /\ [Next]_vars => [RO!Next]_(RO!vars)
  BY EachLives
<1>3. TypeOK /\ BegunOnce /\ BusyWithRuns /\ OutcomeInv /\ [Next]_vars => OutcomeInv'
  BY TellsStep, InHandStep DEF OutcomeInv
<1> QED
  BY <1>1, <1>2, <1>3, OutcomeInit, BusyInit, BusyStep, BegunInit, BegunStep, TypeCorrect, PTL
  DEF Spec, RunsOnce, RO!Spec

-----------------------------------------------------------------------------
(* Dispatched is handled                                                   *)

(* A row of flow_run_logs stays, and so does the outcome an event names.   *)
Stays ==
  /\ kind' = kind
  /\ \A r \in Runs : status[r] # "none" => status'[r] # "none"
  /\ \A r \in Runs : event[r] \in Outcomes => event'[r] = event[r]

LEMMA RowsStay ==
  ASSUME TypeOK, BusyWithRuns, [Next]_vars
  PROVE  Stays
<1> USE DEF TypeOK, Stays, Outcomes, rowVars, eventVars
<1>1. ASSUME NEW s \in Sources, EnqueueSource(s) PROVE Stays
  BY <1>1, SourceIsRun DEF EnqueueSource
<1>2. ASSUME NEW s \in Sources, NEW w \in Runners, Refuse(w, s) PROVE Stays
  BY <1>2, SourceIsRun DEF Refuse
<1>3. ASSUME NEW s \in Sources, NEW w \in Runners, Reserve(w, s) PROVE Stays
  BY <1>3, SourceIsRun DEF Reserve, Begin
<1>4. ASSUME NEW w \in Runners, NEW r \in Runs, Claim(w, r) PROVE Stays
  BY <1>4 DEF Claim, Begin
<1>5. ASSUME NEW w \in Runners, Complete(w) PROVE Stays
  BY <1>5 DEF Complete, Return, WriteEvent, CanWrite
<1>6. ASSUME NEW w \in Runners, CompleteFails(w) PROVE Stays
  BY <1>6 DEF CompleteFails, Return
<1>7. ASSUME NEW w \in Runners, Finalize(w) PROVE Stays
  BY <1>7 DEF Finalize
<1>8. ASSUME NEW a \in Actors, Emit(a) PROVE Stays
  BY <1>8 DEF Emit, Return, WriteEvent, CanWrite, Terminal
<1>9. ASSUME NEW a \in Actors, EmitFails(a) PROVE Stays
  BY <1>9 DEF EmitFails, Return
<1>10. ASSUME NEW a \in Actors, Look(a) PROVE Stays
  BY <1>10 DEF Look
<1>11. ASSUME NEW a \in Actors, Enqueue(a) PROVE Stays
  BY <1>11 DEF Enqueue, Looked
<1>12. ASSUME NEW a \in Actors, EnqueueFails(a) PROVE Stays
  BY <1>12 DEF EnqueueFails, Looked
<1>13. ASSUME NEW a \in Actors, Mark(a) PROVE Stays
  BY <1>13 DEF Mark, Return
<1>14. ASSUME NEW a \in Actors, Park(a) PROVE Stays
  BY <1>14 DEF Park, Return
<1>15. CASE PickStuck
  BY <1>15 DEF PickStuck, GoThrough
<1>16. CASE Reclaim
  BY <1>16 DEF Reclaim, ReclaimedAs
<1>17. CASE PickMissing
  BY <1>17 DEF PickMissing, GoThrough
<1>18. CASE PickPending
  BY <1>18 DEF PickPending, GoThrough
<1>19. ASSUME NEW j \in Jobs, NextEmit(j) PROVE Stays
  BY <1>19 DEF NextEmit
<1>20. CASE NextSend
  BY <1>20 DEF NextSend
<1>21. ASSUME NEW j \in Jobs, PassEnds(j) PROVE Stays
  BY <1>21 DEF PassEnds
<1>22. ASSUME NEW w \in Runners, Crash(w) PROVE Stays
  BY <1>22 DEF Crash
<1>23. ASSUME NEW r \in Runs, Age(r) PROVE Stays
  BY <1>23 DEF Age
<1>24. CASE UNCHANGED vars
  BY <1>24 DEF vars
<1> QED
  BY <1>1, <1>2, <1>3, <1>4, <1>5, <1>6, <1>7, <1>8, <1>9, <1>10, <1>11, <1>12,
     <1>13, <1>14, <1>15, <1>16, <1>17, <1>18, <1>19, <1>20, <1>21, <1>22, <1>23, <1>24
  DEF Next, Work, Dispatch, ReclaimerStep, SweepStep, Actors, Jobs

(* What has a dispatch status has an outcome, and nobody dispatches another*)
(* event than such.                                                        *)
EventsKnown ==
  /\ \A a \in Actors :
       at[a] \in {"dispatch", "enqueue", "park"} => event[run[a]] \in Outcomes
  /\ \A r \in Runs : dispatch[r] # "none" => event[r] \in Outcomes
  /\ at["sweep"] = "sends" => loop["sweep"] = "sends"
  /\ loop["sweep"] = "sends" => \A r \in picked["sweep"] : event[r] \in Outcomes

LEMMA EventsInit == Init => EventsKnown
  BY DEF Init, EventsKnown, Actors, Jobs

LEMMA EventsStep ==
  ASSUME TypeOK, BusyWithRuns, EventsKnown, [Next]_vars
  PROVE  EventsKnown'
<1>a. /\ "reclaimer" \in Actors /\ "sweep" \in Actors
      /\ Runners \subseteq Actors /\ Jobs \subseteq Actors
      /\ \A w \in Runners : w # "sweep" /\ w # "reclaimer"
  BY RunnersAssumption DEF Actors, Jobs
<1>k. /\ Stays
      /\ \A a \in Actors : at[a] \in Busy => run[a] \in Runs
  BY RowsStay DEF BusyWithRuns
<1> USE <1>a DEF TypeOK, EventsKnown, Outcomes, Busy, Stays, rowVars, eventVars, workVars, jobVars
<1>1. ASSUME NEW s \in Sources, EnqueueSource(s) PROVE EventsKnown'
  BY <1>1, <1>k DEF EnqueueSource
<1>2. ASSUME NEW s \in Sources, NEW w \in Runners, Refuse(w, s) PROVE EventsKnown'
  BY <1>2, <1>k DEF Refuse
<1>3. ASSUME NEW s \in Sources, NEW w \in Runners, Reserve(w, s) PROVE EventsKnown'
  BY <1>3, <1>k DEF Reserve, Begin
<1>4. ASSUME NEW w \in Runners, NEW r \in Runs, Claim(w, r) PROVE EventsKnown'
  BY <1>4, <1>k DEF Claim, Begin
<1>5. ASSUME NEW w \in Runners, Complete(w) PROVE EventsKnown'
  BY <1>5, <1>k DEF Complete, Return, WriteEvent, CanWrite
<1>6. ASSUME NEW w \in Runners, CompleteFails(w) PROVE EventsKnown'
  BY <1>6, <1>k DEF CompleteFails, Return
<1>7. ASSUME NEW w \in Runners, Finalize(w) PROVE EventsKnown'
  BY <1>7, <1>k DEF Finalize
<1>8. ASSUME NEW a \in Actors, Emit(a) PROVE EventsKnown'
  BY <1>8, <1>k DEF Emit, Return, WriteEvent, CanWrite, Terminal
<1>9. ASSUME NEW a \in Actors, EmitFails(a) PROVE EventsKnown'
  BY <1>9, <1>k DEF EmitFails, Return
<1>10. ASSUME NEW a \in Actors, Look(a) PROVE EventsKnown'
  BY <1>10, <1>k DEF Look
<1>11. ASSUME NEW a \in Actors, Enqueue(a) PROVE EventsKnown'
  BY <1>11, <1>k DEF Enqueue, Looked
<1>12. ASSUME NEW a \in Actors, EnqueueFails(a) PROVE EventsKnown'
  BY <1>12, <1>k DEF EnqueueFails, Looked
<1>13. ASSUME NEW a \in Actors, Mark(a) PROVE EventsKnown'
  BY <1>13, <1>k DEF Mark, Return
<1>14. ASSUME NEW a \in Actors, Park(a) PROVE EventsKnown'
  BY <1>14, <1>k DEF Park, Return
<1>15. CASE PickStuck
  BY <1>15, <1>k DEF PickStuck, GoThrough
<1>16. CASE Reclaim
  BY <1>16, <1>k DEF Reclaim, ReclaimedAs
<1>17. CASE PickMissing
  BY <1>17, <1>k DEF PickMissing, GoThrough
<1>18. CASE PickPending
  BY <1>18, <1>k DEF PickPending, GoThrough
<1>19. ASSUME NEW j \in Jobs, NextEmit(j) PROVE EventsKnown'
  BY <1>19, <1>k DEF NextEmit
<1>20. CASE NextSend
  BY <1>20, <1>k DEF NextSend
<1>21. ASSUME NEW j \in Jobs, PassEnds(j) PROVE EventsKnown'
  BY <1>21, <1>k DEF PassEnds
<1>22. ASSUME NEW w \in Runners, Crash(w) PROVE EventsKnown'
  BY <1>22, <1>k DEF Crash
<1>23. ASSUME NEW r \in Runs, Age(r) PROVE EventsKnown'
  BY <1>23, <1>k DEF Age
<1>24. CASE UNCHANGED vars
  BY <1>24, <1>k DEF vars
<1> QED
  BY <1>1, <1>2, <1>3, <1>4, <1>5, <1>6, <1>7, <1>8, <1>9, <1>10, <1>11, <1>12,
     <1>13, <1>14, <1>15, <1>16, <1>17, <1>18, <1>19, <1>20, <1>21, <1>22, <1>23, <1>24
  DEF Next, Work, Dispatch, ReclaimerStep, SweepStep, Actors, Jobs

(* A dispatcher has been through the subscribers it has not before it: they*)
(* have their handlers, unless enqueueing one failed.                      *)
Sending == {"dispatch", "enqueue"}
Handled(r, b) == AtCeiling(r) \/ Seen(r, b)
WentThrough(a) ==
  at[a] \in Sending =>
    /\ at[a] = "enqueue" => chosen[a] \in Bindings
    /\ broke[a] \/ \A b \in Subscribers(run[a], event[run[a]]) :
         b \in todo[a] \/ (at[a] = "enqueue" /\ b = chosen[a]) \/ Handled(run[a], b)

HandledInv ==
  /\ \A a \in Actors : WentThrough(a)
  /\ DispatchedIsHandled

LEMMA HandledInit == Init => HandledInv
  BY DEF Init, HandledInv, WentThrough, Sending, DispatchedIsHandled

LEMMA HandledStays ==
  ASSUME Stays, NEW r \in Runs, NEW b \in Bindings, Handled(r, b)
  PROVE  Handled(r, b)'
  BY DEF Stays, Handled, Seen, AtCeiling, IsHandlerOf

(* Enqueueing gives the chosen subscriber its handler.                     *)
LEMMA EnqueueHandles ==
  ASSUME TypeOK, BusyWithRuns, [Next]_vars, NEW a \in Actors, Enqueue(a),
         NEW r, r = run[a], NEW b \in Bindings, b = chosen[a]
  PROVE  Handled(r, b)'
<1> DEFINE h == Handler(r, b)
<1>1. r \in Runs
  BY DEF BusyWithRuns, Busy, Enqueue
<1>2. CASE AtCeiling(r)
  BY <1>2 DEF Enqueue, Looked, AtCeiling, Handled
<1>3. CASE ~AtCeiling(r)
  <2>1. Len(r[2]) < MaxDepth
    <3>1. PICK n \in 0 .. MaxDepth : r[2] \in [1 .. n -> Bindings]
      BY <1>1 DEF Runs, Paths
    <3>2. Len(r[2]) = n /\ n \in Nat /\ MaxDepth \in Nat
      BY <3>1, RunsAssumption
    <3> QED BY <1>3, <3>2 DEF AtCeiling
  <2>2. h \in Runs /\ h # r /\ h[1] = r[1] /\ IsHandlerOf(b, h)
    BY <1>1, <2>1, HandlerIsRun
  <2>3. status'[h] # "none"
    BY <1>3, <2>2 DEF Enqueue, TypeOK
  <2> HIDE DEF h
  <2> QED BY <2>2, <2>3 DEF Handled, Seen, IsHandlerOf
<1> QED BY <1>2, <1>3

(* Who does not move on has been through what it had been through.         *)
LEMMA OthersWentThrough ==
  ASSUME TypeOK, BusyWithRuns, EventsKnown, HandledInv, Stays, NEW a \in Actors,
         at'[a] = at[a], run'[a] = run[a], todo'[a] = todo[a],
         chosen'[a] = chosen[a], broke'[a] = broke[a]
  PROVE  WentThrough(a)'
<1> SUFFICES ASSUME at[a] \in Sending PROVE WentThrough(a)'
  BY DEF WentThrough
<1>1. run[a] \in Runs /\ event[run[a]] \in Outcomes /\ event'[run[a]] = event[run[a]]
  BY DEF BusyWithRuns, Busy, Sending, EventsKnown, Stays
<1>2. PICK r \in Runs : r = run[a] /\ r = run'[a]
  BY <1>1
<1>3. \A b \in Bindings : Handled(r, b) => Handled(r, b)'
  BY HandledStays
<1>4. ASSUME NEW b \in Bindings, Handled(run[a], b) PROVE Handled(run[a], b)'
  <2>1. Handled(r, b)
    BY <1>2, <1>4
  <2>2. Handled(r, b)'
    BY <1>3, <2>1
  <2> QED BY <1>2, <2>2 DEF Handled, AtCeiling, Seen
<1>6. Subscribers(run[a], event[run[a]])' = Subscribers(run[a], event[run[a]])
  BY <1>1 DEF Subscribers, IsHandlerOf
<1>7. /\ at[a] = "enqueue" => chosen[a] \in Bindings
      /\ broke[a] \/ \A b \in Subscribers(run[a], event[run[a]]) :
           b \in todo[a] \/ (at[a] = "enqueue" /\ b = chosen[a]) \/ Handled(run[a], b)
  BY DEF HandledInv, WentThrough
<1>8. broke'[a] \/ \A b \in Subscribers(run[a], event[run[a]])' :
        b \in todo'[a] \/ (at'[a] = "enqueue" /\ b = chosen'[a]) \/ Handled(run[a], b)'
  BY <1>4, <1>6, <1>7 DEF Subscribers
<1> QED
  BY <1>7, <1>8 DEF WentThrough

LEMMA WentThroughStep ==
  ASSUME TypeOK, BusyWithRuns, EventsKnown, HandledInv, [Next]_vars
  PROVE  \A a \in Actors : WentThrough(a)'
<1>a. /\ "reclaimer" \in Actors /\ "sweep" \in Actors
      /\ Runners \subseteq Actors /\ Jobs \subseteq Actors
      /\ \A w \in Runners : w # "sweep" /\ w # "reclaimer"
  BY RunnersAssumption DEF Actors, Jobs
<1>b. \A a \in Actors : at[a] \in Busy => run[a] \in Runs
  BY DEF BusyWithRuns
<1>s. Stays
  BY RowsStay
<1>k. ASSUME \A a \in Actors :
               \/ at'[a] \notin Sending
               \/ /\ at'[a] = at[a] /\ run'[a] = run[a] /\ todo'[a] = todo[a]
                  /\ chosen'[a] = chosen[a] /\ broke'[a] = broke[a]
               \/ WentThrough(a)'
      PROVE  \A a \in Actors : WentThrough(a)'
  <2> SUFFICES ASSUME NEW a \in Actors PROVE WentThrough(a)'
    OBVIOUS
  <2>1. CASE at'[a] \notin Sending
    BY <2>1 DEF WentThrough
  <2> QED BY <1>k, <1>s, <2>1, OthersWentThrough
<1> USE <1>a DEF TypeOK, Busy, Steps, rowVars, eventVars, workVars, jobVars
<1>1. ASSUME NEW s \in Sources, EnqueueSource(s) PROVE \A x \in Actors : WentThrough(x)'
  BY <1>1, <1>k, SourceIsRun DEF EnqueueSource, Sending
<1>2. ASSUME NEW s \in Sources, NEW w \in Runners, Refuse(w, s) PROVE \A x \in Actors : WentThrough(x)'
  BY <1>2, <1>k, SourceIsRun DEF Refuse, Sending
<1>3. ASSUME NEW s \in Sources, NEW w \in Runners, Reserve(w, s) PROVE \A x \in Actors : WentThrough(x)'
  BY <1>3, <1>k, SourceIsRun DEF Reserve, Begin, Sending
<1>4. ASSUME NEW w \in Runners, NEW r \in Runs, Claim(w, r) PROVE \A x \in Actors : WentThrough(x)'
  BY <1>4, <1>k DEF Claim, Begin, Sending
<1>5. ASSUME NEW w \in Runners, Complete(w) PROVE \A x \in Actors : WentThrough(x)'
  <2>1. ASSUME at'[w] \in Sending PROVE WentThrough(w)'
    <3>1. /\ at'[w] = "dispatch" /\ run'[w] = run[w]
          /\ todo'[w] = Subscribers(run[w], event'[run[w]])
      BY <1>5, <2>1, <1>b DEF Complete, Return, WriteEvent, CanWrite, Sending
    <3> QED BY <3>1 DEF WentThrough, Subscribers, IsHandlerOf
  <2> QED BY <1>5, <1>k, <2>1 DEF Complete, Return, WriteEvent, CanWrite, Sending
<1>6. ASSUME NEW w \in Runners, CompleteFails(w) PROVE \A x \in Actors : WentThrough(x)'
  BY <1>6, <1>k DEF CompleteFails, Return, Sending
<1>7. ASSUME NEW w \in Runners, Finalize(w) PROVE \A x \in Actors : WentThrough(x)'
  BY <1>7, <1>k DEF Finalize, Sending
<1>8. ASSUME NEW a \in Actors, Emit(a) PROVE \A x \in Actors : WentThrough(x)'
  <2>1. ASSUME at'[a] \in Sending PROVE WentThrough(a)'
    <3>1. /\ at'[a] = "dispatch" /\ run'[a] = run[a]
          /\ todo'[a] = Subscribers(run[a], event'[run[a]])
      BY <1>8, <2>1, <1>b DEF Emit, Return, WriteEvent, CanWrite, Terminal, Sending
    <3> QED BY <3>1 DEF WentThrough, Subscribers, IsHandlerOf
  <2> QED BY <1>8, <1>k, <2>1 DEF Emit, Return, WriteEvent, CanWrite, Terminal, Sending
<1>9. ASSUME NEW a \in Actors, EmitFails(a) PROVE \A x \in Actors : WentThrough(x)'
  BY <1>9, <1>k DEF EmitFails, Return, Sending
<1>10. ASSUME NEW a \in Actors, Look(a) PROVE \A x \in Actors : WentThrough(x)'
  <2>1. PICK b \in todo[a] :
          /\ todo' = [todo EXCEPT ![a] = @ \ {b}]
          /\ IF Seen(run[a], b)
             THEN UNCHANGED <<at, chosen>>
             ELSE /\ at' = [at EXCEPT ![a] = "enqueue"]
                  /\ chosen' = [chosen EXCEPT ![a] = b]
    BY <1>10 DEF Look
  <2>2. /\ at[a] = "dispatch" /\ event' = event /\ run' = run /\ broke' = broke
        /\ status' = status /\ kind' = kind
    BY <1>10 DEF Look
  <2>3. \A r, c : Handled(r, c)' <=> Handled(r, c)
    BY <2>2 DEF Handled, AtCeiling, Seen, IsHandlerOf
  <2>4. \/ broke[a]
        \/ \A c \in Subscribers(run[a], event[run[a]]) :
             c \in todo[a] \/ Handled(run[a], c)
    BY <2>2 DEF HandledInv, WentThrough, Sending
  <2>5. at'[a] = "enqueue" => chosen'[a] \in Bindings
    BY <2>1, <2>2
  <2>6. \/ broke'[a]
        \/ \A c \in Subscribers(run[a], event[run[a]]) :
             c \in todo'[a] \/ (at'[a] = "enqueue" /\ c = chosen'[a]) \/ Handled(run[a], c)
    BY <2>1, <2>2, <2>4 DEF Handled, Subscribers
  <2>7. WentThrough(a)'
    BY <2>2, <2>3, <2>5, <2>6 DEF WentThrough, Subscribers, IsHandlerOf, Handled, AtCeiling, Seen
  <2> QED BY <1>10, <1>k, <2>7 DEF Look
<1>11. ASSUME NEW a \in Actors, Enqueue(a) PROVE \A x \in Actors : WentThrough(x)'
  <2>1. /\ at[a] = "enqueue" /\ at' = [at EXCEPT ![a] = "dispatch"]
        /\ chosen' = [chosen EXCEPT ![a] = None] /\ event' = event
        /\ run' = run /\ broke' = broke /\ todo' = todo
    BY <1>11 DEF Enqueue, Looked
  <2>2. PICK r \in Runs : r = run[a]
    BY <1>b, <2>1 DEF Busy
  <2>3. PICK b \in Bindings : b = chosen[a]
    BY <2>1 DEF HandledInv, WentThrough, Sending
  <2>4. Handled(r, b)'
    BY <1>11, <2>2, <2>3, EnqueueHandles
  <2>5. \A c \in Bindings : Handled(r, c) => Handled(r, c)'
    BY <1>s, HandledStays
  <2>6. \/ broke[a]
        \/ \A c \in Subscribers(r, event[r]) : c \in todo[a] \/ c = b \/ Handled(r, c)
    BY <2>1, <2>2, <2>3 DEF HandledInv, WentThrough, Sending
  <2>7. \/ broke[a]
        \/ \A c \in Subscribers(r, event[r]) : c \in todo[a] \/ Handled(r, c)'
    BY <2>4, <2>5, <2>6 DEF Subscribers
  <2>8. WentThrough(a)'
    BY <2>1, <2>2, <2>7 DEF WentThrough, Subscribers, IsHandlerOf, Handled, AtCeiling, Seen
  <2> QED BY <1>11, <1>k, <2>8 DEF Enqueue, Looked
<1>12. ASSUME NEW a \in Actors, EnqueueFails(a) PROVE \A x \in Actors : WentThrough(x)'
  <2>1. WentThrough(a)'
    BY <1>12 DEF EnqueueFails, Looked, WentThrough
  <2> QED BY <1>12, <1>k, <2>1 DEF EnqueueFails, Looked
<1>13. ASSUME NEW a \in Actors, Mark(a) PROVE \A x \in Actors : WentThrough(x)'
  <2>1. at' \in [Actors -> Steps] /\ at' = [at EXCEPT ![a] = at'[a]]
    BY <1>13 DEF Mark, Return
  <2>2. at'[a] \notin Sending
    BY <1>13 DEF Mark, Return, Sending
  <2>3. /\ todo' = todo /\ chosen' = chosen /\ run' = [run EXCEPT ![a] = run'[a]]
        /\ broke' = [broke EXCEPT ![a] = FALSE]
    BY <1>13 DEF Mark, Return
  <2> QED BY <1>k, <2>1, <2>2, <2>3
<1>14. ASSUME NEW a \in Actors, Park(a) PROVE \A x \in Actors : WentThrough(x)'
  BY <1>14, <1>k DEF Park, Return, Sending
<1>15. CASE PickStuck
  BY <1>15, <1>k DEF PickStuck, GoThrough, Sending
<1>16. CASE Reclaim
  BY <1>16, <1>k DEF Reclaim, ReclaimedAs, Sending
<1>17. CASE PickMissing
  BY <1>17, <1>k DEF PickMissing, GoThrough, Sending
<1>18. CASE PickPending
  BY <1>18, <1>k DEF PickPending, GoThrough, Sending
<1>19. ASSUME NEW j \in Jobs, NextEmit(j) PROVE \A x \in Actors : WentThrough(x)'
  BY <1>19, <1>k DEF NextEmit, Sending
<1>20. CASE NextSend
  <2>1. WentThrough("sweep")'
    <3>1. /\ at'["sweep"] = "dispatch" /\ event' = event
          /\ todo'["sweep"] = Subscribers(run'["sweep"], event[run'["sweep"]])
      BY <1>20 DEF NextSend
    <3> QED BY <3>1 DEF WentThrough, Subscribers, IsHandlerOf
  <2> QED BY <1>20, <1>k, <2>1 DEF NextSend
<1>21. ASSUME NEW j \in Jobs, PassEnds(j) PROVE \A x \in Actors : WentThrough(x)'
  BY <1>21, <1>k DEF PassEnds, Sending
<1>22. ASSUME NEW w \in Runners, Crash(w) PROVE \A x \in Actors : WentThrough(x)'
  BY <1>22, <1>k DEF Crash, Sending
<1>23. ASSUME NEW r \in Runs, Age(r) PROVE \A x \in Actors : WentThrough(x)'
  BY <1>23, <1>k DEF Age, Sending
<1>24. CASE UNCHANGED vars
  BY <1>24, <1>k DEF vars
<1> QED
  BY <1>1, <1>2, <1>3, <1>4, <1>5, <1>6, <1>7, <1>8, <1>9, <1>10, <1>11, <1>12,
     <1>13, <1>14, <1>15, <1>16, <1>17, <1>18, <1>19, <1>20, <1>21, <1>22, <1>23, <1>24
  DEF Next, Work, Dispatch, ReclaimerStep, SweepStep, Actors, Jobs

LEMMA DispatchedStep ==
  ASSUME TypeOK, BusyWithRuns, EventsKnown, HandledInv, [Next]_vars
  PROVE  DispatchedIsHandled'
<1>s. Stays
  BY RowsStay
<1>k. ASSUME \A r \in Runs :
               \/ dispatch'[r] = "done" => dispatch[r] = "done"
               \/ /\ event' = event
                  /\ \/ AtCeiling(r)
                     \/ \A b \in Subscribers(r, event[r]) : Seen(r, b)
      PROVE  DispatchedIsHandled'
  <2> SUFFICES ASSUME NEW r \in Runs, dispatch'[r] = "done",
                      NEW b \in Subscribers(r, event[r])'
               PROVE  Handled(r, b)'
    BY DEF DispatchedIsHandled, Handled, AtCeiling
  <2>1. event'[r] = event[r]
    BY <1>k, <1>s DEF EventsKnown, Stays
  <2>2. b \in Bindings /\ b \in Subscribers(r, event[r])
    BY <2>1 DEF Subscribers, IsHandlerOf
  <2>3. Handled(r, b)
    BY <1>k, <2>2 DEF HandledInv, DispatchedIsHandled, Handled
  <2> QED BY <1>s, <2>2, <2>3, HandledStays
<1> USE DEF TypeOK, rowVars, eventVars, workVars, jobVars
<1>1. ASSUME NEW s \in Sources, EnqueueSource(s) PROVE DispatchedIsHandled'
  BY <1>1, <1>k, SourceIsRun DEF EnqueueSource
<1>2. ASSUME NEW s \in Sources, NEW w \in Runners, Refuse(w, s) PROVE DispatchedIsHandled'
  BY <1>2, <1>k, SourceIsRun DEF Refuse
<1>3. ASSUME NEW s \in Sources, NEW w \in Runners, Reserve(w, s) PROVE DispatchedIsHandled'
  BY <1>3, <1>k, SourceIsRun DEF Reserve, Begin
<1>4. ASSUME NEW w \in Runners, NEW r \in Runs, Claim(w, r) PROVE DispatchedIsHandled'
  BY <1>4, <1>k DEF Claim, Begin
<1>5. ASSUME NEW w \in Runners, Complete(w) PROVE DispatchedIsHandled'
  BY <1>5, <1>k DEF Complete, Return, WriteEvent, CanWrite
<1>6. ASSUME NEW w \in Runners, CompleteFails(w) PROVE DispatchedIsHandled'
  BY <1>6, <1>k DEF CompleteFails, Return
<1>7. ASSUME NEW w \in Runners, Finalize(w) PROVE DispatchedIsHandled'
  BY <1>7, <1>k DEF Finalize
<1>8. ASSUME NEW a \in Actors, Emit(a) PROVE DispatchedIsHandled'
  BY <1>8, <1>k DEF Emit, Return, WriteEvent, CanWrite, Terminal
<1>9. ASSUME NEW a \in Actors, EmitFails(a) PROVE DispatchedIsHandled'
  BY <1>9, <1>k DEF EmitFails, Return
<1>10. ASSUME NEW a \in Actors, Look(a) PROVE DispatchedIsHandled'
  BY <1>10, <1>k DEF Look
<1>11. ASSUME NEW a \in Actors, Enqueue(a) PROVE DispatchedIsHandled'
  BY <1>11, <1>k DEF Enqueue, Looked
<1>12. ASSUME NEW a \in Actors, EnqueueFails(a) PROVE DispatchedIsHandled'
  BY <1>12, <1>k DEF EnqueueFails, Looked
<1>13. ASSUME NEW a \in Actors, Mark(a) PROVE DispatchedIsHandled'
  <2>1. PICK r \in Runs : r = run[a]
    BY <1>13 DEF Mark, BusyWithRuns, Busy
  <2>2. CASE broke[a]
    <3>1. dispatch' = [dispatch EXCEPT ![r] = "pending"]
      BY <1>13, <2>1, <2>2 DEF Mark, MarkOf
    <3> QED BY <1>k, <3>1
  <2>3. CASE ~broke[a]
    <3>1. dispatch' = [dispatch EXCEPT ![r] = "done"]
      BY <1>13, <2>1, <2>3 DEF Mark, MarkOf
    <3>2. at[a] = "dispatch" /\ todo[a] = {} /\ event' = event
      BY <1>13 DEF Mark
    <3>3. \A b \in Subscribers(r, event[r]) : Handled(r, b)
      BY <2>1, <2>3, <3>2 DEF HandledInv, WentThrough, Sending
    <3>4. AtCeiling(r) \/ \A b \in Subscribers(r, event[r]) : Seen(r, b)
      BY <3>3 DEF Handled
    <3>5. \A q \in Runs : q # r => dispatch'[q] = dispatch[q]
      BY <3>1
    <3> QED BY <1>k, <3>2, <3>4, <3>5
  <2> QED BY <2>2, <2>3
<1>14. ASSUME NEW a \in Actors, Park(a) PROVE DispatchedIsHandled'
  BY <1>14, <1>k DEF Park, Return
<1>15. CASE PickStuck
  BY <1>15, <1>k DEF PickStuck, GoThrough
<1>16. CASE Reclaim
  BY <1>16, <1>k DEF Reclaim, ReclaimedAs
<1>17. CASE PickMissing
  BY <1>17, <1>k DEF PickMissing, GoThrough
<1>18. CASE PickPending
  BY <1>18, <1>k DEF PickPending, GoThrough
<1>19. ASSUME NEW j \in Jobs, NextEmit(j) PROVE DispatchedIsHandled'
  BY <1>19, <1>k DEF NextEmit
<1>20. CASE NextSend
  BY <1>20, <1>k DEF NextSend
<1>21. ASSUME NEW j \in Jobs, PassEnds(j) PROVE DispatchedIsHandled'
  BY <1>21, <1>k DEF PassEnds
<1>22. ASSUME NEW w \in Runners, Crash(w) PROVE DispatchedIsHandled'
  BY <1>22, <1>k DEF Crash
<1>23. ASSUME NEW r \in Runs, Age(r) PROVE DispatchedIsHandled'
  BY <1>23, <1>k DEF Age
<1>24. CASE UNCHANGED vars
  BY <1>24, <1>k DEF vars
<1> QED
  BY <1>1, <1>2, <1>3, <1>4, <1>5, <1>6, <1>7, <1>8, <1>9, <1>10, <1>11, <1>12,
     <1>13, <1>14, <1>15, <1>16, <1>17, <1>18, <1>19, <1>20, <1>21, <1>22, <1>23, <1>24
  DEF Next, Work, Dispatch, ReclaimerStep, SweepStep, Actors, Jobs

(* An event that counts as dispatched has reached every subscriber, however*)
(* many dispatchers share the work, fail at it or die over it.             *)
THEOREM DispatchedIsHandledHolds == Spec => []DispatchedIsHandled
<1>1. HandledInv => DispatchedIsHandled
  BY DEF HandledInv
<1>2. TypeOK /\ BusyWithRuns /\ EventsKnown /\ [Next]_vars => EventsKnown'
  BY EventsStep
<1>3. TypeOK /\ BusyWithRuns /\ EventsKnown /\ HandledInv /\ [Next]_vars => HandledInv'
  BY WentThroughStep, DispatchedStep DEF HandledInv
<1> QED
  BY <1>1, <1>2, <1>3, HandledInit, EventsInit, BusyInit, BusyStep, TypeCorrect, PTL DEF Spec

=============================================================================
