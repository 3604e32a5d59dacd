------------------------ MODULE SubmissionOnceProofs ------------------------
(***************************************************************************)
(* Theorems about the routes of SubmissionLedger that fail closed (the     *)
(* external API and the app runtime): of the copies of a submission one    *)
(* runs its pipeline at a time, one is stored, one acts, and the ledger    *)
(* implements SubmitOnce.  Each needs that some hazards stay away, and     *)
(* each theorem names the fewest: TLC refutes it with any one of them.     *)
(*                                                                         *)
(* A request in its pipeline holds its key's row, pending and young        *)
(* (WorkInv), and a request that had an effect holds it for good           *)
(* (ClosedInv): with no row of such a request ever abandoned or expired, a *)
(* second one finds the key taken.                                         *)
(***************************************************************************)
EXTENDS SubmissionLedgerProofs

(* Every request is done or dead when its row grows stale.                 *)
OnTime == "slow" \notin Hazards

(* What the ledger writes is written and stays: its statements succeed,    *)
(* and the retention job takes no row that a copy may still ask for.       *)
RowsStand == Hazards \cap {"slow", "ledger", "expiry"} = {}

(* Nothing reports a stored response as refused.                           *)
TellsStored == "links" \notin Hazards

(* Nothing reports a script that acted as refused.                         *)
TellsActed == Hazards \cap {"links", "enabling"} = {}

(* Every copy comes by a route that fails closed.                          *)
ClosedRoutes == \A r \in Requests : sub[r].route \in FailsClosed

Working(r) == pc[r] \in {"script", "store", "settle"}
Holds(r) == ledger[Key(r)] # None /\ ledger[Key(r)].lease = r
Pending(r) == ledger[Key(r)].status = "pending"

-----------------------------------------------------------------------------
(* Who works through a submission, when requests are on time.              *)

(* A request in its pipeline owns its key's row.                           *)
WorkerHolds(r) ==
  Working(r) => r \in owns /\ Holds(r) /\ Pending(r) /\ ledger[Key(r)].age = "young"

(* Only "created" and "replayed" name a response.                          *)
NamesNothingElse(r) ==
  /\ reply[r].kind \notin {"created", "replayed"} => reply[r].id = None
  /\ pc[r] \in Steps => reply[r] = NoReply

WorkPart(r) == WorkerHolds(r) /\ NamesNothingElse(r)

WorkInv == LedgerInv /\ ClosedRoutes /\ \A r \in Requests : WorkPart(r)

(* The invariant holds before the first request reserves anything.         *)
LEMMA WorkInit == Init /\ ClosedRoutes => WorkInv
<1> SUFFICES ASSUME Init, ClosedRoutes PROVE WorkInv
  OBVIOUS
<1>1. LedgerInv
  BY LedgerInit
<1>2. \A r \in Requests : WorkPart(r)
  BY DEF Init, WorkPart, WorkerHolds, NamesNothingElse, Working, NoReply, Steps
<1> QED BY <1>1, <1>2 DEF WorkInv

(* What a step of r may do to a row: nothing, unless there is none, it is  *)
(* abandoned, or it is r's own.                                            *)
Respects(r, k) ==
  \/ ledger'[k] = ledger[k]
  \/ ledger[k] = None
  \/ Abandoned(ledger[k])
  \/ ledger[k] # None /\ ledger[k].lease = r

(* Everything a step of r may change of the requests.                      *)
StepOf(r) ==
  /\ UNCHANGED sub
  /\ \E v : pc' = [pc EXCEPT ![r] = v]
  /\ reply' = reply \/ \E v : reply' = [reply EXCEPT ![r] = v]
  /\ outcome' = outcome \/ \E v : outcome' = [outcome EXCEPT ![r] = v]
  /\ owns \subseteq owns'
  /\ \A q \in Requests : q # r => (q \in acted' <=> q \in acted)
  /\ \A q \in Requests : q # r => (q \in Accepted' <=> q \in Accepted)

RequestStep(r) == Work(r) \/ LedgerFailure(r) \/ Resend(r) \/ Crash(r)

(* Whatever a request does, and whatever fails for it, it respects the     *)
(* rows of the others.                                                     *)
LEMMA StepsRespectRows ==
  ASSUME LedgerInv, NEW r \in Requests, RequestStep(r)
  PROVE  StepOf(r) /\ \A k \in Keys : Respects(r, k)
<1>t. TypeOK /\ Key(r) \in Keys
  BY DEF LedgerInv, TypeOK, Submissions, Key
<1> USE DEF StepOf, Respects, Goto, AnswerWith, pipelineVars, Accepted
<1>w. ASSUME ledger[Key(r)] = None, WriteRow(r) PROVE \A k \in Keys : Respects(r, k)
  BY <1>t, <1>w DEF WriteRow, TypeOK
<1>d. ASSUME Abandoned(ledger[Key(r)]), DropRow(Key(r)) PROVE \A k \in Keys : Respects(r, k)
  BY <1>t, <1>d DEF DropRow, TypeOK
<1>1. CASE Reserve(r)
  BY <1>1, <1>w DEF Reserve, BecomeOwner
<1>2. CASE ReserveFails(r)
  BY <1>2, <1>w DEF ReserveFails, Unprotected
<1>3. CASE Find(r)
  BY <1>3 DEF Find, FoundRow, Unprotected
<1>4. CASE FindFails(r)
  BY <1>4 DEF FindFails, Unprotected
<1>5. CASE TakeOver(r) \/ TakeOverFails(r)
  BY <1>5, <1>d DEF TakeOver, TakeOverFails
<1>6. CASE ReserveAgain(r) \/ ReserveAgainFails(r)
  BY <1>6, <1>w DEF ReserveAgain, ReserveAgainFails, BecomeOwner
<1>7. CASE Script(r)
  <2>1. /\ UNCHANGED <<sub, ledger, owns, stored, reply>>
        /\ pc' = [pc EXCEPT ![r] = "store"] \/ pc' = [pc EXCEPT ![r] = "settle"]
        /\ outcome' = outcome \/ \E v : outcome' = [outcome EXCEPT ![r] = v]
        /\ acted' = acted \/ acted' = acted \cup {r}
        /\ optedOut' = optedOut \/ optedOut' = optedOut \cup {r}
    BY <1>7 DEF Script
  <2> QED BY <2>1
<1>8. CASE Store(r)
  <2>1. /\ UNCHANGED <<sub, ledger, owns, acted, optedOut, reply>>
        /\ pc' = [pc EXCEPT ![r] = "settle"]
        /\ \E v : outcome' = [outcome EXCEPT ![r] = v]
        /\ stored' = stored \/ stored' = stored \cup {r}
    BY <1>8 DEF Store
  <2> QED BY <2>1
<1>9. CASE Settle(r) \/ SettleFails(r)
  <2>1. StepOf(r)
    BY <1>9 DEF Settle, SettleFails, PipelineAnswer
  <2>2. \A k \in Keys : k # Key(r) => ledger'[k] = ledger[k]
    BY <1>9, <1>t DEF Settle, SettleFails, SettleRow, DropRow, TypeOK
  <2>3. ledger'[Key(r)] = ledger[Key(r)] \/ OwnRow(r)
    BY <1>9 DEF Settle, SettleFails
  <2> QED BY <2>1, <2>2, <2>3 DEF OwnRow
<1>10. CASE Resend(r) \/ Crash(r)
  BY <1>10 DEF Resend, Crash
<1> QED BY <1>1, <1>2, <1>3, <1>4, <1>5, <1>6, <1>7, <1>8, <1>9, <1>10
        DEF RequestStep, Work, LedgerFailure

(* So the others keep what they hold.                                      *)
LEMMA OthersWork ==
  ASSUME WorkInv, NEW r \in Requests, StepOf(r), \A k \in Keys : Respects(r, k),
         NEW q \in Requests, q # r
  PROVE  WorkPart(q)'
<1>t. TypeOK
  BY DEF WorkInv, LedgerInv
<1>1. /\ pc'[q] = pc[q] /\ reply'[q] = reply[q] /\ sub' = sub /\ (q \in owns => q \in owns')
  BY <1>t DEF StepOf, TypeOK
<1>2. Key(q) \in Keys /\ Key(q)' = Key(q)
  BY <1>t, <1>1 DEF TypeOK, Submissions, Key
<1>3. WorkPart(q)
  BY DEF WorkInv
<1>4. WorkerHolds(q)'
  BY <1>1, <1>2, <1>3 DEF WorkPart, WorkerHolds, Working, Holds, Pending, Abandoned, Respects
<1>5. NamesNothingElse(q)'
  BY <1>1, <1>3 DEF WorkPart, NamesNothingElse, NoReply
<1> QED BY <1>4, <1>5 DEF WorkPart

(* Winning the INSERT makes a request the owner of a fresh row.            *)
LEMMA OwnerHolds ==
  ASSUME LedgerInv, NEW r \in Requests, WriteRow(r), BecomeOwner(r), UNCHANGED sub
  PROVE  WorkerHolds(r)' /\ pc'[r] = "script"
<1>t. TypeOK /\ Key(r) \in Keys /\ sub[r].hash \in Payloads
  BY DEF LedgerInv, TypeOK, Submissions, Key
<1>1. ledger'[Key(r)] = [lease |-> r, hash |-> sub[r].hash, resp |-> None,
                         status |-> "pending", age |-> "young"]
  BY <1>t DEF TypeOK, WriteRow
<1>2. ledger'[Key(r)] # None
  <2>1. ledger'[Key(r)] \in Rows
    BY <1>t, <1>1 DEF Rows, Ages
  <2> QED BY <2>1, NoRowAssumption
<1>3. pc'[r] = "script" /\ r \in owns' /\ Key(r)' = Key(r)
  BY <1>t DEF BecomeOwner, Goto, TypeOK, Key
<1> QED BY <1>1, <1>2, <1>3 DEF WorkerHolds, Working, Holds, Pending

(* A request that takes a step towards its pipeline, or through it, has    *)
(* told its client nothing; one that ends tells it what it may.            *)
LEMMA OwnWork ==
  ASSUME WorkInv, NEW r \in Requests, RequestStep(r)
  PROVE  WorkPart(r)'
<1>t. TypeOK /\ LedgerInv /\ Key(r) \in Keys /\ WorkPart(r)
  BY DEF WorkInv, LedgerInv, TypeOK, Submissions, Key
<1>a. ASSUME NEW kind, NEW id, AnswerWith(r, kind, id),
             kind \in {"created", "replayed"} \/ id = None
      PROVE  WorkPart(r)'
  <2>1. pc'[r] = "done" /\ reply'[r] = [kind |-> kind, id |-> id]
    BY <1>a, <1>t DEF AnswerWith, Goto, TypeOK
  <2> QED BY <1>a, <2>1 DEF WorkPart, WorkerHolds, Working, NamesNothingElse, Steps
<1>g. ASSUME NEW step \in {"find", "takeOver", "reserve", "reserveAgain"}, Goto(r, step),
             reply'[r] = NoReply
      PROVE  WorkPart(r)'
  <2>1. pc'[r] = step
    BY <1>g, <1>t DEF Goto, TypeOK
  <2> QED BY <1>g, <2>1 DEF WorkPart, WorkerHolds, Working, NamesNothingElse, NoReply
<1>o. ASSUME pc[r] \in Steps, WriteRow(r), BecomeOwner(r), UNCHANGED sub PROVE WorkPart(r)'
  <2>1. WorkerHolds(r)'
    BY <1>o, <1>t, OwnerHolds
  <2>2. reply'[r] = NoReply
    BY <1>o, <1>t DEF BecomeOwner, WorkPart, NamesNothingElse
  <2> QED BY <2>1, <2>2 DEF WorkPart, NamesNothingElse, NoReply
<1>u. ASSUME Unprotected(r) PROVE WorkPart(r)'
  BY <1>u, <1>a DEF Unprotected, WorkInv, ClosedRoutes
<1>n. pc[r] \in Steps /\ UNCHANGED reply => reply'[r] = NoReply
  BY <1>t DEF WorkPart, NamesNothingElse
<1>1. CASE Reserve(r)
  BY <1>1, <1>o, <1>g, <1>n DEF Reserve, Steps
<1>2. CASE ReserveFails(r) \/ FindFails(r)
  BY <1>2, <1>u DEF ReserveFails, FindFails
<1>3. CASE Find(r)
  <2>1. pc[r] \in Steps /\ (FoundRow(r, ledger[Key(r)]) \/ Unprotected(r))
    BY <1>3 DEF Find, Steps
  <2> QED BY <2>1, <1>a, <1>g, <1>n, <1>u DEF FoundRow
<1>4. CASE TakeOver(r)
  BY <1>4, <1>a, <1>g, <1>n DEF TakeOver, Steps
<1>5. CASE ReserveAgain(r)
  BY <1>5, <1>a, <1>o DEF ReserveAgain, Steps
<1>6. CASE TakeOverFails(r) \/ ReserveAgainFails(r)
  BY <1>6, <1>a DEF TakeOverFails, ReserveAgainFails
<1>7. CASE Script(r) \/ Store(r)
  <2>1. /\ Working(r) /\ pc[r] \in Steps /\ UNCHANGED <<sub, ledger, owns, reply>>
        /\ pc' = [pc EXCEPT ![r] = "store"] \/ pc' = [pc EXCEPT ![r] = "settle"]
    BY <1>7 DEF Script, Store, Goto, Working, Steps
  <2>2. Key(r)' = Key(r)
    BY <2>1 DEF Key
  <2> QED BY <1>t, <1>n, <2>1, <2>2
          DEF WorkPart, WorkerHolds, Working, Holds, Pending, NamesNothingElse, NoReply
<1>8. CASE Settle(r) \/ SettleFails(r)
  <2>1. AnswerWith(r, outcome[r], IF outcome[r] = "created" THEN r ELSE None)
    BY <1>8 DEF Settle, SettleFails, PipelineAnswer
  <2> QED BY <1>a, <2>1
<1>9. CASE Resend(r)
  <2>1. reply'[r] = NoReply /\ Goto(r, "reserve")
    BY <1>9, <1>t DEF Resend, TypeOK
  <2> QED BY <1>g, <2>1
<1>10. CASE Crash(r)
  <2>1. pc'[r] = "dead" /\ reply' = reply /\ pc[r] \in Steps
    BY <1>10, <1>t DEF Crash, Goto, InFlight, TypeOK
  <2> QED BY <1>n, <2>1 DEF WorkPart, WorkerHolds, Working, NamesNothingElse, NoReply, Steps
<1> QED BY <1>1, <1>2, <1>3, <1>4, <1>5, <1>6, <1>7, <1>8, <1>9, <1>10
        DEF RequestStep, Work, LedgerFailure

(* Time passes for the rows of requests that are done or dead, and the     *)
(* retention job takes only rows that have grown old.                      *)
LEMMA ClockSparesWork ==
  ASSUME OnTime, WorkInv, NEW k \in Keys, GrowStale(k) \/ GrowExpired(k) \/ Cleanup(k),
         NEW q \in Requests
  PROVE  WorkPart(q)'
<1>t. TypeOK /\ WorkPart(q)
  BY DEF WorkInv, LedgerInv
<1>1. UNCHANGED <<sub, pc, owns, reply>>
  BY DEF GrowStale, GrowExpired, Cleanup
<1>2. Key(q) \in Keys /\ Key(q)' = Key(q)
  BY <1>1, <1>t DEF TypeOK, Submissions, Key
<1>3. Working(q) => Key(q) # k
  BY <1>t DEF WorkPart, WorkerHolds, Working, Holds, GrowStale, GrowExpired, Cleanup, OnTime,
              InFlight, Steps
<1>4. \A l \in Keys : l # k => ledger'[l] = ledger[l]
  BY <1>t DEF TypeOK, GrowStale, GrowExpired, Cleanup, DropRow
<1> QED BY <1>t, <1>1, <1>2, <1>3, <1>4
        DEF WorkPart, WorkerHolds, Working, Holds, Pending, NamesNothingElse, NoReply

(* Every step preserves the invariant.                                     *)
LEMMA WorkNext ==
  ASSUME OnTime
  PROVE  WorkInv /\ [Next]_vars => WorkInv'
<1> SUFFICES ASSUME WorkInv, [Next]_vars PROVE WorkInv'
  OBVIOUS
<1>1. LedgerInv'
  BY LedgerNext DEF WorkInv
<1>2. ASSUME NEW r \in Requests, RequestStep(r)
      PROVE  UNCHANGED sub /\ \A q \in Requests : WorkPart(q)'
  <2>1. StepOf(r) /\ \A k \in Keys : Respects(r, k)
    BY <1>2, StepsRespectRows DEF WorkInv
  <2> QED BY <1>2, <2>1, OthersWork, OwnWork DEF StepOf
<1>3. ASSUME NEW k \in Keys, GrowStale(k) \/ GrowExpired(k) \/ Cleanup(k)
      PROVE  UNCHANGED sub /\ \A q \in Requests : WorkPart(q)'
  BY <1>3, ClockSparesWork DEF GrowStale, GrowExpired, Cleanup
<1>4. ASSUME UNCHANGED vars PROVE UNCHANGED sub /\ \A q \in Requests : WorkPart(q)'
  <2>1. UNCHANGED sub /\ \A q \in Requests : WorkPart(q)
    BY <1>4 DEF vars, WorkInv
  <2>2. \A q \in Requests : /\ Working(q)' <=> Working(q)
                            /\ Holds(q)' <=> Holds(q)
                            /\ Pending(q)' <=> Pending(q)
                            /\ Key(q)' = Key(q)
    BY <1>4 DEF vars, Working, Holds, Pending, Key
  <2> QED BY <1>4, <2>1, <2>2 DEF vars, WorkPart, WorkerHolds, NamesNothingElse, NoReply
<1>5. UNCHANGED sub /\ \A q \in Requests : WorkPart(q)'
  BY <1>2, <1>3, <1>4 DEF Next, RequestStep
<1> QED BY <1>1, <1>5 DEF WorkInv, ClosedRoutes

(* When no pipeline outlives its lease, a request in its pipeline holds    *)
(* the pending row of its key from beginExecution to settle, and only the  *)
(* two replies that carry a response name one.                             *)
THEOREM WorkInvHolds ==
  ASSUME OnTime
  PROVE  Spec /\ ClosedRoutes => []WorkInv
<1>1. WorkInv /\ [Next]_vars => WorkInv'
  BY WorkNext
<1> QED BY WorkInit, <1>1, PTL DEF Spec

(* As long as requests are on time, a route that fails closed never runs   *)
(* two copies' pipelines at the same time, whatever crashes, fails or      *)
(* expires: each would hold the one row of their key.                      *)
THEOREM OnePipelinePerKeyHolds ==
  ASSUME OnTime
  PROVE  Spec /\ ClosedRoutes => []OnePipelinePerKey
<1>1. WorkInv => OnePipelinePerKey
  BY DEF WorkInv, WorkPart, WorkerHolds, Working, Holds, OnePipelinePerKey, SameKey
<1> QED BY WorkInvHolds, <1>1, PTL

-----------------------------------------------------------------------------
(* What becomes of a submission that had an effect.                        *)

NoneExpired == \A k \in Keys : ledger[k] # None => ledger[k].age # "expired"

(* The effects that a request is sure to report, and so to keep its key    *)
(* for: a response, unless a late failure turns it into a refusal, and a   *)
(* script's acting, unless the privacy gate's refusal hides it as well.    *)
HasEffect(r) == (TellsStored /\ r \in Accepted) \/ (TellsActed /\ r \in acted)

(* A request that had an effect is still at it, is dead, or keeps the key. *)
EffectHeld(r) ==
  HasEffect(r) => \/ Working(r)
                  \/ pc[r] = "dead"
                  \/ pc[r] = "done" /\ Holds(r) /\ ~Pending(r)

(* A request that begins its pipeline, or reports that nothing came of it, *)
(* had no effect.                                                          *)
NoEffectYet(r) ==
  (pc[r] = "script" \/ (pc[r] = "settle" /\ outcome[r] = "refused")) => ~HasEffect(r)

EffectPart(r) == EffectHeld(r) /\ NoEffectYet(r)

ClosedInv == WorkInv /\ NoneExpired /\ \A r \in Requests : EffectPart(r)

(* The invariant holds before the first request reserves anything.         *)
LEMMA ClosedInit == Init /\ ClosedRoutes => ClosedInv
  BY WorkInit DEF Init, ClosedInv, NoneExpired, EffectPart, EffectHeld, NoEffectYet, HasEffect,
                  Accepted

(* A step of one request leaves what the others have done, and hold, as it *)
(* is.                                                                     *)
LEMMA OthersKeepEffect ==
  ASSUME ClosedInv, NEW r \in Requests, StepOf(r), \A k \in Keys : Respects(r, k),
         NEW q \in Requests, q # r
  PROVE  EffectPart(q)'
<1>t. TypeOK
  BY DEF ClosedInv, WorkInv, LedgerInv
<1>1. /\ pc'[q] = pc[q] /\ outcome'[q] = outcome[q] /\ sub' = sub
      /\ HasEffect(q)' <=> HasEffect(q)
  BY <1>t DEF StepOf, TypeOK, HasEffect
<1>2. Key(q) \in Keys /\ Key(q)' = Key(q)
  BY <1>t, <1>1 DEF TypeOK, Submissions, Key
<1>3. EffectPart(q)
  BY DEF ClosedInv
<1>4. EffectHeld(q)'
  BY <1>1, <1>2, <1>3
     DEF EffectPart, EffectHeld, Working, Holds, Pending, Abandoned, Respects
<1> QED BY <1>1, <1>3, <1>4 DEF EffectPart, NoEffectYet

(* Before its pipeline, and when it is sent again, a request had no        *)
(* effect.                                                                 *)
LEMMA FrontHasNoEffect ==
  ASSUME ClosedInv, NEW r \in Requests,
         \/ pc[r] \in {"reserve", "find", "takeOver", "reserveAgain"}
         \/ pc[r] = "done" /\ reply[r].kind \in {"processing", "retry"}
  PROVE  ~HasEffect(r)
<1>1. CASE pc[r] = "done" /\ reply[r].kind \in {"processing", "retry"}
  <2>1. Key(r) \in Keys
    BY DEF ClosedInv, WorkInv, LedgerInv, TypeOK, Submissions, Key
  <2>2. ASSUME Holds(r), ~Pending(r) PROVE FALSE
    BY <1>1, <2>1, <2>2 DEF ClosedInv, WorkInv, LedgerInv, LeaseInv, Holds, Pending, Settled
  <2> QED BY <1>1, <2>2 DEF ClosedInv, EffectPart, EffectHeld, Working
<1> QED BY <1>1 DEF ClosedInv, EffectPart, EffectHeld, Working

(* The script's verdict leads on with an effect, or to a settlement that   *)
(* reports "refused" only when there is none.                              *)
LEMMA ScriptKeeps ==
  ASSUME ClosedInv, NEW r \in Requests, Script(r)
  PROVE  EffectPart(r)'
<1>t. TypeOK /\ EffectPart(r)
  BY DEF ClosedInv, WorkInv, LedgerInv
<1>1. pc[r] = "script" /\ pc'[r] \in {"store", "settle"}
  BY <1>t DEF Script, Goto, TypeOK
<1>2. (pc'[r] = "settle" /\ outcome'[r] = "refused") => ~HasEffect(r)'
  <2>1. ~HasEffect(r)
    BY <1>1, <1>t DEF EffectPart, NoEffectYet
  <2>2. (pc'[r] = "settle" /\ outcome'[r] = "refused") =>
          UNCHANGED <<acted, stored, optedOut>>
    BY <1>t DEF Script, Goto, TypeOK
  <2> QED BY <2>1, <2>2 DEF HasEffect, Accepted
<1> QED BY <1>1, <1>2 DEF EffectPart, EffectHeld, NoEffectYet, Working

(* The store step reports "refused" only when neither it nor the script    *)
(* left anything that counts.                                              *)
LEMMA StoreKeeps ==
  ASSUME ClosedInv, NEW r \in Requests, Store(r)
  PROVE  EffectPart(r)'
<1>t. TypeOK
  BY DEF ClosedInv, WorkInv, LedgerInv
<1>1. pc[r] = "store" /\ pc'[r] = "settle" /\ UNCHANGED <<acted, optedOut>>
  BY <1>t DEF Store, Goto, TypeOK
<1>2. r \notin Accepted
  BY <1>1 DEF ClosedInv, WorkInv, LedgerInv, RequestInv, Steps
<1>3. outcome'[r] = "refused" => ~HasEffect(r)'
  <2>1. CASE outcome' = [outcome EXCEPT ![r] = "created"]
    BY <2>1, <1>t DEF TypeOK
  <2>2. CASE outcome' = [outcome EXCEPT ![r] = StoreOutcome(r)] /\ UNCHANGED stored
    BY <1>1, <1>2, <2>2, <1>t DEF TypeOK, StoreOutcome, HasEffect, Accepted
  <2>3. CASE "enabling" \in Hazards /\ UNCHANGED stored
    BY <1>1, <1>2, <2>3 DEF HasEffect, Accepted, TellsActed
  <2>4. CASE "links" \in Hazards
    BY <2>4 DEF HasEffect, TellsStored, TellsActed
  <2> QED BY <2>1, <2>2, <2>3, <2>4 DEF Store
<1> QED BY <1>1, <1>3 DEF EffectPart, EffectHeld, NoEffectYet, Working

(* What a settlement writes: the caller still owns its row, so an effect   *)
(* leaves the key held for good and a refusal gives it back.               *)
LEMMA SettleWrites ==
  ASSUME ClosedInv, NEW r \in Requests, Settle(r)
  PROVE  /\ Key(r) \in Keys /\ Holds(r) /\ ledger[Key(r)].resp = None
         /\ \A k \in Keys : k # Key(r) => ledger'[k] = ledger[k]
         /\ \/ /\ outcome[r] = "created" /\ r \in Accepted
               /\ ledger'[Key(r)] # None /\ ledger'[Key(r)].lease = r
               /\ ledger'[Key(r)].resp = r /\ ledger'[Key(r)].status = "completed"
               /\ ledger'[Key(r)].age = "young"
            \/ /\ outcome[r] = "script_ran"
               /\ ledger'[Key(r)] # None /\ ledger'[Key(r)].lease = r
               /\ ledger'[Key(r)].resp = None /\ ledger'[Key(r)].status = "script_ran"
               /\ ledger'[Key(r)].age = "young"
            \/ /\ outcome[r] = "refused" /\ ~HasEffect(r)
               /\ ledger'[Key(r)] = None
<1>t. TypeOK /\ LedgerInv
  BY DEF ClosedInv, WorkInv, LedgerInv
<1>1. Key(r) \in Keys
  BY <1>t DEF TypeOK, Submissions, Key
<1>2. pc[r] = "settle" /\ WorkPart(r) /\ EffectPart(r)
  BY DEF Settle, ClosedInv, WorkInv
<1>3. r \in owns /\ Holds(r) /\ Pending(r) /\ ledger[Key(r)].age = "young"
  BY <1>2 DEF WorkPart, WorkerHolds, Working
<1>4. SettleRow(r)
  BY <1>3 DEF Settle, OwnRow, Holds, Pending
<1>5. ledger[Key(r)] \in Rows
  BY <1>1, <1>3, <1>t DEF TypeOK, Holds
<1>6. ledger[Key(r)].resp = None
  BY <1>1, <1>3, <1>t DEF LedgerInv, CompletedByItsLease, Holds, Pending
<1>7. \A k \in Keys : k # Key(r) => ledger'[k] = ledger[k]
  BY <1>1, <1>4, <1>t DEF SettleRow, DropRow, TypeOK
<1>8. CASE outcome[r] = "created"
  <2>1. ledger'[Key(r)] = [ledger[Key(r)] EXCEPT !.resp = r, !.status = "completed"]
    BY <1>1, <1>4, <1>8, <1>t DEF SettleRow, TypeOK
  <2>2. ledger'[Key(r)] \in Rows
    BY <1>5, <2>1 DEF Rows
  <2>3. r \in Accepted
    BY <1>2, <1>8, <1>t DEF LedgerInv, RequestInv
  <2>4. ledger'[Key(r)] # None /\ ledger'[Key(r)].lease = r
        /\ ledger'[Key(r)].resp = r /\ ledger'[Key(r)].status = "completed"
        /\ ledger'[Key(r)].age = "young"
    BY <1>3, <1>5, <2>1, <2>2, NoRowAssumption DEF Rows, Holds
  <2> QED BY <1>1, <1>3, <1>6, <1>7, <1>8, <2>3, <2>4
<1>9. CASE outcome[r] = "script_ran"
  <2>1. ledger'[Key(r)] = [ledger[Key(r)] EXCEPT !.status = "script_ran"]
    BY <1>1, <1>4, <1>9, <1>t DEF SettleRow, TypeOK
  <2>2. ledger'[Key(r)] \in Rows
    BY <1>5, <2>1 DEF Rows
  <2>3. ledger'[Key(r)] # None /\ ledger'[Key(r)].lease = r
        /\ ledger'[Key(r)].resp = None /\ ledger'[Key(r)].status = "script_ran"
        /\ ledger'[Key(r)].age = "young"
    BY <1>3, <1>5, <1>6, <2>1, <2>2, NoRowAssumption DEF Rows, Holds
  <2> QED BY <1>1, <1>3, <1>6, <1>7, <1>9, <2>3
<1>10. CASE outcome[r] = "refused"
  <2>1. ~HasEffect(r)
    BY <1>2, <1>10 DEF EffectPart, NoEffectYet
  <2>2. ledger'[Key(r)] = None
    BY <1>1, <1>4, <1>10, <1>t DEF SettleRow, DropRow, TypeOK
  <2> QED BY <1>1, <1>3, <1>6, <1>7, <1>10, <2>1, <2>2
<1> QED BY <1>4, <1>8, <1>9, <1>10 DEF SettleRow

(* A settlement leaves the key held for whatever it reports.               *)
LEMMA SettleKeeps ==
  ASSUME ClosedInv, NEW r \in Requests, Settle(r)
  PROVE  EffectPart(r)' /\ NoneExpired'
<1>t. TypeOK
  BY DEF ClosedInv, WorkInv, LedgerInv
<1>1. /\ UNCHANGED <<sub, acted, stored, optedOut, outcome>>
      /\ pc'[r] = "done"
  BY <1>t DEF Settle, PipelineAnswer, AnswerWith, Goto, pipelineVars, TypeOK
<1>2. Key(r)' = Key(r) /\ (HasEffect(r)' <=> HasEffect(r))
  BY <1>1 DEF Key, HasEffect, Accepted
<1>3. EffectHeld(r)'
  <2>1. CASE outcome[r] = "refused"
    BY <1>2, <2>1, SettleWrites DEF EffectHeld
  <2>2. CASE outcome[r] # "refused"
    BY <1>1, <1>2, <2>2, SettleWrites DEF EffectHeld, Holds, Pending
  <2> QED BY <2>1, <2>2
<1>4. NoneExpired'
  BY SettleWrites DEF ClosedInv, NoneExpired
<1> QED BY <1>1, <1>3, <1>4 DEF EffectPart, NoEffectYet

(* No step of a request makes a row expire.                                *)
LEMMA NoStepExpires ==
  ASSUME ClosedInv, NEW r \in Requests, RequestStep(r), ~Settle(r), "ledger" \notin Hazards
  PROVE  NoneExpired'
<1>t. TypeOK /\ Key(r) \in Keys
  BY DEF ClosedInv, WorkInv, LedgerInv, TypeOK, Submissions, Key
<1> DEFINE Young == \A k \in Keys : \/ ledger'[k] = ledger[k]
                                  \/ ledger'[k] = None
                                  \/ ledger'[k].age = "young"
<1>w. WriteRow(r) => Young
  BY <1>t DEF WriteRow, TypeOK
<1>d. DropRow(Key(r)) => Young
  BY <1>t DEF DropRow, TypeOK
<1>1. ASSUME Reserve(r) \/ Find(r) \/ ReserveAgain(r) PROVE Young
  BY <1>1, <1>w DEF Reserve, Find, ReserveAgain
<1>2. ASSUME TakeOver(r) PROVE Young
  BY <1>2, <1>d DEF TakeOver
<1>3. ASSUME Script(r) \/ Store(r) \/ Resend(r) \/ Crash(r) PROVE Young
  BY <1>3 DEF Script, Store, Resend, Crash
<1>4. ~LedgerFailure(r)
  BY DEF LedgerFailure, ReserveFails, FindFails, TakeOverFails, ReserveAgainFails, SettleFails
<1>5. Young
  BY <1>1, <1>2, <1>3, <1>4 DEF RequestStep, Work
<1> QED BY <1>5 DEF ClosedInv, NoneExpired

(* Each request's own step keeps what it has done.                         *)
LEMMA OwnEffect ==
  ASSUME RowsStand, ClosedInv, NEW r \in Requests, RequestStep(r)
  PROVE  EffectPart(r)' /\ NoneExpired'
<1>t. TypeOK
  BY DEF ClosedInv, WorkInv, LedgerInv
<1>h. "ledger" \notin Hazards
  BY DEF RowsStand
<1>1. CASE Reserve(r) \/ Find(r) \/ TakeOver(r) \/ ReserveAgain(r) \/ Resend(r)
  <2>1. ~HasEffect(r) /\ UNCHANGED pipelineVars
    BY <1>1, FrontHasNoEffect DEF Reserve, Find, TakeOver, ReserveAgain, Resend
  <2>2. ~HasEffect(r)'
    BY <2>1 DEF HasEffect, Accepted, pipelineVars
  <2>3. ~Settle(r)
    BY <1>1 DEF Reserve, Find, TakeOver, ReserveAgain, Resend, Settle
  <2> QED BY <1>1, <1>h, <2>2, <2>3, NoStepExpires
          DEF EffectPart, EffectHeld, NoEffectYet, RequestStep, Work
<1>2. CASE Script(r) \/ Store(r)
  BY <1>2, <1>h, ScriptKeeps, StoreKeeps, NoStepExpires
     DEF RequestStep, Work, Script, Store, Settle
<1>3. CASE Settle(r)
  BY <1>3, SettleKeeps
<1>4. CASE Crash(r)
  <2>1. pc'[r] = "dead" /\ UNCHANGED <<ledger, outcome>>
    BY <1>4, <1>t DEF Crash, Goto, TypeOK, pipelineVars
  <2> QED BY <2>1 DEF EffectPart, EffectHeld, NoEffectYet, ClosedInv, NoneExpired
<1>5. ~LedgerFailure(r)
  BY <1>h DEF LedgerFailure, ReserveFails, FindFails, TakeOverFails, ReserveAgainFails,
              SettleFails
<1> QED BY <1>1, <1>2, <1>3, <1>4, <1>5 DEF RequestStep, Work

(* What a row says, but for its age, stays while time passes.              *)
LEMMA StaleKeepsRows ==
  ASSUME TypeOK, NEW k \in Keys, GrowStale(k)
  PROVE  /\ ledger[k] # None /\ ledger'[k] # None
         /\ ledger'[k].lease = ledger[k].lease /\ ledger'[k].resp = ledger[k].resp
         /\ ledger'[k].status = ledger[k].status /\ ledger'[k].age = "stale"
         /\ \A l \in Keys : l # k => ledger'[l] = ledger[l]
<1>1. ledger[k] \in Rows /\ ledger' = [ledger EXCEPT ![k].age = "stale"] /\ ledger[k] # None
  BY DEF TypeOK, GrowStale
<1>2. /\ ledger'[k] = [ledger[k] EXCEPT !.age = "stale"]
      /\ \A l \in Keys : l # k => ledger'[l] = ledger[l]
  BY <1>1 DEF TypeOK
<1>3. ledger'[k] \in Rows
  BY <1>1, <1>2 DEF Rows, Ages
<1> QED BY <1>1, <1>2, <1>3, NoRowAssumption DEF Rows

(* So a key that is held stays held.                                       *)
LEMMA ClockKeeps ==
  ASSUME RowsStand, ClosedInv, NEW k \in Keys, GrowStale(k) \/ GrowExpired(k) \/ Cleanup(k)
  PROVE  NoneExpired' /\ \A q \in Requests : EffectPart(q)'
<1>t. TypeOK
  BY DEF ClosedInv, WorkInv, LedgerInv
<1>1. GrowStale(k)
  BY DEF RowsStand, GrowExpired, Cleanup, ClosedInv, NoneExpired
<1>2. UNCHANGED <<sub, pc, acted, stored, optedOut, outcome>>
  BY <1>1 DEF GrowStale, pipelineVars
<1>3. NoneExpired'
  BY <1>1, <1>t, StaleKeepsRows DEF ClosedInv, NoneExpired
<1>4. ASSUME NEW q \in Requests PROVE EffectPart(q)'
  <2>1. EffectPart(q) /\ Key(q) \in Keys /\ Key(q)' = Key(q)
    BY <1>2, <1>t DEF ClosedInv, TypeOK, Submissions, Key
  <2>2. /\ HasEffect(q)' <=> HasEffect(q)
        /\ Holds(q) => Holds(q)'
        /\ Holds(q) /\ ~Pending(q) => ~Pending(q)'
    BY <1>1, <1>2, <1>t, <2>1, StaleKeepsRows DEF HasEffect, Accepted, Holds, Pending
  <2> QED BY <1>2, <2>1, <2>2 DEF EffectPart, EffectHeld, NoEffectYet, Working
<1> QED BY <1>3, <1>4

-----------------------------------------------------------------------------
(* Every step preserves the invariant.                                     *)
LEMMA ClosedNext ==
  ASSUME RowsStand
  PROVE  ClosedInv /\ [Next]_vars => ClosedInv'
<1> SUFFICES ASSUME ClosedInv, [Next]_vars PROVE NoneExpired' /\ \A q \in Requests : EffectPart(q)'
  BY WorkNext DEF ClosedInv, RowsStand, OnTime
<1>1. ASSUME NEW r \in Requests, RequestStep(r)
      PROVE  NoneExpired' /\ \A q \in Requests : EffectPart(q)'
  <2>1. StepOf(r) /\ \A k \in Keys : Respects(r, k)
    BY <1>1, StepsRespectRows DEF ClosedInv, WorkInv
  <2> QED BY <1>1, <2>1, OthersKeepEffect, OwnEffect
<1>2. ASSUME UNCHANGED vars PROVE NoneExpired' /\ \A q \in Requests : EffectPart(q)'
  <2>1. NoneExpired'
    BY <1>2 DEF vars, ClosedInv, NoneExpired
  <2>2. \A q \in Requests : /\ EffectPart(q)
                            /\ Working(q)' <=> Working(q)
                            /\ Holds(q)' <=> Holds(q)
                            /\ Pending(q)' <=> Pending(q)
                            /\ HasEffect(q)' <=> HasEffect(q)
    BY <1>2 DEF vars, ClosedInv, Working, Holds, Pending, Key, HasEffect, Accepted
  <2> QED BY <1>2, <2>1, <2>2 DEF vars, EffectPart, EffectHeld, NoEffectYet
<1> QED BY <1>1, <1>2, ClockKeeps DEF Next, RequestStep

(* Two copies do not both have an effect, unless one of them is dead: each *)
(* that is not would hold the one row of their key.                        *)
LEMMA OnlyOneActs ==
  ClosedInv => \A r, s \in Requests :
                 (SameKey(r, s) /\ HasEffect(r) /\ HasEffect(s)) =>
                   pc[r] = "dead" \/ pc[s] = "dead"
<1> SUFFICES ASSUME ClosedInv, NEW r \in Requests, NEW s \in Requests,
                    SameKey(r, s), HasEffect(r), HasEffect(s),
                    pc[r] # "dead", pc[s] # "dead"
             PROVE  FALSE
  OBVIOUS
<1>1. Holds(r) /\ Holds(s)
  BY DEF ClosedInv, WorkInv, WorkPart, WorkerHolds, EffectPart, EffectHeld
<1> QED BY <1>1 DEF Holds, SameKey

(* The invariant holds in every state of a behaviour that starts on the    *)
(* closed routes.                                                          *)
THEOREM ClosedInvHolds ==
  ASSUME RowsStand
  PROVE  Spec /\ ClosedRoutes => []ClosedInv
<1>1. ClosedInv /\ [Next]_vars => ClosedInv'
  BY ClosedNext
<1> QED BY ClosedInit, <1>1, PTL DEF Spec

(* Where the ledger's rows stand and a stored response is reported as one, *)
(* a route that fails closed does not store two copies, unless the process *)
(* of one of them died.                                                    *)
THEOREM OneStoredPerKeyHolds ==
  ASSUME RowsStand, TellsStored
  PROVE  Spec /\ ClosedRoutes => []OneStoredPerKey
<1>1. ClosedInv => OneStoredPerKey
  BY OnlyOneActs
     DEF OneStoredPerKey, HasEffect, TellsStored, Accepted, ClosedInv, WorkInv, LedgerInv, TypeOK
<1> QED BY ClosedInvHolds, <1>1, PTL

(* Nor do the scripts of two copies act outside, where the privacy gate    *)
(* does not hide that one did.                                             *)
THEOREM ScriptActsOncePerKeyHolds ==
  ASSUME RowsStand, TellsActed
  PROVE  Spec /\ ClosedRoutes => []ScriptActsOncePerKey
<1>1. ClosedInv => ScriptActsOncePerKey
  BY OnlyOneActs
     DEF ScriptActsOncePerKey, HasEffect, TellsActed, ClosedInv, WorkInv, LedgerInv, TypeOK
<1> QED BY ClosedInvHolds, <1>1, PTL

-----------------------------------------------------------------------------
(* The ledger implements SubmitOnce.                                       *)

RespOf(k) == IF ledger[k] = None THEN None ELSE ledger[k].resp

(* Nothing that SubmitOnce sees changes.                                   *)
Quiet ==
  /\ UNCHANGED sub
  /\ \A k \in Keys : RespOf(k)' = RespOf(k)
  /\ \A q \in Requests : reply'[q].id = reply[q].id

(* A quiet step is a stuttering step of SubmitOnce.                        *)
LEMMA QuietStutters == Quiet => UNCHANGED Once!vars
  BY DEF Quiet, RespOf, Once!vars, Key

(* A request under way was told of nothing, and answers that name no       *)
(* response leave it at that.                                              *)
LEMMA TellsNothing ==
  ASSUME ClosedInv, NEW r \in Requests,
         pc[r] \in Steps \/ reply[r].kind \in {"processing", "retry"},
         \/ reply' = reply
         \/ \E kind : reply' = [reply EXCEPT ![r] = [kind |-> kind, id |-> None]]
  PROVE  /\ reply[r].id = None
         /\ \A q \in Requests : reply'[q].id = reply[q].id
<1>t. TypeOK
  BY DEF ClosedInv, WorkInv, LedgerInv
<1>1. reply[r].id = None
  BY DEF ClosedInv, WorkInv, WorkPart, NamesNothingElse, NoReply
<1> QED BY <1>1, <1>t DEF TypeOK

(* A settlement gives the key its response, or is quiet.                   *)
LEMMA SettleGives ==
  ASSUME ClosedInv, NEW r \in Requests, Settle(r)
  PROVE  Quiet \/ Once!Give(r)
<1>t. TypeOK
  BY DEF ClosedInv, WorkInv, LedgerInv
<1>1. /\ UNCHANGED sub /\ pc[r] = "settle"
      /\ reply' = [reply EXCEPT ![r] = [kind |-> outcome[r],
                     id |-> IF outcome[r] = "created" THEN r ELSE None]]
  BY DEF Settle, PipelineAnswer, AnswerWith
<1>2. reply[r].id = None
  BY <1>1 DEF ClosedInv, WorkInv, WorkPart, NamesNothingElse, Steps, NoReply
<1>3. CASE outcome[r] = "created"
  <2>1. reply'[r].id = r /\ \A q \in Requests : q # r => reply'[q] = reply[q]
    BY <1>1, <1>3, <1>t DEF TypeOK
  <2>2. /\ Key(r) \in Keys /\ RespOf(Key(r)) = None /\ RespOf(Key(r))' = r
        /\ \A k \in Keys : k # Key(r) => RespOf(k)' = RespOf(k)
    <3>1. Key(r) \in Keys /\ Holds(r) /\ ledger[Key(r)].resp = None
      BY SettleWrites
    <3>2. /\ ledger'[Key(r)] # None /\ ledger'[Key(r)].resp = r
          /\ \A k \in Keys : k # Key(r) => ledger'[k] = ledger[k]
      BY <1>3, SettleWrites
    <3>3. Key(r)' = Key(r)
      BY <1>1 DEF Key
    <3> QED BY <3>1, <3>2, <3>3 DEF RespOf, Holds
  <2>3. [q \in Requests |-> reply[q].id]' =
          [[q \in Requests |-> reply[q].id] EXCEPT ![r] = r]
    BY <2>1
  <2>4. [k \in Keys |-> RespOf(k)]' = [[k \in Keys |-> RespOf(k)] EXCEPT ![Key(r)] = r]
    BY <2>2, <1>1 DEF Key
  <2> QED BY <1>1, <1>2, <2>2, <2>3, <2>4 DEF Once!Give, RespOf, Key
<1>4. CASE outcome[r] # "created"
  <2>1. \A q \in Requests : reply'[q].id = reply[q].id
    BY <1>1, <1>2, <1>4, <1>t DEF TypeOK
  <2>2. \A k \in Keys : RespOf(k)' = RespOf(k)
    BY <1>4, SettleWrites DEF RespOf, Holds
  <2> QED BY <1>1, <2>1, <2>2 DEF Quiet
<1> QED BY <1>3, <1>4

(* A duplicate's answer tells of the key's response, or is quiet.          *)
LEMMA FindTells ==
  ASSUME ClosedInv, NEW r \in Requests, Find(r)
  PROVE  Quiet \/ Once!Tell(r)
<1>t. TypeOK
  BY DEF ClosedInv, WorkInv, LedgerInv
<1>1. /\ pc[r] = "find" /\ UNCHANGED <<sub, ledger>> /\ reply[r].id = None
      /\ Key(r) \in Keys
  BY <1>t DEF Find, ClosedInv, WorkInv, WorkPart, NamesNothingElse, Steps, NoReply, TypeOK,
              Submissions, Key
<1>2. CASE reply' = reply \/ \E kind : reply' = [reply EXCEPT ![r] = [kind |-> kind, id |-> None]]
  BY <1>1, <1>2, TellsNothing DEF Quiet, RespOf, Steps
<1>3. CASE /\ ledger[Key(r)] # None /\ ledger[Key(r)].resp # None
           /\ reply' = [reply EXCEPT ![r] = [kind |-> "replayed", id |-> ledger[Key(r)].resp]]
  <2>1. [q \in Requests |-> reply[q].id]' =
          [[q \in Requests |-> reply[q].id] EXCEPT ![r] = ledger[Key(r)].resp]
    BY <1>3, <1>t DEF TypeOK
  <2> QED BY <1>1, <1>3, <2>1 DEF Once!Tell, Key
<1> QED BY <1>2, <1>3 DEF Find, FoundRow, AnswerWith, Unprotected

(* A row without a response comes or goes unseen.                          *)
LEMMA FrontRowsQuiet ==
  ASSUME ClosedInv, NEW r \in Requests, Reserve(r) \/ TakeOver(r) \/ ReserveAgain(r)
  PROVE  \A k \in Keys : RespOf(k)' = RespOf(k)
<1>t. TypeOK
  BY DEF ClosedInv, WorkInv, LedgerInv
<1>1. Key(r) \in Keys
  BY <1>t DEF TypeOK, Submissions, Key
<1>2. CASE ledger[Key(r)] = None /\ WriteRow(r)
  BY <1>1, <1>2, <1>t DEF WriteRow, RespOf, TypeOK
<1>3. CASE Abandoned(ledger[Key(r)]) /\ DropRow(Key(r))
  <2>1. ledger[Key(r)].resp = None
    BY <1>1, <1>3 DEF Abandoned, ClosedInv, WorkInv, LedgerInv, CompletedByItsLease
  <2> QED BY <1>1, <1>3, <2>1, <1>t DEF DropRow, RespOf, TypeOK
<1>4. CASE UNCHANGED ledger
  BY <1>4 DEF RespOf
<1> QED BY <1>2, <1>3, <1>4 DEF Reserve, TakeOver, ReserveAgain

(* The clock leaves the responses of the rows alone.                       *)
LEMMA ClockQuiet ==
  ASSUME ClosedInv, NEW k \in Keys, GrowStale(k)
  PROVE  Quiet
<1>1. TypeOK /\ UNCHANGED <<sub, reply>>
  BY DEF ClosedInv, WorkInv, LedgerInv, GrowStale
<1> QED BY <1>1, StaleKeepsRows DEF Quiet, RespOf

(* Every step of the ledger is a step of SubmitOnce, or stutters.          *)
LEMMA OnceStep ==
  ASSUME RowsStand
  PROVE  ClosedInv /\ [Next]_vars =>
           Quiet \/ \E r \in Requests : Once!Give(r) \/ Once!Tell(r)
<1> SUFFICES ASSUME ClosedInv, [Next]_vars
             PROVE  Quiet \/ \E r \in Requests : Once!Give(r) \/ Once!Tell(r)
  OBVIOUS
<1>1. ASSUME NEW r \in Requests, Reserve(r) \/ TakeOver(r) \/ ReserveAgain(r) PROVE Quiet
  BY <1>1, FrontRowsQuiet, TellsNothing
     DEF Quiet, Reserve, TakeOver, ReserveAgain, BecomeOwner, AnswerWith, Steps
<1>2. ASSUME NEW r \in Requests, Script(r) \/ Store(r) \/ Crash(r) PROVE Quiet
  BY <1>2 DEF Quiet, RespOf, Script, Store, Crash
<1>3. ASSUME NEW r \in Requests, Resend(r) PROVE Quiet
  BY <1>3, TellsNothing DEF Quiet, RespOf, Resend, NoReply
<1>4. ASSUME NEW r \in Requests, LedgerFailure(r) PROVE FALSE
  BY <1>4 DEF RowsStand, LedgerFailure, ReserveFails, FindFails, TakeOverFails,
              ReserveAgainFails, SettleFails
<1>5. ASSUME NEW k \in Keys, GrowStale(k) \/ GrowExpired(k) \/ Cleanup(k) PROVE Quiet
  <2>1. ~GrowExpired(k)
    BY DEF RowsStand, GrowExpired
  <2>2. ~Cleanup(k)
    BY DEF Cleanup, ClosedInv, NoneExpired
  <2> QED BY <1>5, <2>1, <2>2, ClockQuiet
<1>6. ASSUME UNCHANGED vars PROVE Quiet
  BY <1>6 DEF vars, Quiet, RespOf
<1> QED
  BY <1>1, <1>2, <1>3, <1>4, <1>5, <1>6, FindTells, SettleGives DEF Next, Work

(* Where the ledger's rows stand, the routes that fail closed give each    *)
(* key one response, once, and tell every copy's client of that one,       *)
(* though a late failure may hide from a client what was stored.           *)
THEOREM ImplementsSubmitOnce ==
  ASSUME RowsStand
  PROVE  Spec /\ ClosedRoutes => SubmitsOnce
<1>1. Init => Once!Init
  BY DEF Init, Submissions, Key, NoReply, Once!Init
<1>2. ClosedInv /\ [Next]_vars => [Once!Next]_(Once!vars)
  BY OnceStep, QuietStutters DEF Once!Next
<1> QED BY ClosedInvHolds, <1>1, <1>2, PTL DEF Spec, SubmitsOnce, Once!Spec

(* Two clients that are told of a response of one submission are told of   *)
(* the same one, whichever copy was stored and whoever died meanwhile.     *)
ToldAlike ==
  \A r, s \in Requests :
    (SameKey(r, s) /\ reply[r].id # None /\ reply[s].id # None) => reply[r].id = reply[s].id

(* Whoever was told of a response was told of the one its key keeps.       *)
ToldIsKept == \A r \in Requests : reply[r].id # None => reply[r].id = RespOf(Key(r))

(* A step of SubmitOnce never changes a response that a key was given.     *)
LEMMA ToldIsKeptNext ==
  ASSUME ToldIsKept, TypeOK, Quiet \/ \E r \in Requests : Once!Give(r) \/ Once!Tell(r)
  PROVE  ToldIsKept'
<1>t. \A r \in Requests : Key(r) \in Keys
  BY DEF TypeOK, Submissions, Key
<1>1. CASE Quiet
  BY <1>1, <1>t DEF Quiet, ToldIsKept, Key
<1>2. ASSUME NEW r \in Requests, NEW resp,
             \/ RespOf(Key(r)) = None /\ resp = r
             \/ RespOf(Key(r)) # None /\ resp = RespOf(Key(r)),
             \A q \in Requests : Key(q)' = Key(q),
             \A k \in Keys : RespOf(k)' = IF k = Key(r) THEN resp ELSE RespOf(k),
             \A q \in Requests : reply'[q].id = IF q = r THEN resp ELSE reply[q].id
      PROVE  ToldIsKept'
  <2>1. \A q \in Requests :
          RespOf(Key(q))' = IF Key(q) = Key(r) THEN resp ELSE RespOf(Key(q))
    BY <1>2, <1>t DEF RespOf
  <2>2. \A q \in Requests : reply'[q].id # None => reply'[q].id = RespOf(Key(q))'
    BY <1>2, <2>1 DEF ToldIsKept
  <2> QED BY <2>2 DEF ToldIsKept
<1> DEFINE key == [q \in Requests |-> Key(q)]
           result == [k \in Keys |-> RespOf(k)]
           told == [q \in Requests |-> reply[q].id]
<1>f. /\ \A q \in Requests : key[q] = Key(q) /\ key'[q] = Key(q)'
      /\ \A k \in Keys : result[k] = RespOf(k) /\ result'[k] = RespOf(k)'
      /\ \A q \in Requests : told[q] = reply[q].id /\ told'[q] = reply'[q].id
  OBVIOUS
<1>3. ASSUME NEW r \in Requests, Once!Give(r) PROVE ToldIsKept'
  <2>1. /\ result[key[r]] = None /\ key' = key
        /\ result' = [result EXCEPT ![key[r]] = r] /\ told' = [told EXCEPT ![r] = r]
    BY <1>3 DEF Once!Give, RespOf
  <2>2. \A k \in Keys : result'[k] = IF k = key[r] THEN r ELSE result[k]
    BY <2>1
  <2>3. \A q \in Requests : told'[q] = IF q = r THEN r ELSE told[q]
    BY <2>1
  <2> HIDE DEF key, result, told
  <2> QED BY <1>t, <1>f, <1>2, <2>1, <2>2, <2>3
<1>4. ASSUME NEW r \in Requests, Once!Tell(r) PROVE ToldIsKept'
  <2>1. /\ result[key[r]] # None /\ key' = key /\ result' = result
        /\ told' = [told EXCEPT ![r] = result[key[r]]]
    BY <1>4 DEF Once!Tell, RespOf
  <2>2. \A q \in Requests : told'[q] = IF q = r THEN result[key[r]] ELSE told[q]
    BY <2>1
  <2> HIDE DEF key, result, told
  <2> QED BY <1>t, <1>f, <1>2, <2>1, <2>2
<1> QED BY <1>1, <1>3, <1>4

(* Two callers of one key who are both told the outcome are told the same: *)
(* the second hears the stored reply, never an outcome of its own          *)
(* (replayResponse, finalize).                                             *)
THEOREM ToldAlikeHolds ==
  ASSUME RowsStand
  PROVE  Spec /\ ClosedRoutes => []ToldAlike
<1>1. Init => ToldIsKept
  BY DEF Init, ToldIsKept, NoReply
<1>2. ClosedInv /\ ToldIsKept /\ [Next]_vars => ToldIsKept'
  BY OnceStep, ToldIsKeptNext DEF ClosedInv, WorkInv, LedgerInv
<1>3. ToldIsKept => ToldAlike
  BY DEF ToldIsKept, ToldAlike, SameKey
<1> QED BY ClosedInvHolds, <1>1, <1>2, <1>3, PTL DEF Spec
=============================================================================
