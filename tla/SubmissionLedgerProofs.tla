----------------------- MODULE SubmissionLedgerProofs -----------------------
(***************************************************************************)
(* Theorems about SubmissionLedger, for any number of requests, keys and   *)
(* payloads, under every hazard.  SubmissionOnceProofs goes on with the    *)
(* routes that fail closed.                                                *)
(***************************************************************************)
EXTENDS SubmissionLedger, TLAPS

-----------------------------------------------------------------------------
(* Type correctness.                                                       *)

(* A submission starts with a well-typed state.                            *)
LEMMA TypeInit == Init => TypeOK
  BY NoneAssumption DEF Init, TypeOK, NoReply, Replies, Outcomes, Steps, Rows

(* Every step keeps every variable in its set.                             *)
LEMMA TypeNext == TypeOK /\ [Next]_vars => TypeOK'
<1> SUFFICES ASSUME TypeOK, [Next]_vars PROVE TypeOK'
  OBVIOUS
<1> USE DEF TypeOK, Key
<1>a. \A r \in Requests : sub[r] \in Submissions /\ Key(r) \in Keys
  BY DEF Submissions
<1>b. Rows = [lease: Requests, hash: Payloads, resp: Requests \cup {None},
              status: {"pending", "completed", "script_ran"}, age: Ages]
  BY DEF Rows
<1>w. ASSUME NEW r \in Requests, WriteRow(r)
      PROVE  ledger' \in [Keys -> Rows \cup {None}]
  <2>1. sub[r].hash \in Payloads
    BY <1>a DEF Submissions
  <2>2. [lease |-> r, hash |-> sub[r].hash, resp |-> None,
         status |-> "pending", age |-> "young"] \in Rows
    BY <2>1 DEF Rows, Ages
  <2> QED BY <1>w, <1>a, <2>2 DEF WriteRow
<1>d. ASSUME NEW k \in Keys, DropRow(k)
      PROVE  ledger' \in [Keys -> Rows \cup {None}]
  BY <1>d DEF DropRow
<1>an. ASSUME NEW r \in Requests, NEW kind, NEW id,
              kind \in {"created", "replayed", "conflict", "processing",
                        "script_ran", "retry", "refused", "none"},
              id \in Requests \cup {None}, AnswerWith(r, kind, id)
       PROVE  /\ pc' \in [Requests -> Steps \cup {"done", "dead"}]
              /\ reply' \in [Requests -> Replies]
  BY <1>an DEF AnswerWith, Goto, Replies, Steps
<1>u. ASSUME NEW r \in Requests, Unprotected(r)
      PROVE  /\ pc' \in [Requests -> Steps \cup {"done", "dead"}]
             /\ reply' \in [Requests -> Replies]
             /\ owns' \subseteq Requests
  <2>1. CASE sub[r].route \in FailsClosed
    BY <1>u, <2>1, <1>an DEF Unprotected
  <2>2. CASE sub[r].route \notin FailsClosed
    BY <1>u, <2>2 DEF Unprotected, Goto, Steps
  <2> QED BY <2>1, <2>2
<1>o. ASSUME NEW r \in Requests, BecomeOwner(r)
      PROVE  /\ pc' \in [Requests -> Steps \cup {"done", "dead"}]
             /\ reply' \in [Requests -> Replies]
             /\ owns' \subseteq Requests
  BY <1>o DEF BecomeOwner, Goto, Steps
<1>1. ASSUME NEW r \in Requests, Reserve(r) PROVE TypeOK'
  BY <1>1, <1>w, <1>o DEF Reserve, Goto, Steps, pipelineVars
<1>2. ASSUME NEW r \in Requests, ReserveFails(r) PROVE TypeOK'
  BY <1>2, <1>w, <1>u DEF ReserveFails, pipelineVars
<1>3. ASSUME NEW r \in Requests, Find(r) PROVE TypeOK'
  <2>1. CASE ledger[Key(r)] # None
    <3>1. ledger[Key(r)].resp \in Requests \cup {None}
      BY <2>1, <1>a, <1>b
    <3>2. FoundRow(r, ledger[Key(r)]) /\ UNCHANGED owns
      BY <1>3, <2>1 DEF Find
    <3>3. /\ pc' \in [Requests -> Steps \cup {"done", "dead"}]
          /\ reply' \in [Requests -> Replies]
      BY <3>1, <3>2, <1>an DEF FoundRow, Goto, Steps
    <3> QED BY <1>3, <3>2, <3>3 DEF Find, pipelineVars
  <2>2. CASE ledger[Key(r)] = None
    BY <1>3, <2>2, <1>u DEF Find, pipelineVars
  <2> QED BY <2>1, <2>2
<1>4. ASSUME NEW r \in Requests, FindFails(r) PROVE TypeOK'
  BY <1>4, <1>u DEF FindFails, pipelineVars
<1>5. ASSUME NEW r \in Requests, TakeOver(r) PROVE TypeOK'
  BY <1>5, <1>a, <1>d, <1>an DEF TakeOver, Goto, Steps, pipelineVars
<1>6. ASSUME NEW r \in Requests, TakeOverFails(r) PROVE TypeOK'
  BY <1>6, <1>a, <1>d, <1>an DEF TakeOverFails, pipelineVars
<1>7. ASSUME NEW r \in Requests, ReserveAgain(r) PROVE TypeOK'
  BY <1>7, <1>w, <1>o, <1>an DEF ReserveAgain, pipelineVars
<1>8. ASSUME NEW r \in Requests, ReserveAgainFails(r) PROVE TypeOK'
  BY <1>8, <1>w, <1>an DEF ReserveAgainFails, pipelineVars
<1>9. ASSUME NEW r \in Requests, Script(r) PROVE TypeOK'
  BY <1>9 DEF Script, Goto, Steps, Outcomes
<1>10. ASSUME NEW r \in Requests, Store(r) PROVE TypeOK'
  BY <1>10 DEF Store, StoreOutcome, Goto, Steps, Outcomes
<1>11. ASSUME NEW r \in Requests, pc[r] = "settle", PipelineAnswer(r)
       PROVE  /\ pc' \in [Requests -> Steps \cup {"done", "dead"}]
              /\ reply' \in [Requests -> Replies]
  BY <1>11, <1>an DEF PipelineAnswer, Outcomes
<1>12. ASSUME NEW r \in Requests, Settle(r) PROVE TypeOK'
  <2>1. ledger' \in [Keys -> Rows \cup {None}]
    <3>1. CASE r \in owns /\ OwnRow(r)
      <4>1. ledger[Key(r)] \in Rows
        BY <3>1, <1>a DEF OwnRow
      <4>2. SettleRow(r)
        BY <1>12, <3>1 DEF Settle
      <4>3. [ledger[Key(r)] EXCEPT !.resp = r, !.status = "completed"] \in Rows
        BY <4>1, <1>b
      <4>4. [ledger[Key(r)] EXCEPT !.status = "script_ran"] \in Rows
        BY <4>1, <1>b
      <4>5. outcome[r] \in Outcomes
        OBVIOUS
      <4>6. CASE outcome[r] = "created"
        BY <4>2, <4>3, <4>6, <1>a DEF SettleRow
      <4>7. CASE outcome[r] = "script_ran"
        BY <4>2, <4>4, <4>7, <1>a DEF SettleRow
      <4>8. CASE outcome[r] = "refused"
        BY <4>2, <4>8, <1>a, <1>d DEF SettleRow
      <4>9. outcome[r] # "none"
        BY <4>2 DEF SettleRow
      <4> QED BY <4>5, <4>6, <4>7, <4>8, <4>9 DEF Outcomes
    <3> QED BY <1>12, <3>1 DEF Settle
  <2> QED BY <1>12, <2>1, <1>11 DEF Settle, pipelineVars
<1>13. ASSUME NEW r \in Requests, SettleFails(r) PROVE TypeOK'
  BY <1>13, <1>11 DEF SettleFails, pipelineVars
<1>14. ASSUME NEW r \in Requests, Resend(r) PROVE TypeOK'
  BY <1>14 DEF Resend, Goto, Steps, NoReply, Replies, pipelineVars
<1>15. ASSUME NEW r \in Requests, Crash(r) PROVE TypeOK'
  BY <1>15 DEF Crash, Goto, pipelineVars
<1>16. ASSUME NEW k \in Keys, NEW a \in Ages, ledger[k] # None,
              ledger' = [ledger EXCEPT ![k].age = a]
       PROVE  ledger' \in [Keys -> Rows \cup {None}]
  <2>1. ledger[k] \in Rows
    BY <1>16
  <2>2. [ledger[k] EXCEPT !.age = a] \in Rows
    BY <2>1, <1>16, <1>b
  <2> QED BY <1>16, <2>2
<1>17. ASSUME NEW k \in Keys, GrowStale(k) PROVE TypeOK'
  BY <1>17, <1>16 DEF GrowStale, pipelineVars, Ages
<1>18. ASSUME NEW k \in Keys, GrowExpired(k) PROVE TypeOK'
  BY <1>18, <1>16 DEF GrowExpired, pipelineVars, Ages
<1>19. ASSUME NEW k \in Keys, Cleanup(k) PROVE TypeOK'
  BY <1>19, <1>d DEF Cleanup, pipelineVars
<1>20. CASE UNCHANGED vars
  BY <1>20 DEF vars, pipelineVars
<1> QED
  BY <1>1, <1>2, <1>3, <1>4, <1>5, <1>6, <1>7, <1>8, <1>9, <1>10, <1>12, <1>13,
     <1>14, <1>15, <1>17, <1>18, <1>19, <1>20 DEF Next, Work, LedgerFailure

(* Every variable keeps its type: a row is only ever written whole and     *)
(* every request stays at a step the code has.                             *)
THEOREM TypeCorrect == Spec => []TypeOK
<1>1. TypeOK /\ [Next]_vars => TypeOK'
  BY TypeNext
<1> QED BY TypeInit, <1>1, PTL DEF Spec

-----------------------------------------------------------------------------
(* What the ledger's rows and a request's own state say of each other,     *)
(* under every hazard.                                                     *)

Settled == {"created", "script_ran"}

(* A row that is no longer pending was settled by its lease, which is done *)
(* and will not be sent again.                                             *)
LeaseInv ==
  \A k \in Keys :
    (ledger[k] # None /\ ledger[k].status # "pending") =>
      pc[ledger[k].lease] = "done" /\ reply[ledger[k].lease].kind \in Settled

(* A request has accepted nothing until its pipeline says so, and settles  *)
(* what its pipeline did.                                                  *)
RequestInv ==
  \A r \in Requests :
    /\ pc[r] \in Steps \ {"settle"} => r \notin Accepted
    /\ pc[r] \in Steps => reply[r].kind = "none"
    /\ reply[r].kind \in {"processing", "retry"} => r \notin Accepted
    /\ pc[r] = "settle" => outcome[r] # "none"
    /\ (pc[r] = "settle" /\ outcome[r] = "created") => r \in Accepted
    /\ (pc[r] = "settle" /\ outcome[r] = "script_ran") => r \in acted \ Accepted

LedgerInv ==
  TypeOK /\ CompletedByItsLease /\ LeaseInv /\ RequestInv /\ ReplayNamesAnAcceptedTwin

(* The invariant holds before the first request reserves anything.         *)
LEMMA LedgerInit == Init => LedgerInv
<1> SUFFICES ASSUME Init PROVE LedgerInv
  OBVIOUS
<1>1. TypeOK
  BY TypeInit
<1>2. CompletedByItsLease /\ LeaseInv
  BY DEF Init, CompletedByItsLease, LeaseInv
<1>3. RequestInv /\ ReplayNamesAnAcceptedTwin
  BY DEF Init, RequestInv, ReplayNamesAnAcceptedTwin, Accepted, NoReply, Steps
<1> QED BY <1>1, <1>2, <1>3 DEF LedgerInv

(* What a step may do to the rows without looking at the pipeline: a row   *)
(* stays, goes, ages, or is written afresh by a request.                   *)
RowMoves(k) ==
  \/ ledger'[k] = ledger[k]
  \/ ledger'[k] = None
  \/ /\ ledger[k] # None
     /\ ledger'[k] # None
     /\ ledger'[k].lease = ledger[k].lease
     /\ ledger'[k].hash = ledger[k].hash
     /\ ledger'[k].resp = ledger[k].resp
     /\ ledger'[k].status = ledger[k].status
  \/ /\ ledger'[k] # None
     /\ Key(ledger'[k].lease) = k
     /\ ledger'[k].hash = sub[ledger'[k].lease].hash
     /\ ledger'[k].resp = None
     /\ ledger'[k].status = "pending"

(* Rows that only move that way keep their meaning, as long as no settled  *)
(* lease is disturbed.                                                     *)
LEMMA RowsKeep ==
  ASSUME LedgerInv, UNCHANGED sub,
         \A k \in Keys : RowMoves(k),
         acted \subseteq acted', Accepted \subseteq Accepted',
         \A r \in Requests :
           (pc[r] = "done" /\ reply[r].kind \in Settled) =>
             /\ pc'[r] = "done" /\ reply'[r].kind \in Settled
             /\ r \in Accepted' => r \in Accepted
  PROVE  CompletedByItsLease' /\ LeaseInv'
<1>1. \A k \in Keys : ledger[k] # None => ledger[k].lease \in Requests
  BY DEF LedgerInv, TypeOK, Rows
<1> SUFFICES ASSUME NEW k \in Keys, ledger'[k] # None
             PROVE  /\ Key(ledger[k].lease)' = k
                    /\ ledger'[k].hash = sub'[ledger'[k].lease].hash
                    /\ ledger'[k].resp # None <=> ledger'[k].status = "completed"
                    /\ ledger'[k].status = "completed" =>
                         ledger'[k].resp = ledger'[k].lease /\ ledger'[k].lease \in Accepted'
                    /\ ledger'[k].status = "script_ran" => ledger'[k].lease \in acted' \ Accepted'
                    /\ ledger'[k].status # "pending" =>
                         /\ pc'[ledger'[k].lease] = "done"
                         /\ reply'[ledger'[k].lease].kind \in Settled
  BY DEF CompletedByItsLease, LeaseInv
<1>2. CASE /\ ledger'[k] # None
           /\ Key(ledger'[k].lease) = k
           /\ ledger'[k].hash = sub[ledger'[k].lease].hash
           /\ ledger'[k].resp = None
           /\ ledger'[k].status = "pending"
  BY <1>2 DEF Key
<1>3. CASE /\ ledger[k] # None
           /\ ledger'[k].lease = ledger[k].lease
           /\ ledger'[k].hash = ledger[k].hash
           /\ ledger'[k].resp = ledger[k].resp
           /\ ledger'[k].status = ledger[k].status
  <2>1. ledger[k].lease \in Requests
    BY <1>1, <1>3
  <2> QED BY <1>3, <2>1 DEF LedgerInv, CompletedByItsLease, LeaseInv, Key
<1>4. CASE ledger'[k] = ledger[k]
  BY <1>3, <1>4
<1> QED BY <1>2, <1>3, <1>4 DEF RowMoves

(* The INSERT of reserve() writes a fresh pending row and touches no other. *)
LEMMA WriteRowMoves ==
  ASSUME TypeOK, NEW r \in Requests, WriteRow(r)
  PROVE  \A k \in Keys : RowMoves(k)
<1>1. Key(r) \in Keys
  BY DEF TypeOK, Submissions, Key
<1>2. ledger'[Key(r)] = [lease |-> r, hash |-> sub[r].hash, resp |-> None,
                         status |-> "pending", age |-> "young"]
  BY <1>1 DEF WriteRow, TypeOK
<1>3. \A k \in Keys : k # Key(r) => ledger'[k] = ledger[k]
  BY <1>1 DEF WriteRow, TypeOK
<1>4. Key(ledger'[Key(r)].lease) = Key(r)
  BY <1>2
<1>5. ledger'[Key(r)] # None
  <2>1. sub[r].hash \in Payloads
    BY DEF TypeOK, Submissions
  <2>2. ledger'[Key(r)] \in Rows
    BY <1>2, <2>1 DEF Rows, Ages
  <2> QED BY <2>2, NoRowAssumption
<1> QED BY <1>2, <1>3, <1>4, <1>5 DEF RowMoves

(* Steps that answer or move on without touching what the pipeline did.    *)
LEMMA FrontSteps ==
  ASSUME LedgerInv, NEW r \in Requests,
         UNCHANGED <<sub, pipelineVars>>,
         \A k \in Keys : RowMoves(k),
         pc[r] \in Steps \ {"settle"},
         \/ /\ pc' = [pc EXCEPT ![r] = "done"]
            /\ \E kind \in {"conflict", "processing", "script_ran", "retry"} :
                 reply' = [reply EXCEPT ![r] = [kind |-> kind, id |-> None]]
         \/ /\ \E step \in Steps \ {"settle"} : pc' = [pc EXCEPT ![r] = step]
            /\ reply' = reply
  PROVE  CompletedByItsLease' /\ LeaseInv' /\ RequestInv' /\ ReplayNamesAnAcceptedTwin'
<1> USE DEF pipelineVars, Accepted
<1>1. CompletedByItsLease' /\ LeaseInv'
  <2>1. \A q \in Requests : (pc[q] = "done" /\ reply[q].kind \in Settled) =>
             /\ pc'[q] = "done" /\ reply'[q].kind \in Settled
             /\ q \in Accepted' => q \in Accepted
    BY DEF LedgerInv, TypeOK, Steps
  <2>2. acted \subseteq acted' /\ Accepted \subseteq Accepted'
    OBVIOUS
  <2> QED BY <2>1, <2>2, RowsKeep
<1>2. RequestInv'
  BY DEF LedgerInv, TypeOK, RequestInv, Steps
<1>3. ReplayNamesAnAcceptedTwin'
  BY DEF LedgerInv, TypeOK, ReplayNamesAnAcceptedTwin, SameKey, Key, Steps
<1> QED BY <1>1, <1>2, <1>3

(* A step that leaves the table alone moves no row.                        *)
LEMMA RowsStay ==
  ASSUME UNCHANGED ledger PROVE \A k \in Keys : RowMoves(k)
  BY DEF RowMoves

(* A DELETE removes its own key's row only.                                *)
LEMMA DropRowMoves ==
  ASSUME TypeOK, NEW d \in Keys, DropRow(d) PROVE \A k \in Keys : RowMoves(k)
  BY DEF RowMoves, DropRow, TypeOK

(* The clock changes a row's age and nothing else of it.                   *)
LEMMA AgeRowMoves ==
  ASSUME TypeOK, NEW d \in Keys, NEW a \in Ages, ledger[d] # None,
         ledger' = [ledger EXCEPT ![d].age = a]
  PROVE  \A k \in Keys : RowMoves(k)
<1>1. ledger[d] \in Rows
  BY DEF TypeOK
<1>2. ledger'[d] = [ledger[d] EXCEPT !.age = a]
  BY DEF TypeOK
<1>3. ledger'[d] \in Rows
  BY <1>1, <1>2 DEF Rows
<1>4. /\ ledger'[d].lease = ledger[d].lease
      /\ ledger'[d].hash = ledger[d].hash
      /\ ledger'[d].resp = ledger[d].resp
      /\ ledger'[d].status = ledger[d].status
  BY <1>1, <1>2 DEF Rows
<1>5. \A k \in Keys : k # d => ledger'[k] = ledger[k]
  BY DEF TypeOK
<1> QED BY <1>3, <1>4, <1>5, NoRowAssumption DEF RowMoves

(* Every step preserves the invariant: one step of the proof per action.   *)
LEMMA LedgerNext == LedgerInv /\ [Next]_vars => LedgerInv'
<1> SUFFICES ASSUME LedgerInv, [Next]_vars
             PROVE  /\ CompletedByItsLease' /\ LeaseInv'
                    /\ RequestInv' /\ ReplayNamesAnAcceptedTwin'
  BY TypeNext DEF LedgerInv
<1> DEFINE Goal == /\ CompletedByItsLease' /\ LeaseInv'
                   /\ RequestInv' /\ ReplayNamesAnAcceptedTwin'
<1>t. TypeOK
  BY DEF LedgerInv
<1>k. \A r \in Requests : Key(r) \in Keys
  BY <1>t DEF TypeOK, Submissions, Key
<1>u. ASSUME NEW r \in Requests, Unprotected(r)
      PROVE  \/ /\ pc' = [pc EXCEPT ![r] = "done"]
                /\ \E kind \in {"conflict", "processing", "script_ran", "retry"} :
                     reply' = [reply EXCEPT ![r] = [kind |-> kind, id |-> None]]
             \/ /\ \E step \in Steps \ {"settle"} : pc' = [pc EXCEPT ![r] = step]
                /\ reply' = reply
  <2>1. CASE sub[r].route \in FailsClosed
    BY <1>u, <2>1 DEF Unprotected, AnswerWith, Goto
  <2>2. CASE sub[r].route \notin FailsClosed
    BY <1>u, <2>2 DEF Unprotected, Goto, Steps
  <2> QED BY <2>1, <2>2
<1>1. ASSUME NEW r \in Requests, Reserve(r) PROVE Goal
  <2>1. \A k \in Keys : RowMoves(k)
    BY <1>1, <1>t, WriteRowMoves, RowsStay DEF Reserve
  <2> QED BY <1>1, <2>1, FrontSteps DEF Reserve, BecomeOwner, Goto, Steps
<1>2. ASSUME NEW r \in Requests, ReserveFails(r) PROVE Goal
  <2>1. \A k \in Keys : RowMoves(k)
    BY <1>2, <1>t, WriteRowMoves, RowsStay DEF ReserveFails
  <2> QED BY <1>2, <1>u, <2>1, FrontSteps DEF ReserveFails, Steps
<1>3. ASSUME NEW r \in Requests, Find(r) PROVE Goal
  <2>1. \A k \in Keys : RowMoves(k)
    BY <1>3, RowsStay DEF Find
  <2>2. CASE ledger[Key(r)] = None
    BY <1>3, <2>1, <2>2, <1>u, FrontSteps DEF Find, Steps
  <2>3. CASE ledger[Key(r)] # None
    <3>1. FoundRow(r, ledger[Key(r)]) /\ pc[r] = "find" /\ UNCHANGED <<sub, pipelineVars>>
      BY <1>3, <2>3 DEF Find
    <3>2. CASE AnswerWith(r, "conflict", None)
      BY <2>1, <3>1, <3>2, FrontSteps DEF AnswerWith, Goto, Steps
    <3>3. CASE AnswerWith(r, "script_ran", None)
      BY <2>1, <3>1, <3>3, FrontSteps DEF AnswerWith, Goto, Steps
    <3>4. CASE Goto(r, "takeOver") /\ UNCHANGED reply
      BY <2>1, <3>1, <3>4, FrontSteps DEF Goto, Steps
    <3>5. CASE /\ ledger[Key(r)].hash = sub[r].hash
               /\ ledger[Key(r)].resp # None
               /\ AnswerWith(r, "replayed", ledger[Key(r)].resp)
      <4> DEFINE id == ledger[Key(r)].resp
      <4>1. /\ id = ledger[Key(r)].lease
            /\ id \in Accepted
            /\ Key(id) = Key(r)
            /\ sub[id].hash = sub[r].hash
            /\ pc[id] = "done"
        BY <2>3, <3>5, <1>k DEF LedgerInv, CompletedByItsLease, LeaseInv
      <4>2. id \in Requests /\ id # r
        BY <4>1, <3>1, <1>t DEF Accepted, TypeOK
      <4>3. /\ pc' = [pc EXCEPT ![r] = "done"]
            /\ reply' = [reply EXCEPT ![r] = [kind |-> "replayed", id |-> id]]
        BY <3>5 DEF AnswerWith, Goto
      <4>4. Accepted' = Accepted /\ sub' = sub /\ acted' = acted /\ outcome' = outcome
        BY <3>1 DEF pipelineVars, Accepted
      <4>5. CompletedByItsLease' /\ LeaseInv'
        <5>1. \A q \in Requests : (pc[q] = "done" /\ reply[q].kind \in Settled) =>
                 /\ pc'[q] = "done" /\ reply'[q].kind \in Settled
                 /\ q \in Accepted' => q \in Accepted
          BY <3>1, <4>3, <4>4, <1>t DEF TypeOK
        <5> QED BY <2>1, <4>4, <5>1, RowsKeep
      <4>6. RequestInv'
        BY <3>1, <4>3, <4>4, <1>t DEF LedgerInv, RequestInv, TypeOK, Steps
      <4>7. ReplayNamesAnAcceptedTwin'
        BY <4>1, <4>2, <4>3, <4>4, <1>t
           DEF LedgerInv, ReplayNamesAnAcceptedTwin, SameKey, Key, TypeOK
      <4> QED BY <4>5, <4>6, <4>7
    <3> QED BY <3>1, <3>2, <3>3, <3>4, <3>5 DEF FoundRow
  <2> QED BY <2>2, <2>3
<1>4. ASSUME NEW r \in Requests, FindFails(r) PROVE Goal
  BY <1>4, <1>u, RowsStay, FrontSteps DEF FindFails, Steps
<1>5. ASSUME NEW r \in Requests, TakeOver(r) PROVE Goal
  <2>1. \A k \in Keys : RowMoves(k)
    BY <1>5, <1>t, <1>k, DropRowMoves, RowsStay DEF TakeOver
  <2> QED BY <1>5, <2>1, FrontSteps DEF TakeOver, AnswerWith, Goto, Steps
<1>6. ASSUME NEW r \in Requests, TakeOverFails(r) PROVE Goal
  <2>1. \A k \in Keys : RowMoves(k)
    BY <1>6, <1>t, <1>k, DropRowMoves, RowsStay DEF TakeOverFails
  <2> QED BY <1>6, <2>1, FrontSteps DEF TakeOverFails, AnswerWith, Goto, Steps
<1>7. ASSUME NEW r \in Requests, ReserveAgain(r) PROVE Goal
  <2>1. \A k \in Keys : RowMoves(k)
    BY <1>7, <1>t, WriteRowMoves, RowsStay DEF ReserveAgain
  <2> QED
    BY <1>7, <2>1, FrontSteps DEF ReserveAgain, BecomeOwner, AnswerWith, Goto, Steps
<1>8. ASSUME NEW r \in Requests, ReserveAgainFails(r) PROVE Goal
  <2>1. \A k \in Keys : RowMoves(k)
    BY <1>8, <1>t, WriteRowMoves, RowsStay DEF ReserveAgainFails
  <2> QED BY <1>8, <2>1, FrontSteps DEF ReserveAgainFails, AnswerWith, Goto, Steps
<1>s. ASSUME NEW r \in Requests, pc[r] # "done",
              UNCHANGED <<sub, reply>>,
              \E step \in Steps \cup {"dead"} : pc' = [pc EXCEPT ![r] = step],
              \A k \in Keys : RowMoves(k),
              acted \subseteq acted', Accepted \subseteq Accepted',
              Accepted' \subseteq Accepted \cup {r}
       PROVE  CompletedByItsLease' /\ LeaseInv'
  <2>1. \A q \in Requests : (pc[q] = "done" /\ reply[q].kind \in Settled) =>
           /\ pc'[q] = "done" /\ reply'[q].kind \in Settled
           /\ q \in Accepted' => q \in Accepted
    BY <1>s, <1>t DEF TypeOK
  <2> QED BY <1>s, <2>1, RowsKeep
<1>r. ASSUME NEW r \in Requests, UNCHANGED <<sub, reply>>, Accepted \subseteq Accepted'
      PROVE  ReplayNamesAnAcceptedTwin'
  BY <1>r DEF LedgerInv, ReplayNamesAnAcceptedTwin, SameKey, Key
<1>9. ASSUME NEW r \in Requests, Script(r) PROVE Goal
  <2>1. /\ pc[r] = "script" /\ UNCHANGED <<sub, ledger, owns, stored, reply>>
        /\ acted \subseteq acted' /\ optedOut \subseteq optedOut'
        /\ optedOut' \subseteq optedOut \cup {r}
        /\ pc' = [pc EXCEPT ![r] = "store"] \/ pc' = [pc EXCEPT ![r] = "settle"]
    BY <1>9 DEF Script, Goto
  <2>2. CompletedByItsLease' /\ LeaseInv'
    BY <2>1, <1>s, RowsStay DEF Accepted, Steps
  <2>3. ReplayNamesAnAcceptedTwin'
    BY <2>1, <1>r DEF Accepted
  <2>4. RequestInv'
    <3>1. \A q \in Requests : q # r => /\ pc'[q] = pc[q] /\ outcome'[q] = outcome[q]
                                       /\ q \in Accepted' <=> q \in Accepted
                                       /\ q \in acted' <=> q \in acted
                                       /\ reply'[q] = reply[q]
      BY <1>9, <2>1, <1>t DEF Script, TypeOK, Accepted
    <3>2. r \notin Accepted
      BY <2>1 DEF LedgerInv, RequestInv, Steps
    <3>3. /\ pc'[r] = "store" => r \notin Accepted'
          /\ pc'[r] = "store" \/ pc'[r] = "settle"
          /\ pc'[r] = "settle" =>
               \/ outcome'[r] = "created" /\ r \in Accepted'
               \/ outcome'[r] = "script_ran" /\ r \in acted' \ Accepted'
               \/ outcome'[r] = "refused" /\ r \notin Accepted'
      BY <1>9, <2>1, <3>2, <1>t DEF Script, Goto, TypeOK, Accepted
    <3>4. reply'[r].kind = "none"
      BY <2>1 DEF LedgerInv, RequestInv, Steps
    <3> QED BY <3>1, <3>3, <3>4 DEF LedgerInv, RequestInv, Steps
  <2> QED BY <2>2, <2>3, <2>4
<1>10. ASSUME NEW r \in Requests, Store(r) PROVE Goal
  <2>1. /\ pc[r] = "store" /\ UNCHANGED <<sub, ledger, owns, acted, optedOut, reply>>
        /\ stored \subseteq stored' /\ stored' \subseteq stored \cup {r}
        /\ pc' = [pc EXCEPT ![r] = "settle"]
    BY <1>10 DEF Store, Goto
  <2>2. CompletedByItsLease' /\ LeaseInv'
    BY <2>1, <1>s, RowsStay DEF Accepted, Steps
  <2>3. ReplayNamesAnAcceptedTwin'
    BY <2>1, <1>r DEF Accepted
  <2>4. RequestInv'
    <3>1. \A q \in Requests : q # r => /\ pc'[q] = pc[q] /\ outcome'[q] = outcome[q]
                                       /\ q \in Accepted' <=> q \in Accepted
                                       /\ q \in acted' <=> q \in acted
                                       /\ reply'[q] = reply[q]
      BY <1>10, <2>1, <1>t DEF Store, TypeOK, Accepted
    <3>2. r \notin Accepted /\ reply'[r].kind = "none"
      BY <2>1 DEF LedgerInv, RequestInv, Steps
    <3>3. /\ pc'[r] = "settle"
          /\ \/ outcome'[r] = "created" /\ r \in Accepted'
             \/ outcome'[r] = "script_ran" /\ r \in acted' \ Accepted'
             \/ outcome'[r] = "refused"
      BY <1>10, <2>1, <3>2, <1>t DEF Store, StoreOutcome, TypeOK, Accepted
    <3> QED BY <3>1, <3>2, <3>3 DEF LedgerInv, RequestInv, Steps
  <2> QED BY <2>2, <2>3, <2>4
<1>11. ASSUME NEW r \in Requests, pc[r] = "settle", PipelineAnswer(r),
              UNCHANGED <<sub, pipelineVars>>
       PROVE  /\ pc' = [pc EXCEPT ![r] = "done"]
              /\ reply'[r].kind = outcome[r]
              /\ \A q \in Requests : q # r => reply'[q] = reply[q]
              /\ Accepted' = Accepted /\ acted' = acted
              /\ RequestInv' /\ ReplayNamesAnAcceptedTwin'
  <2>1. /\ pc' = [pc EXCEPT ![r] = "done"]
        /\ reply' = [reply EXCEPT ![r] =
                       [kind |-> outcome[r],
                        id |-> IF outcome[r] = "created" THEN r ELSE None]]
    BY <1>11 DEF PipelineAnswer, AnswerWith, Goto
  <2>2. /\ reply'[r].kind = outcome[r]
        /\ \A q \in Requests : q # r => reply'[q] = reply[q]
    BY <2>1, <1>t DEF TypeOK
  <2>3. sub' = sub /\ Accepted' = Accepted /\ acted' = acted /\ outcome' = outcome
    BY <1>11 DEF pipelineVars, Accepted
  <2>4. outcome[r] \in {"created", "script_ran", "refused"}
    BY <1>11, <1>t DEF LedgerInv, RequestInv, TypeOK, Outcomes
  <2>5. RequestInv'
    BY <2>1, <2>2, <2>3, <2>4, <1>t DEF LedgerInv, RequestInv, TypeOK, Steps
  <2>6. ReplayNamesAnAcceptedTwin'
    BY <2>2, <2>3, <2>4 DEF LedgerInv, ReplayNamesAnAcceptedTwin, SameKey, Key
  <2> QED BY <2>1, <2>2, <2>3, <2>5, <2>6
<1>12. ASSUME NEW r \in Requests, pc[r] = "settle", PipelineAnswer(r),
              UNCHANGED <<sub, ledger, pipelineVars>>
       PROVE  CompletedByItsLease' /\ LeaseInv'
  <2>1. \A q \in Requests : (pc[q] = "done" /\ reply[q].kind \in Settled) =>
           /\ pc'[q] = "done" /\ reply'[q].kind \in Settled
           /\ q \in Accepted' => q \in Accepted
    BY <1>11, <1>12, <1>t DEF TypeOK
  <2> QED BY <1>11, <1>12, <2>1, RowsKeep, RowsStay
<1>13. ASSUME NEW r \in Requests, Settle(r) PROVE Goal
  <2>1. pc[r] = "settle" /\ PipelineAnswer(r) /\ UNCHANGED <<sub, pipelineVars>>
    BY <1>13 DEF Settle
  <2>2. CASE ~(r \in owns /\ OwnRow(r))
    <3>1. UNCHANGED ledger
      BY <1>13, <2>2 DEF Settle
    <3> QED BY <2>1, <3>1, <1>11, <1>12
  <2>3. CASE r \in owns /\ OwnRow(r)
    <3> DEFINE k == Key(r)
    <3>1. k \in Keys /\ ledger[k] \in Rows /\ ledger[k].lease = r /\ ledger[k].hash = sub[r].hash
      BY <2>3, <1>k, <1>t DEF OwnRow, TypeOK, LedgerInv, CompletedByItsLease
    <3>2. SettleRow(r)
      BY <1>13, <2>3 DEF Settle
    <3>3. \A l \in Keys : l # k => ledger'[l] = ledger[l]
      BY <3>1, <3>2, <1>t DEF SettleRow, DropRow, TypeOK
    <3>4. ledger'[k] # None =>
            /\ ledger'[k].lease = r /\ ledger'[k].hash = sub[r].hash
            /\ \/ /\ outcome[r] = "created"
                  /\ ledger'[k].resp = r /\ ledger'[k].status = "completed"
               \/ /\ outcome[r] = "script_ran"
                  /\ ledger'[k].resp = ledger[k].resp /\ ledger'[k].status = "script_ran"
      <4>1. CASE outcome[r] = "created"
        <5>1. ledger'[k] = [ledger[k] EXCEPT !.resp = r, !.status = "completed"]
          BY <3>1, <3>2, <4>1, <1>t DEF SettleRow, TypeOK
        <5> QED BY <3>1, <4>1, <5>1 DEF Rows
      <4>2. CASE outcome[r] = "script_ran"
        <5>1. ledger'[k] = [ledger[k] EXCEPT !.status = "script_ran"]
          BY <3>1, <3>2, <4>2, <1>t DEF SettleRow, TypeOK
        <5> QED BY <3>1, <4>2, <5>1 DEF Rows
      <4>3. CASE outcome[r] = "refused"
        BY <3>1, <3>2, <4>3, <1>t DEF SettleRow, DropRow, TypeOK
      <4> QED BY <3>2, <4>1, <4>2, <4>3 DEF SettleRow
    <3>5. ledger[k].resp = None
      BY <2>3, <3>1 DEF OwnRow, LedgerInv, CompletedByItsLease
    <3>6. (outcome[r] = "created" => r \in Accepted) /\ (outcome[r] = "script_ran" => r \in acted \ Accepted)
      BY <2>1 DEF LedgerInv, RequestInv
    <3>7. /\ pc' = [pc EXCEPT ![r] = "done"] /\ reply'[r].kind = outcome[r]
          /\ \A q \in Requests : q # r => reply'[q] = reply[q]
          /\ Accepted' = Accepted /\ acted' = acted /\ sub' = sub
          /\ RequestInv' /\ ReplayNamesAnAcceptedTwin'
      BY <2>1, <1>11
    <3>8. \A l \in Keys : l # k /\ ledger[l] # None => ledger[l].lease # r
      BY <3>1 DEF LedgerInv, CompletedByItsLease
    <3>9. \A l \in Keys : ledger[l] # None => ledger[l].lease \in Requests
      BY <1>t DEF TypeOK, Rows
    <3>10. CompletedByItsLease'
      <4> SUFFICES ASSUME NEW l \in Keys, ledger'[l] # None
                   PROVE  /\ Key(ledger[l].lease)' = l
                          /\ ledger'[l].hash = sub'[ledger'[l].lease].hash
                          /\ ledger'[l].resp # None <=> ledger'[l].status = "completed"
                          /\ ledger'[l].status = "completed" =>
                               ledger'[l].resp = ledger'[l].lease /\ ledger'[l].lease \in Accepted'
                          /\ ledger'[l].status = "script_ran" =>
                               ledger'[l].lease \in acted' \ Accepted'
        BY DEF CompletedByItsLease
      <4>1. CASE l # k
        BY <3>3, <3>7, <4>1 DEF LedgerInv, CompletedByItsLease, Key
      <4>2. CASE l = k
        BY <3>4, <3>5, <3>6, <3>7, <4>2, NoneAssumption DEF Key
      <4> QED BY <4>1, <4>2
    <3>11. LeaseInv'
      <4> SUFFICES ASSUME NEW l \in Keys, ledger'[l] # None, ledger'[l].status # "pending"
                   PROVE  pc'[ledger'[l].lease] = "done" /\ reply'[ledger'[l].lease].kind \in Settled
        BY DEF LeaseInv
      <4>1. CASE l # k
        BY <3>3, <3>7, <3>8, <3>9, <4>1, <1>t DEF LedgerInv, LeaseInv, TypeOK
      <4>2. CASE l = k
        BY <3>4, <3>7, <4>2, <1>t DEF Settled, TypeOK
      <4> QED BY <4>1, <4>2
    <3> QED BY <3>7, <3>10, <3>11
  <2> QED BY <2>2, <2>3
<1>14. ASSUME NEW r \in Requests, SettleFails(r) PROVE Goal
  BY <1>14, <1>11, <1>12 DEF SettleFails
<1>15. ASSUME NEW r \in Requests, Resend(r) PROVE Goal
  <2>1. /\ pc[r] = "done" /\ reply[r].kind \in {"processing", "retry"}
        /\ pc' = [pc EXCEPT ![r] = "reserve"]
        /\ reply' = [reply EXCEPT ![r] = NoReply]
        /\ UNCHANGED <<sub, ledger, owns, acted, stored, optedOut, outcome>>
    BY <1>15 DEF Resend, Goto, pipelineVars
  <2>2. \A q \in Requests : (pc[q] = "done" /\ reply[q].kind \in Settled) =>
           /\ pc'[q] = "done" /\ reply'[q].kind \in Settled
           /\ q \in Accepted' => q \in Accepted
    BY <2>1, <1>t DEF TypeOK, Settled, Accepted
  <2>3. CompletedByItsLease' /\ LeaseInv'
    BY <2>1, <2>2, RowsKeep, RowsStay DEF Accepted
  <2>4. RequestInv'
    BY <2>1, <1>t DEF LedgerInv, RequestInv, TypeOK, Steps, NoReply, Accepted
  <2>5. ReplayNamesAnAcceptedTwin'
    BY <2>1, <1>t DEF LedgerInv, ReplayNamesAnAcceptedTwin, TypeOK, NoReply, Accepted, SameKey, Key
  <2> QED BY <2>3, <2>4, <2>5
<1>16. ASSUME NEW r \in Requests, Crash(r) PROVE Goal
  <2>1. /\ pc[r] \in Steps /\ pc' = [pc EXCEPT ![r] = "dead"]
        /\ UNCHANGED <<sub, ledger, owns, acted, stored, optedOut, outcome, reply>>
    BY <1>16 DEF Crash, Goto, InFlight, pipelineVars
  <2>2. CompletedByItsLease' /\ LeaseInv'
    BY <2>1, <1>s, RowsStay DEF Accepted, Steps
  <2>3. ReplayNamesAnAcceptedTwin'
    BY <2>1, <1>r DEF Accepted
  <2>4. RequestInv'
    BY <2>1, <1>t DEF LedgerInv, RequestInv, TypeOK, Steps, Accepted
  <2> QED BY <2>2, <2>3, <2>4
<1>17. ASSUME NEW k \in Keys, GrowStale(k) \/ GrowExpired(k) \/ Cleanup(k) PROVE Goal
  <2>1. \A l \in Keys : RowMoves(l)
    BY <1>17, <1>t, AgeRowMoves, DropRowMoves DEF GrowStale, GrowExpired, Cleanup, Ages
  <2>2. UNCHANGED <<sub, pc, owns, acted, stored, optedOut, outcome, reply>>
    BY <1>17 DEF GrowStale, GrowExpired, Cleanup, pipelineVars
  <2>3. CompletedByItsLease' /\ LeaseInv'
    BY <2>1, <2>2, RowsKeep DEF Accepted
  <2>4. RequestInv' /\ ReplayNamesAnAcceptedTwin'
    BY <2>2 DEF LedgerInv, RequestInv, ReplayNamesAnAcceptedTwin, Accepted, SameKey, Key
  <2> QED BY <2>3, <2>4
<1>18. CASE UNCHANGED vars
  <2>1. CompletedByItsLease' /\ LeaseInv'
    BY <1>18, RowsStay, RowsKeep DEF vars, pipelineVars, Accepted
  <2>2. RequestInv' /\ ReplayNamesAnAcceptedTwin'
    BY <1>18 DEF vars, pipelineVars, LedgerInv, RequestInv, ReplayNamesAnAcceptedTwin,
                 Accepted, SameKey, Key
  <2> QED BY <2>1, <2>2
<1> QED
  BY <1>1, <1>2, <1>3, <1>4, <1>5, <1>6, <1>7, <1>8, <1>9, <1>10, <1>13, <1>14,
     <1>15, <1>16, <1>17, <1>18 DEF Next, Work, LedgerFailure

(* Under every hazard, a completed row names the response its own lease    *)
(* produced for the payload the row was reserved with.                     *)
THEOREM CompletedByItsLeaseHolds == Spec => []CompletedByItsLease
<1>1. LedgerInv => CompletedByItsLease
  BY DEF LedgerInv
<1> QED BY LedgerInit, LedgerNext, <1>1, PTL DEF Spec

(* Under every hazard, "already submitted" names an accepted response of   *)
(* the same key and the same payload.                                      *)
THEOREM ReplayNamesAnAcceptedTwinHolds == Spec => []ReplayNamesAnAcceptedTwin
<1>1. LedgerInv => ReplayNamesAnAcceptedTwin
  BY DEF LedgerInv
<1> QED BY LedgerInit, LedgerNext, <1>1, PTL DEF Spec

-----------------------------------------------------------------------------
(* What a step may do to a row that is still young.                        *)

YoungRowChanges(k) == ledger[k] # None /\ ledger[k].age = "young" /\ ledger'[k] # ledger[k]

SettledOrAged(k) ==
  \/ pc[ledger[k].lease] = "settle" /\ pc'[ledger[k].lease] = "done"
  \/ ledger'[k] = [ledger[k] EXCEPT !.age = "stale"]

(* An INSERT meets no row at its key, and leaves the other keys' alone.    *)
LEMMA InsertSparesRows ==
  ASSUME TypeOK, NEW r \in Requests, ledger[Key(r)] = None, WriteRow(r), NEW k \in Keys
  PROVE  ~YoungRowChanges(k)
<1>1. Key(r) \in Keys
  BY DEF TypeOK, Submissions, Key
<1> QED BY <1>1 DEF WriteRow, TypeOK, YoungRowChanges

(* A DELETE guarded by the row's age takes no young one.                   *)
LEMMA DropSparesYoung ==
  ASSUME TypeOK, NEW d \in Keys, ledger[d].age # "young", DropRow(d), NEW k \in Keys
  PROVE  ~YoungRowChanges(k)
  BY DEF DropRow, TypeOK, YoungRowChanges

(* No step of a copy or of the cleanup job changes a young row, but the    *)
(* settling of its own lease and the passing of time.                      *)
LEMMA YoungRowStep ==
  ASSUME LedgerInv, [Next]_vars, NEW k \in Keys, YoungRowChanges(k)
  PROVE  SettledOrAged(k)
<1>t. TypeOK /\ \A r \in Requests : Key(r) \in Keys
  BY DEF LedgerInv, TypeOK, Submissions, Key
<1>n. ledger' # ledger
  BY DEF YoungRowChanges
<1>1. ASSUME NEW r \in Requests, Reserve(r) \/ ReserveFails(r) PROVE FALSE
  BY <1>1, <1>t, <1>n, InsertSparesRows DEF Reserve, ReserveFails
<1>2. ASSUME NEW r \in Requests, Find(r) \/ FindFails(r) PROVE FALSE
  BY <1>2, <1>n DEF Find, FindFails
<1>3. ASSUME NEW r \in Requests, TakeOver(r) \/ TakeOverFails(r) PROVE FALSE
  BY <1>3, <1>t, <1>n, DropSparesYoung DEF TakeOver, TakeOverFails, Abandoned
<1>4. ASSUME NEW r \in Requests, ReserveAgain(r) \/ ReserveAgainFails(r) PROVE FALSE
  BY <1>4, <1>t, <1>n, InsertSparesRows DEF ReserveAgain, ReserveAgainFails
<1>5. ASSUME NEW r \in Requests, Script(r) \/ Store(r) \/ SettleFails(r) PROVE FALSE
  BY <1>5, <1>n DEF Script, Store, SettleFails
<1>6. ASSUME NEW r \in Requests, Settle(r) PROVE SettledOrAged(k)
  <2>1. OwnRow(r) /\ SettleRow(r) /\ pc[r] = "settle"
    BY <1>6, <1>n DEF Settle
  <2>2. \A l \in Keys : l # Key(r) => ledger'[l] = ledger[l]
    BY <2>1, <1>t DEF SettleRow, DropRow, TypeOK
  <2>3. k = Key(r)
    BY <2>2 DEF YoungRowChanges
  <2>4. ledger[k].lease = r /\ pc'[r] = "done"
    BY <1>6, <2>1, <2>3, <1>t DEF OwnRow, Settle, PipelineAnswer, AnswerWith, Goto, TypeOK
  <2> QED BY <2>1, <2>4 DEF SettledOrAged
<1>7. ASSUME NEW r \in Requests, Resend(r) \/ Crash(r) PROVE FALSE
  BY <1>7, <1>n DEF Resend, Crash
<1>8. ASSUME NEW l \in Keys, GrowStale(l) PROVE SettledOrAged(k)
  BY <1>8, <1>t DEF GrowStale, TypeOK, YoungRowChanges, SettledOrAged
<1>9. ASSUME NEW l \in Keys, GrowExpired(l) PROVE FALSE
  BY <1>9, <1>t DEF GrowExpired, TypeOK, YoungRowChanges
<1>10. ASSUME NEW l \in Keys, Cleanup(l) PROVE FALSE
  BY <1>10, <1>t, DropSparesYoung DEF Cleanup
<1>11. CASE UNCHANGED vars
  BY <1>11, <1>n DEF vars
<1> QED BY <1>1, <1>2, <1>3, <1>4, <1>5, <1>6, <1>7, <1>8, <1>9, <1>10, <1>11
        DEF Next, Work, LedgerFailure

(* Under every hazard, a row that is not abandoned yet is settled by its   *)
(* own lease and by nobody else: no late copy completes, holds or deletes  *)
(* it, and neither does the cleanup job.                                   *)
THEOREM RowOutlivesOthersHolds == Spec => RowOutlivesOthers
<1> DEFINE Outlives(k) == YoungRowChanges(k) => SettledOrAged(k)
<1>1. LedgerInv /\ [Next]_vars => [\A k \in Keys : Outlives(k)]_vars
  BY YoungRowStep
<1>2. RowOutlivesOthers <=> [][\A k \in Keys : Outlives(k)]_vars
  BY DEF RowOutlivesOthers, YoungRowChanges, SettledOrAged
<1> HIDE DEF Outlives
<1> QED BY LedgerInit, LedgerNext, <1>1, <1>2, PTL DEF Spec
=============================================================================
