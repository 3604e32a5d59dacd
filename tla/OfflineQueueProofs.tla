------------------------- MODULE OfflineQueueProofs -------------------------
(***************************************************************************)
(* Theorems about OfflineQueue, for any submissions, tabs, keys and        *)
(* attempts: its types, and that the device keeps the promise of Outbox    *)
(* when no form's script acts or a single tab is open.                     *)
(***************************************************************************)
EXTENDS OfflineQueue, TLAPS

-----------------------------------------------------------------------------
(* The invariant behind the promise.                                       *)

(* A submission the form still shows is nowhere else, and the form knows   *)
(* the last key made for it.                                               *)
FormInv ==
  \A s \in Subs : form[s] = "blank" =>
    ~Queued(s) /\ s \notin gone /\ key[s] = minted[s]

(* A request has a key that was made, comes from a client that is there,   *)
(* and what it knows of the key is so.                                     *)
CallInv ==
  \A c \in Clients : call[c] # Idle =>
    LET s == call[c].sub
        k == call[c].key
    IN /\ k <= minted[s]
       /\ c \in Subs => c = s /\ form[s] = "blank" /\ k = minted[s]
       /\ c \in Tabs => c \in open /\ form[s] = "done"
       /\ call[c].at = "held" => ledger[s][k] = "busy"
       /\ call[c].answer = "stored" => ledger[s][k] = "done"
       /\ call[c].answer = "scriptRan" => ledger[s][k] = "acted"

TodoInv == \A t \in Tabs : todo[t] # {} => t \in open

(* A key is worked on for one client.                                      *)
HeldInv ==
  \A c, d \in Clients :
    /\ call[c].at = "held" /\ call[d].at = "held"
    /\ call[c].sub = call[d].sub /\ call[c].key = call[d].key
    => c = d

(* A new key is made only once the script has acted under the last one, so *)
(* the last key alone can have stored the submission.                      *)
LedgerInv ==
  \A s \in Subs, k \in Keys :
    /\ k < minted[s] => ledger[s][k] = "acted"
    /\ k > minted[s] => ledger[s][k] = "none"
    /\ ledger[s][k] = "acted" => s \in scripted

RecordInv ==
  \A s \in Subs : records[s] = IF ledger[s][minted[s]] = "done" THEN 1 ELSE 0

RowInv ==
  \A s \in Subs : Queued(s) =>
    /\ row[s].key = minted[s]
    /\ row[s].failure = "script-ran" => ledger[s][minted[s]] = "acted"

CopyInv == \A p \in copies : p[2] <= minted[p[1]]

(* A row whose script may act is settled by the tab that has it out.       *)
PassInv ==
  \A t \in Tabs :
    LET s == call[t].sub IN
    call[t] # Idle /\ s \in scripted /\ Queued(s) =>
      row[s].status = "syncing" /\ call[t].key = minted[s]

IInv ==
  /\ TypeOK /\ Calm /\ FormInv /\ CallInv /\ TodoInv /\ HeldInv
  /\ LedgerInv /\ RecordInv /\ RowInv /\ CopyInv /\ PassInv

-----------------------------------------------------------------------------
(* Type correctness                                                        *)

LEMMA KeysAreNumbers ==
  /\ MaxAttempts \in Nat /\ LastKey \in Nat
  /\ \A n \in 0 .. MaxAttempts : OneMore(n) \in 0 .. MaxAttempts
  /\ \A k \in Keys : k \in Nat /\ (k < LastKey => k + 1 \in Keys)
  BY QueueAssumption DEF OneMore, Keys

LEMMA RowTypes ==
  /\ NoRow \in Row
  /\ \A k \in Keys : FreshRow(k) \in Row
<1>1. NoRow \in Row
  BY KeysAreNumbers DEF Row, NoRow, Keys, Statuses
<1>2. \A r \in Row, k \in Keys : [r EXCEPT !.status = "pending", !.key = k] \in Row
  BY DEF Row, Statuses
<1> QED
  BY <1>1, <1>2 DEF FreshRow

LEMMA CallTypes ==
  /\ Idle \in Call
  /\ \A s \in Subs, k \in Keys, n \in 0 .. MaxAttempts :
       Post(s, k, n) \in Call /\ Post(s, k, n) # Idle
  BY DEF Call, Out, Idle, Post

(* What is known of a request that is out.                                 *)
LEMMA CallIsOut ==
  ASSUME TypeOK, NEW c \in Clients, call[c].at # "idle"
  PROVE  /\ call[c] # Idle
         /\ call[c].at \in {"sent", "held", "answered"}
         /\ call[c].sub \in Subs /\ call[c].key \in Keys
         /\ call[c].attempts \in 0 .. MaxAttempts
         /\ call[c].answer \in Answers \cup {"-"}
         /\ call[c].at = "answered" <=> call[c].answer \in Answers
<1>1. call[c] \in Call
  BY DEF TypeOK
<1>2. call[c] # Idle
  BY DEF Idle
<1> QED
  BY <1>1, <1>2 DEF Call, Out, Answers

LEMMA AnsweredType ==
  ASSUME TypeOK, NEW c \in Clients, call[c].at # "idle", NEW a \in Answers
  PROVE  /\ Answered(c, a) \in Call
         /\ Answered(c, a).at = "answered" /\ Answered(c, a).answer = a
         /\ Answered(c, a).sub = call[c].sub /\ Answered(c, a).key = call[c].key
         /\ Answered(c, a).attempts = call[c].attempts
<1>1. call[c] \in Call \ {Idle}
  BY CallIsOut DEF TypeOK
<1> QED
  BY <1>1 DEF Call, Out, Answered

LEMMA SweptType ==
  ASSUME NEW r \in [Subs -> Row]
  PROVE  Swept(r) \in [Subs -> Row]
  BY RowTypes DEF Swept

LEMMA PatchedType ==
  ASSUME TypeOK, NEW s \in Subs, NEW n \in 0 .. MaxAttempts, NEW a \in Answers
  PROVE  Patched(s, n, a) \in Row
<1>1. row[s] \in Row /\ OneMore(n) \in 0 .. MaxAttempts
  BY KeysAreNumbers DEF TypeOK
<1>2. \A m \in 0 .. MaxAttempts : Waits(s, m) \in Row
  BY <1>1 DEF Waits, Row, Statuses
<1>3. \A m \in 0 .. MaxAttempts, f \in Failures : Fails(s, m, f) \in Row
  BY <1>1 DEF Fails, Row, Statuses
<1>4. \A m \in 0 .. MaxAttempts, f \in Failures : Tried(s, m, f) \in Row
  BY <1>2, <1>3 DEF Tried
<1>5. [row[s] EXCEPT !.status = "pending"] \in Row
  BY <1>1 DEF Row, Statuses
<1>6. Sent(s) \in Row
  BY RowTypes DEF Sent
<1> QED
  BY <1>1, <1>3, <1>4, <1>5, <1>6 DEF Patched, Failures

(* The end of the work on a key.                                           *)
LEMMA EndsType ==
  ASSUME TypeOK, NEW s \in Subs, NEW k \in Keys, NEW a \in Answers, Ends(s, k, a)
  PROVE  ledger' \in [Subs -> [Keys -> Entries]] /\ records' \in [Subs -> Nat]
<1>1. records' \in [Subs -> Nat]
  BY DEF Ends, TypeOK
<1>2. PICK e \in Entries : ledger' = [ledger EXCEPT ![s][k] = e]
  BY DEF Ends, Entries
<1> QED
  BY <1>1, <1>2 DEF TypeOK

LEMMA TypeInit == Init => TypeOK
  BY RowTypes, CallTypes, KeysAreNumbers DEF Init, TypeOK, Entries, Keys

(* Every step keeps every variable in its set.                             *)
LEMMA TypeStep == TypeOK /\ [Next]_vars => TypeOK'
<1> SUFFICES ASSUME TypeOK, [Next]_vars PROVE TypeOK'
  OBVIOUS
<1> USE KeysAreNumbers, CallIsOut DEF TypeOK, device, server, setting, Clients, Entries
<1>1. ASSUME NEW s \in Subs, SubmitOffline(s) PROVE TypeOK'
  BY <1>1, RowTypes DEF SubmitOffline
<1>2. ASSUME NEW s \in Subs, SubmitOnline(s) PROVE TypeOK'
  BY <1>2, CallTypes DEF SubmitOnline
<1>3. ASSUME NEW s \in Subs, FormAnswered(s) PROVE TypeOK'
  <2>1. call' \in [Clients -> Call]
    BY <1>3, CallTypes DEF FormAnswered
  <2>2. row' \in [Subs -> Row]
    <3>1. call[s].key \in Keys
      BY <1>3, CallIsOut DEF FormAnswered
    <3>2. row' = row \/ row' = [row EXCEPT ![s] = FreshRow(call[s].key)]
      BY <1>3 DEF FormAnswered
    <3> QED BY <3>1, <3>2, RowTypes
  <2>3. key' \in [Subs -> Keys] /\ minted' \in [Subs -> Keys]
    <3>1. minted[s] < LastKey => minted[s] + 1 \in Keys
      OBVIOUS
    <3>2. \/ UNCHANGED <<key, minted>>
          \/ /\ minted[s] < LastKey
             /\ minted' = [minted EXCEPT ![s] = minted[s] + 1]
             /\ key' = [key EXCEPT ![s] = minted[s] + 1]
      BY <1>3 DEF FormAnswered
    <3>3. CASE UNCHANGED <<key, minted>>
      BY <3>3
    <3>4. CASE /\ minted[s] < LastKey
               /\ minted' = [minted EXCEPT ![s] = minted[s] + 1]
               /\ key' = [key EXCEPT ![s] = minted[s] + 1]
      BY <3>1, <3>4
    <3> QED BY <3>2, <3>3, <3>4
  <2> QED BY <1>3, <2>1, <2>2, <2>3 DEF FormAnswered
<1>4. ASSUME NEW s \in Subs, Retry(s) PROVE TypeOK'
  <2>1. row' \in [Subs -> Row]
    <3>1. row[s].key \in Keys
      BY DEF Row
    <3>2. \A k \in Keys : [row EXCEPT ![s] = FreshRow(k)] \in [Subs -> Row]
      BY RowTypes
    <3>3. minted[s] < LastKey => minted[s] + 1 \in Keys
      OBVIOUS
    <3>4. PICK k \in Keys : row' = Swept([row EXCEPT ![s] = FreshRow(k)])
      BY <1>4, <3>1, <3>3 DEF Retry
    <3> QED BY <3>2, <3>4, SweptType
  <2>2. minted' \in [Subs -> Keys]
    BY <1>4 DEF Retry
  <2>3. gone' \subseteq Subs
    BY <1>4 DEF Retry, Expired
  <2> QED BY <1>4, <2>1, <2>2, <2>3 DEF Retry
<1>5. ASSUME NEW s \in Subs, Discard(s) PROVE TypeOK'
  <2>1. row' \in [Subs -> Row]
    BY <1>5, RowTypes, SweptType DEF Discard
  <2>2. gone' \subseteq Subs /\ copies' \subseteq Subs \X Keys
    BY <1>5 DEF Discard, Expired
  <2> QED BY <1>5, <2>1, <2>2 DEF Discard
<1>6. ASSUME NEW s \in Subs, Age(s) PROVE TypeOK'
  <2>1. \A r \in Row : [r EXCEPT !.old = TRUE] \in Row
    BY DEF Row
  <2>2. row' = [row EXCEPT ![s] = [row[s] EXCEPT !.old = TRUE]]
    BY <1>6 DEF Age
  <2>3. row' \in [Subs -> Row]
    BY <2>1, <2>2
  <2> QED BY <1>6, <2>3 DEF Age
<1>7. ASSUME NEW t \in Tabs, StartPass(t) PROVE TypeOK'
  <2>1. row' \in [Subs -> Row] /\ gone' \subseteq Subs
    BY <1>7, SweptType DEF StartPass, Expired
  <2> QED BY <1>7, <2>1 DEF StartPass
<1>8. ASSUME NEW t \in Tabs, Claim(t) PROVE TypeOK'
  <2>1. PICK u \in todo[t] :
         /\ todo' = [todo EXCEPT ![t] = @ \ {u}]
         /\ \/ /\ row' = [row EXCEPT ![u].status = "syncing"]
               /\ call' = [call EXCEPT ![t] = Post(u, row[u].key, row[u].attempts)]
            \/ UNCHANGED <<row, call>>
    BY <1>8 DEF Claim
  <2>2. u \in Subs /\ row[u] \in Row
    OBVIOUS
  <2>3. [row[u] EXCEPT !.status = "syncing"] \in Row
    BY <2>2 DEF Row, Statuses
  <2>4. Post(u, row[u].key, row[u].attempts) \in Call
    BY <2>2, CallTypes DEF Row
  <2>5. row' \in [Subs -> Row]
    <3>1. row' = row \/ row' = [row EXCEPT ![u] = [row[u] EXCEPT !.status = "syncing"]]
      BY <2>1
    <3> QED BY <2>3, <3>1
  <2>6. call' \in [Clients -> Call]
    BY <2>1, <2>4
  <2>7. todo' \in [Tabs -> SUBSET Subs]
    BY <2>1
  <2> QED BY <1>8, <2>5, <2>6, <2>7 DEF Claim
<1>9. ASSUME NEW t \in Tabs, Settle(t) PROVE TypeOK'
  <2>1. call[t].sub \in Subs /\ call[t].attempts \in 0 .. MaxAttempts
    BY <1>9, CallIsOut DEF Settle
  <2>2. Patched(call[t].sub, call[t].attempts, call[t].answer) \in Row
    BY <1>9, <2>1, CallIsOut, PatchedType DEF Settle
  <2> QED BY <1>9, <2>1, <2>2, CallTypes, CallIsOut DEF Settle, StillThere
<1>10. ASSUME NEW t \in Tabs, CloseTab(t) PROVE TypeOK'
  BY <1>10, CallTypes DEF CloseTab
<1>11. CASE SignOut
  BY <1>11, RowTypes DEF SignOut
<1>12. CASE Replay
  BY <1>12, CallTypes DEF Replay
<1>13. CASE Replayed
  BY <1>13, CallTypes DEF Replayed
<1>14. ASSUME NEW c \in Clients, Reach(c) PROVE TypeOK'
  <2>1. call[c].at = "sent" /\ call[c].sub \in Subs /\ call[c].key \in Keys
    BY <1>14, CallIsOut DEF Reach
  <2>2. [call[c] EXCEPT !.at = "held"] \in Call
    <3>1. call[c] \in Out({"sent", "held"}, {"-"})
      BY <2>1 DEF Call, Out, Idle
    <3> QED BY <3>1 DEF Call, Out
  <2>3. CASE ledger[call[c].sub][call[c].key] = "none"
    <3>1. /\ ledger' = [ledger EXCEPT ![call[c].sub][call[c].key] = "busy"]
          /\ call' = [call EXCEPT ![c] = [call[c] EXCEPT !.at = "held"]]
      BY <1>14, <2>3 DEF Reach
    <3> QED BY <1>14, <2>1, <2>2, <3>1 DEF Reach
  <2>4. CASE ledger[call[c].sub][call[c].key] # "none"
    <3>1. PICK a \in Answers : call' = [call EXCEPT ![c] = Answered(c, a)]
      BY <1>14, <2>1, <2>4 DEF Reach, Answers
    <3>2. call' \in [Clients -> Call]
      BY <2>1, <3>1, AnsweredType
    <3> QED BY <1>14, <2>4, <3>2 DEF Reach
  <2> QED BY <2>3, <2>4
<1>15. ASSUME NEW c \in Clients, Judge(c) PROVE TypeOK'
  <2>1. call[c].at # "idle" /\ call[c].sub \in Subs /\ call[c].key \in Keys
    BY <1>15, CallIsOut DEF Judge
  <2>2. call' \in [Clients -> Call]
    BY <1>15, <2>1, AnsweredType DEF Judge, Answers, Judgements
  <2>3. ledger' \in [Subs -> [Keys -> Entries]] /\ records' \in [Subs -> Nat]
    BY <1>15, <2>1, EndsType DEF Judge, Answers, Judgements
  <2> QED BY <1>15, <2>2, <2>3 DEF Judge
<1>16. ASSUME NEW c \in Clients, Defer(c) PROVE TypeOK'
  <2>1. call[c].at # "idle" /\ call[c].sub \in Subs /\ call[c].key \in Keys
    BY <1>16, CallIsOut DEF Defer
  <2>2. call' \in [Clients -> Call]
    BY <1>16, <2>1, AnsweredType DEF Defer, Answers, Judgements
  <2>3. ledger' \in [Subs -> [Keys -> Entries]] /\ records' \in [Subs -> Nat]
    BY <1>16, <2>1, EndsType DEF Defer, Answers, Judgements
  <2> QED BY <1>16, <2>2, <2>3 DEF Defer
<1>17. ASSUME NEW c \in Clients, Lose(c) PROVE TypeOK'
  <2>1. call[c].at # "idle" /\ call[c].sub \in Subs /\ call[c].key \in Keys
    BY <1>17, CallIsOut DEF Lose
  <2>2. call' \in [Clients -> Call]
    BY <1>17, <2>1, AnsweredType DEF Lose, Answers
  <2> QED BY <1>17, <2>1, <2>2 DEF Lose
<1>18. ASSUME NEW c \in Clients, Intercept(c) PROVE TypeOK'
  <2>1. call[c].at # "idle"
    BY <1>18 DEF Intercept
  <2>2. call' \in [Clients -> Call]
    BY <1>18, <2>1, AnsweredType DEF Intercept, Answers
  <2> QED BY <1>18, <2>2 DEF Intercept
<1>19. ASSUME NEW s \in Subs, NEW k \in Keys, JudgeAlone(s, k) PROVE TypeOK'
  BY <1>19, EndsType DEF JudgeAlone, Judgements, Answers
<1>20. CASE UNCHANGED vars
  BY <1>20 DEF vars
<1> QED
  BY <1>1, <1>2, <1>3, <1>4, <1>5, <1>6, <1>7, <1>8, <1>9, <1>10,
     <1>11, <1>12, <1>13, <1>14, <1>15, <1>16, <1>17, <1>18, <1>19, <1>20
  DEF Next

(* Every variable stays in its set.                                        *)
THEOREM TypeCorrect == Spec => []TypeOK
  BY TypeInit, TypeStep, PTL DEF Spec

-----------------------------------------------------------------------------
(* The invariant is inductive                                               *)

(* A new key is made for a submission whose script has acted.              *)
Minted(s) ==
  /\ minted[s] + 1 \in Keys /\ ledger[s][minted[s]] = "acted"
  /\ minted' = [minted EXCEPT ![s] = minted[s] + 1]

(* The form makes a key after the script has acted under the last one,     *)
(* which is the one it sent; a retry does the same (RetryMints).           *)
LEMMA FormMints ==
  ASSUME IInv, NEW s \in Subs, FormAnswered(s)
  PROVE  \/ Minted(s) /\ ~Queued(s) /\ UNCHANGED <<form, row>>
         \/ UNCHANGED <<key, minted>>
<1>1. call[s].at = "answered" /\ s \in Clients
  BY DEF FormAnswered, Clients
<1>2. call[s] # Idle
  BY <1>1, CallIsOut DEF IInv
<1>3. /\ call[s].sub = s /\ form[s] = "blank" /\ call[s].key = minted[s] /\ ~Queued(s)
      /\ call[s].answer = "scriptRan" => ledger[s][minted[s]] = "acted"
  BY <1>1, <1>2 DEF IInv, CallInv, FormInv
<1>4. CASE call[s].answer = "scriptRan" /\ minted[s] < LastKey
  BY <1>3, <1>4, KeysAreNumbers DEF FormAnswered, Minted, IInv, TypeOK
<1>5. CASE ~(call[s].answer = "scriptRan" /\ minted[s] < LastKey)
  BY <1>5 DEF FormAnswered
<1> QED
  BY <1>4, <1>5

LEMMA RetryMints ==
  ASSUME IInv, NEW s \in Subs, Retry(s)
  PROVE  \E k \in Keys :
           /\ row' = [u \in Subs |-> IF u \in Expired THEN NoRow
                                      ELSE IF u = s THEN FreshRow(k) ELSE row[u]]
           /\ \/ Minted(s) /\ k = minted[s] + 1
              \/ UNCHANGED minted /\ k = minted[s]
<1>1. Queued(s) /\ s \notin Expired
  BY DEF Retry, Queued, Expired
<1>2. row[s].key = minted[s] /\ (row[s].failure = "script-ran" => ledger[s][minted[s]] = "acted")
  BY <1>1 DEF IInv, RowInv
<1>3. row \in [Subs -> Row] /\ minted[s] \in Keys
  BY DEF IInv, TypeOK
<1>4. CASE row[s].failure = "script-ran"
  BY <1>1, <1>2, <1>3, <1>4, KeysAreNumbers DEF Retry, Minted, Swept
<1>5. CASE row[s].failure # "script-ran"
  BY <1>1, <1>2, <1>3, <1>5 DEF Retry, Swept
<1> QED
  BY <1>4, <1>5

(* A new key leaves the ledger's history as it has to be.                  *)
LEMMA MintedKeeps ==
  ASSUME IInv, NEW s \in Subs, Minted(s), UNCHANGED <<scripted, ledger, records, copies>>
  PROVE  LedgerInv' /\ RecordInv' /\ CopyInv'
<1>1. /\ minted \in [Subs -> Keys] /\ copies \subseteq Subs \X Keys
      /\ \A u \in Subs : minted[u] \in Nat
  BY KeysAreNumbers DEF IInv, TypeOK
<1>2. \A u \in Subs : minted'[u] = IF u = s THEN minted[s] + 1 ELSE minted[u]
  BY <1>1 DEF Minted
<1>3. ASSUME NEW u \in Subs, NEW k \in Keys
      PROVE  /\ k < minted'[u] => ledger'[u][k] = "acted"
             /\ k > minted'[u] => ledger'[u][k] = "none"
             /\ ledger'[u][k] = "acted" => u \in scripted'
  <2>1. /\ k < minted[u] => ledger[u][k] = "acted"
        /\ k > minted[u] => ledger[u][k] = "none"
        /\ ledger[u][k] = "acted" => u \in scripted
        /\ ledger[s][minted[s]] = "acted"
    BY DEF IInv, LedgerInv, Minted
  <2>2. k \in Nat
    BY KeysAreNumbers
  <2> QED BY <1>1, <1>2, <2>1, <2>2
<1>4. LedgerInv'
  BY <1>3 DEF LedgerInv
<1>5. RecordInv'
  <2>1. ledger[s][minted[s] + 1] = "none"
    BY <1>1 DEF IInv, LedgerInv, Minted
  <2> QED BY <1>1, <1>2, <2>1 DEF IInv, RecordInv, Minted
<1>6. CopyInv'
  <2> SUFFICES ASSUME NEW p \in copies PROVE p[2] <= minted'[p[1]]
    BY DEF CopyInv
  <2>1. p[1] \in Subs /\ p[2] \in Nat /\ p[2] <= minted[p[1]]
    BY <1>1, KeysAreNumbers DEF IInv, CopyInv
  <2> QED BY <1>1, <1>2, <2>1
<1> QED
  BY <1>4, <1>5, <1>6

(* The server writes under the last key made, which was not settled.       *)
Wrote(s, e) ==
  /\ ledger[s][minted[s]] \in {"none", "busy"}
  /\ ledger' = [ledger EXCEPT ![s][minted[s]] = e]
  /\ records' = [records EXCEPT ![s] = IF e = "done" THEN 1 ELSE 0]
  /\ e \in Entries /\ (e = "acted" => s \in scripted)
  /\ UNCHANGED <<device, copies>>

(* A key that is worked on, or that was made and is not known, is the last.*)
LEMMA LastKeyMade ==
  ASSUME IInv, NEW s \in Subs, NEW k \in Keys,
         ledger[s][k] = "busy" \/ (ledger[s][k] \in {"none", "done"} /\ k <= minted[s])
  PROVE  k = minted[s]
<1>1. k \in Nat /\ minted[s] \in Nat
  BY KeysAreNumbers DEF IInv, TypeOK
<1>2. ~(k < minted[s]) /\ ~(k > minted[s])
  BY <1>1 DEF IInv, LedgerInv
<1> QED
  BY <1>1, <1>2

(* The work on a key ends under the last key made.                         *)
LEMMA EndsWrites ==
  ASSUME IInv, NEW s \in Subs, NEW k \in Keys, ledger[s][k] = "busy",
         NEW a \in Answers, Ends(s, k, a), a = "scriptRan" => s \in scripted,
         UNCHANGED <<device, copies>>
  PROVE  \E e \in {"done", "acted", "none"} : Wrote(s, e)
<1>1. k = minted[s]
  BY LastKeyMade DEF IInv
<1>2. records[s] = 0 /\ records \in [Subs -> Nat]
  BY <1>1 DEF IInv, RecordInv, TypeOK
<1> DEFINE e == CASE a = "stored" -> "done" [] a = "scriptRan" -> "acted" [] OTHER -> "none"
<1>3. e \in {"done", "acted", "none"} /\ (e = "done" <=> a = "stored")
      /\ (e = "acted" => s \in scripted) /\ e \in Entries
  BY DEF Entries
<1>4. ledger' = [ledger EXCEPT ![s][k] = e]
  BY DEF Ends
<1>5. records' = [records EXCEPT ![s] = IF e = "done" THEN 1 ELSE 0]
  <2>1. records' = [records EXCEPT ![s] = IF a = "stored" THEN records[s] + 1 ELSE records[s]]
    BY DEF Ends
  <2>2. (IF a = "stored" THEN records[s] + 1 ELSE records[s]) = IF e = "done" THEN 1 ELSE 0
    BY <1>2, <1>3
  <2> HIDE DEF e
  <2> QED BY <2>1, <2>2
<1> HIDE DEF e
<1> QED
  BY <1>1, <1>3, <1>4, <1>5 DEF Wrote

(* A request that reached the server is answered or held.                  *)
Learns(c, a) ==
  LET s == call[c].sub
      k == call[c].key
  IN /\ call' = [call EXCEPT ![c] = Answered(c, a)]
     /\ a = "stored" => ledger'[s][k] = "done"
     /\ a = "scriptRan" => ledger'[s][k] = "acted"

LEMMA ReachDoes ==
  ASSUME IInv, NEW c \in Clients, Reach(c)
  PROVE  /\ call[c].at = "sent" /\ call[c].sub \in Subs /\ call[c].key \in Keys
         /\ \/ /\ ledger[call[c].sub][call[c].key] = "none"
               /\ call[c].key = minted[call[c].sub]
               /\ Wrote(call[c].sub, "busy")
               /\ call' = [call EXCEPT ![c] = [call[c] EXCEPT !.at = "held"]]
            \/ /\ \E a \in Answers : Learns(c, a)
               /\ UNCHANGED <<device, copies, ledger, records>>
<1> DEFINE s == call[c].sub
           k == call[c].key
<1>1. call[c].at = "sent" /\ s \in Subs /\ k \in Keys /\ call[c] # Idle
  BY CallIsOut DEF Reach, IInv
<1>2. CASE ledger[s][k] = "none"
  <2>1. k <= minted[s]
    BY <1>1 DEF IInv, CallInv
  <2>2. k = minted[s]
    BY <1>1, <1>2, <2>1, LastKeyMade
  <2>3. records[s] = 0 /\ records \in [Subs -> Nat]
    BY <1>1, <1>2, <2>2 DEF IInv, RecordInv, TypeOK
  <2>4. records' = [records EXCEPT ![s] = IF "busy" = "done" THEN 1 ELSE 0]
    BY <2>3 DEF Reach
  <2>5. ledger' = [ledger EXCEPT ![s][k] = "busy"]
        /\ call' = [call EXCEPT ![c] = [call[c] EXCEPT !.at = "held"]]
    BY <1>2 DEF Reach
  <2>6. Wrote(s, "busy")
    BY <1>1, <1>2, <2>2, <2>4, <2>5 DEF Wrote, Entries, Reach
  <2> QED BY <1>1, <1>2, <2>2, <2>5, <2>6
<1>3. CASE ledger[s][k] # "none"
  <2>1. ledger[s][k] \in Entries
    BY <1>1 DEF IInv, TypeOK
  <2>2. PICK a \in Answers :
          /\ call' = [call EXCEPT ![c] = Answered(c, a)]
          /\ a = "stored" => ledger[s][k] = "done"
          /\ a = "scriptRan" => ledger[s][k] = "acted"
    BY <1>3, <2>1 DEF Reach, Entries, Answers
  <2>3. UNCHANGED <<device, copies, ledger, records>>
    BY <1>3 DEF Reach
  <2> QED BY <1>1, <2>2, <2>3 DEF Learns
<1> QED
  BY <1>2, <1>3

(* The end of the work is written, and its client is told.                 *)
LEMMA JudgeDoes ==
  ASSUME IInv, NEW c \in Clients, Judge(c) \/ Defer(c)
  PROVE  /\ call[c].at = "held" /\ call[c].sub \in Subs /\ call[c].key \in Keys
         /\ call[c].key = minted[call[c].sub]
         /\ \E e \in {"done", "acted", "none"} : Wrote(call[c].sub, e)
         /\ \E a \in Answers : Learns(c, a)
<1> DEFINE s == call[c].sub
           k == call[c].key
<1>1. call[c].at = "held" /\ s \in Subs /\ k \in Keys /\ call[c] # Idle
  BY CallIsOut DEF Judge, Defer, IInv
<1>2. ledger[s][k] = "busy"
  BY <1>1 DEF IInv, CallInv
<1>3. PICK a \in Answers :
        /\ Ends(s, k, a)
        /\ call' = [call EXCEPT ![c] = Answered(c, a)]
        /\ a = "scriptRan" => s \in scripted
        /\ UNCHANGED <<device, copies>>
  <2>1. CASE Judge(c)
    BY <2>1 DEF Judge, Judgements, Answers
  <2>2. CASE Defer(c)
    BY <2>2 DEF Defer, Answers
  <2> QED BY <2>1, <2>2
<1>4. /\ a = "stored" => ledger'[s][k] = "done"
      /\ a = "scriptRan" => ledger'[s][k] = "acted"
  BY <1>1, <1>3 DEF Ends, IInv, TypeOK
<1>5. \E e \in {"done", "acted", "none"} : Wrote(s, e)
  BY <1>1, <1>2, <1>3, EndsWrites
<1> QED
  BY <1>1, <1>2, <1>3, <1>4, <1>5, LastKeyMade DEF Learns

LEMMA AloneDoes ==
  ASSUME IInv, NEW s \in Subs, NEW k \in Keys, JudgeAlone(s, k)
  PROVE  /\ k = minted[s] /\ \E e \in {"done", "acted", "none"} : Wrote(s, e)
         /\ call' = call
<1>1. PICK a \in Answers : Ends(s, k, a) /\ (a = "scriptRan" => s \in scripted)
  BY DEF JudgeAlone, Judgements, Answers
<1>2. ledger[s][k] = "busy" /\ UNCHANGED <<device, call, copies>>
  BY DEF JudgeAlone
<1> QED
  BY <1>1, <1>2, EndsWrites, LastKeyMade

(* What the server writes keeps the ledger's history and its records.      *)
LEMMA WroteKeeps ==
  ASSUME IInv, NEW s \in Subs, NEW e \in Entries, Wrote(s, e)
  PROVE  LedgerInv' /\ RecordInv' /\ RowInv'
<1>1. /\ minted \in [Subs -> Keys] /\ ledger \in [Subs -> [Keys -> Entries]]
      /\ records \in [Subs -> Nat] /\ minted[s] \in Nat
  BY KeysAreNumbers DEF IInv, TypeOK
<1>2. \A u \in Subs, k \in Keys :
        ledger'[u][k] = IF u = s /\ k = minted[s] THEN e ELSE ledger[u][k]
  BY <1>1 DEF Wrote
<1>3. UNCHANGED <<device, copies>> /\ UNCHANGED <<minted, row, scripted>>
  BY DEF Wrote, device, setting
<1>4. LedgerInv'
  BY <1>1, <1>2, <1>3 DEF IInv, LedgerInv, Wrote
<1>5. RecordInv'
  BY <1>1, <1>2, <1>3 DEF IInv, RecordInv, Wrote
<1>6. RowInv'
  BY <1>1, <1>2, <1>3 DEF IInv, RowInv, Wrote, Queued
<1> QED
  BY <1>4, <1>5, <1>6

(* Tabs and scripts are a run's setting.                                   *)
LEMMA CalmStep == IInv /\ [Next]_vars => Calm'
<1> SUFFICES ASSUME IInv, [Next]_vars PROVE Calm'
  OBVIOUS
<1>a. TypeOK /\ TypeOK' /\ Calm /\ FormInv /\ CallInv /\ TodoInv /\ HeldInv
      /\ LedgerInv /\ RecordInv /\ RowInv /\ CopyInv /\ PassInv
  BY TypeStep DEF IInv
<1> USE <1>a
<1>1. ASSUME NEW s \in Subs, SubmitOffline(s) PROVE Calm'
  BY <1>1 DEF SubmitOffline, device, server, setting, Calm
<1>2. ASSUME NEW s \in Subs, SubmitOnline(s) PROVE Calm'
  BY <1>2 DEF SubmitOnline, device, server, setting, Calm
<1>3. ASSUME NEW s \in Subs, FormAnswered(s) PROVE Calm'
  BY <1>3 DEF FormAnswered, device, server, setting, Calm
<1>4. ASSUME NEW s \in Subs, Retry(s) PROVE Calm'
  BY <1>4 DEF Retry, device, server, setting, Calm
<1>5. ASSUME NEW s \in Subs, Discard(s) PROVE Calm'
  BY <1>5 DEF Discard, device, server, setting, Calm
<1>6. ASSUME NEW s \in Subs, Age(s) PROVE Calm'
  BY <1>6 DEF Age, device, server, setting, Calm
<1>7. ASSUME NEW t \in Tabs, StartPass(t) PROVE Calm'
  BY <1>7 DEF StartPass, device, server, setting, Calm
<1>8. ASSUME NEW t \in Tabs, Claim(t) PROVE Calm'
  BY <1>8 DEF Claim, device, server, setting, Calm
<1>9. ASSUME NEW t \in Tabs, Settle(t) PROVE Calm'
  BY <1>9 DEF Settle, StillThere, device, server, setting, Calm
<1>10. ASSUME NEW t \in Tabs, CloseTab(t) PROVE Calm'
  BY <1>10 DEF CloseTab, device, server, setting, Calm
<1>11. CASE SignOut
  BY <1>11 DEF SignOut, device, server, setting, Calm
<1>12. CASE Replay
  BY <1>12 DEF Replay, device, server, setting, Calm
<1>13. CASE Replayed
  BY <1>13 DEF Replayed, device, server, setting, Calm
<1>14. ASSUME NEW c \in Clients, Reach(c) PROVE Calm'
  BY <1>14 DEF Reach, device, server, setting, Calm
<1>15. ASSUME NEW c \in Clients, Judge(c) PROVE Calm'
  BY <1>15 DEF Judge, device, server, setting, Calm
<1>16. ASSUME NEW c \in Clients, Defer(c) PROVE Calm'
  BY <1>16 DEF Defer, device, server, setting, Calm
<1>17. ASSUME NEW c \in Clients, Lose(c) PROVE Calm'
  BY <1>17 DEF Lose, device, server, setting, Calm
<1>18. ASSUME NEW c \in Clients, Intercept(c) PROVE Calm'
  BY <1>18 DEF Intercept, device, server, setting, Calm
<1>19. ASSUME NEW s \in Subs, NEW k \in Keys, JudgeAlone(s, k) PROVE Calm'
  BY <1>19 DEF JudgeAlone, device, server, setting, Calm
<1>20. CASE UNCHANGED vars
  BY <1>20 DEF vars, Calm, Queued
<1> QED
  BY <1>1, <1>2, <1>3, <1>4, <1>5, <1>6, <1>7, <1>8, <1>9, <1>10,
     <1>11, <1>12, <1>13, <1>14, <1>15, <1>16, <1>17, <1>18, <1>19, <1>20
  DEF Next

(* A form is done with before its submission is anywhere else.             *)
LEMMA FormInvStep == IInv /\ [Next]_vars => FormInv'
<1> SUFFICES ASSUME IInv, [Next]_vars PROVE FormInv'
  OBVIOUS
<1>a. TypeOK /\ TypeOK' /\ Calm /\ FormInv /\ CallInv /\ TodoInv /\ HeldInv
      /\ LedgerInv /\ RecordInv /\ RowInv /\ CopyInv /\ PassInv
  BY TypeStep DEF IInv
<1> USE <1>a
<1>1. ASSUME NEW s \in Subs, SubmitOffline(s) PROVE FormInv'
  BY <1>1 DEF SubmitOffline, device, server, setting, FormInv, Queued, NoRow, Swept, Expired, TypeOK, Clients
<1>2. ASSUME NEW s \in Subs, SubmitOnline(s) PROVE FormInv'
  BY <1>2 DEF SubmitOnline, device, server, setting, FormInv, Queued, NoRow, Swept, Expired, TypeOK, Clients
<1>3. ASSUME NEW s \in Subs, FormAnswered(s) PROVE FormInv'
  BY <1>3 DEF FormAnswered, device, server, setting, FormInv, Queued, NoRow, Swept, Expired, TypeOK, Clients
<1>4. ASSUME NEW s \in Subs, Retry(s) PROVE FormInv'
  BY <1>4 DEF Retry, device, server, setting, FormInv, Queued, NoRow, Swept, Expired, TypeOK, Clients
<1>5. ASSUME NEW s \in Subs, Discard(s) PROVE FormInv'
  BY <1>5 DEF Discard, device, server, setting, FormInv, Queued, NoRow, Swept, Expired, TypeOK, Clients
<1>6. ASSUME NEW s \in Subs, Age(s) PROVE FormInv'
  BY <1>6 DEF Age, device, server, setting, FormInv, Queued, NoRow, Swept, Expired, TypeOK, Clients
<1>7. ASSUME NEW t \in Tabs, StartPass(t) PROVE FormInv'
  BY <1>7 DEF StartPass, device, server, setting, FormInv, Queued, NoRow, Swept, Expired, TypeOK, Clients
<1>8. ASSUME NEW t \in Tabs, Claim(t) PROVE FormInv'
  BY <1>8 DEF Claim, device, server, setting, FormInv, Queued, NoRow, Swept, Expired, TypeOK, Clients
<1>9. ASSUME NEW t \in Tabs, Settle(t) PROVE FormInv'
  BY <1>9 DEF Settle, StillThere, device, server, setting, FormInv, Queued, NoRow, Swept, Expired, TypeOK, Clients
<1>10. ASSUME NEW t \in Tabs, CloseTab(t) PROVE FormInv'
  BY <1>10 DEF CloseTab, device, server, setting, FormInv, Queued, NoRow, Swept, Expired, TypeOK, Clients
<1>11. CASE SignOut
  BY <1>11 DEF SignOut, device, server, setting, FormInv, Queued, NoRow, Swept, Expired, TypeOK, Clients
<1>12. CASE Replay
  BY <1>12 DEF Replay, device, server, setting, FormInv, Queued, NoRow, Swept, Expired, TypeOK, Clients
<1>13. CASE Replayed
  BY <1>13 DEF Replayed, device, server, setting, FormInv, Queued, NoRow, Swept, Expired, TypeOK, Clients
<1>14. ASSUME NEW c \in Clients, Reach(c) PROVE FormInv'
  BY <1>14 DEF Reach, device, server, setting, FormInv, Queued, NoRow, Swept, Expired, TypeOK, Clients
<1>15. ASSUME NEW c \in Clients, Judge(c) PROVE FormInv'
  BY <1>15 DEF Judge, device, server, setting, FormInv, Queued, NoRow, Swept, Expired, TypeOK, Clients
<1>16. ASSUME NEW c \in Clients, Defer(c) PROVE FormInv'
  BY <1>16 DEF Defer, device, server, setting, FormInv, Queued, NoRow, Swept, Expired, TypeOK, Clients
<1>17. ASSUME NEW c \in Clients, Lose(c) PROVE FormInv'
  BY <1>17 DEF Lose, device, server, setting, FormInv, Queued, NoRow, Swept, Expired, TypeOK, Clients
<1>18. ASSUME NEW c \in Clients, Intercept(c) PROVE FormInv'
  BY <1>18 DEF Intercept, device, server, setting, FormInv, Queued, NoRow, Swept, Expired, TypeOK, Clients
<1>19. ASSUME NEW s \in Subs, NEW k \in Keys, JudgeAlone(s, k) PROVE FormInv'
  BY <1>19 DEF JudgeAlone, device, server, setting, FormInv, Queued, NoRow, Swept, Expired, TypeOK, Clients
<1>20. CASE UNCHANGED vars
  BY <1>20 DEF vars, FormInv, Queued
<1> QED
  BY <1>1, <1>2, <1>3, <1>4, <1>5, <1>6, <1>7, <1>8, <1>9, <1>10,
     <1>11, <1>12, <1>13, <1>14, <1>15, <1>16, <1>17, <1>18, <1>19, <1>20
  DEF Next

(* Only an open tab makes a pass.                                          *)
LEMMA TodoInvStep == IInv /\ [Next]_vars => TodoInv'
<1> SUFFICES ASSUME IInv, [Next]_vars PROVE TodoInv'
  OBVIOUS
<1>a. TypeOK /\ TypeOK' /\ Calm /\ FormInv /\ CallInv /\ TodoInv /\ HeldInv
      /\ LedgerInv /\ RecordInv /\ RowInv /\ CopyInv /\ PassInv
  BY TypeStep DEF IInv
<1> USE <1>a
<1>1. ASSUME NEW s \in Subs, SubmitOffline(s) PROVE TodoInv'
  BY <1>1 DEF SubmitOffline, device, server, setting, TodoInv, TypeOK
<1>2. ASSUME NEW s \in Subs, SubmitOnline(s) PROVE TodoInv'
  BY <1>2 DEF SubmitOnline, device, server, setting, TodoInv, TypeOK
<1>3. ASSUME NEW s \in Subs, FormAnswered(s) PROVE TodoInv'
  BY <1>3 DEF FormAnswered, device, server, setting, TodoInv, TypeOK
<1>4. ASSUME NEW s \in Subs, Retry(s) PROVE TodoInv'
  BY <1>4 DEF Retry, device, server, setting, TodoInv, TypeOK
<1>5. ASSUME NEW s \in Subs, Discard(s) PROVE TodoInv'
  BY <1>5 DEF Discard, device, server, setting, TodoInv, TypeOK
<1>6. ASSUME NEW s \in Subs, Age(s) PROVE TodoInv'
  BY <1>6 DEF Age, device, server, setting, TodoInv, TypeOK
<1>7. ASSUME NEW t \in Tabs, StartPass(t) PROVE TodoInv'
  BY <1>7 DEF StartPass, device, server, setting, TodoInv, TypeOK
<1>8. ASSUME NEW t \in Tabs, Claim(t) PROVE TodoInv'
  BY <1>8 DEF Claim, device, server, setting, TodoInv, TypeOK
<1>9. ASSUME NEW t \in Tabs, Settle(t) PROVE TodoInv'
  BY <1>9 DEF Settle, StillThere, device, server, setting, TodoInv, TypeOK
<1>10. ASSUME NEW t \in Tabs, CloseTab(t) PROVE TodoInv'
  BY <1>10 DEF CloseTab, device, server, setting, TodoInv, TypeOK
<1>11. CASE SignOut
  BY <1>11 DEF SignOut, device, server, setting, TodoInv, TypeOK
<1>12. CASE Replay
  BY <1>12 DEF Replay, device, server, setting, TodoInv, TypeOK
<1>13. CASE Replayed
  BY <1>13 DEF Replayed, device, server, setting, TodoInv, TypeOK
<1>14. ASSUME NEW c \in Clients, Reach(c) PROVE TodoInv'
  BY <1>14 DEF Reach, device, server, setting, TodoInv, TypeOK
<1>15. ASSUME NEW c \in Clients, Judge(c) PROVE TodoInv'
  BY <1>15 DEF Judge, device, server, setting, TodoInv, TypeOK
<1>16. ASSUME NEW c \in Clients, Defer(c) PROVE TodoInv'
  BY <1>16 DEF Defer, device, server, setting, TodoInv, TypeOK
<1>17. ASSUME NEW c \in Clients, Lose(c) PROVE TodoInv'
  BY <1>17 DEF Lose, device, server, setting, TodoInv, TypeOK
<1>18. ASSUME NEW c \in Clients, Intercept(c) PROVE TodoInv'
  BY <1>18 DEF Intercept, device, server, setting, TodoInv, TypeOK
<1>19. ASSUME NEW s \in Subs, NEW k \in Keys, JudgeAlone(s, k) PROVE TodoInv'
  BY <1>19 DEF JudgeAlone, device, server, setting, TodoInv, TypeOK
<1>20. CASE UNCHANGED vars
  BY <1>20 DEF vars, TodoInv, Queued
<1> QED
  BY <1>1, <1>2, <1>3, <1>4, <1>5, <1>6, <1>7, <1>8, <1>9, <1>10,
     <1>11, <1>12, <1>13, <1>14, <1>15, <1>16, <1>17, <1>18, <1>19, <1>20
  DEF Next

(* The fields of a row.                                                    *)
LEMMA RowFields ==
  /\ NoRow.status = "none" /\ NoRow.failure = "-"
  /\ \A k \in Keys : FreshRow(k).key = k /\ FreshRow(k).failure = "-"
                      /\ FreshRow(k).status = "pending"
  /\ \A r \in Row : LET q == [r EXCEPT !.status = "syncing"] IN
       q.status = "syncing" /\ q.key = r.key /\ q.failure = r.failure
  BY DEF NoRow, FreshRow, Row

(* What a patch leaves of a row.                                           *)
LEMMA PatchedKeeps ==
  ASSUME TypeOK, NEW s \in Subs, NEW n \in 0 .. MaxAttempts, NEW a \in Answers
  PROVE  \/ Patched(s, n, a) = NoRow /\ a = "stored"
         \/ /\ Patched(s, n, a).key = row[s].key /\ a # "stored"
            /\ Patched(s, n, a).status \in {"pending", "failed"}
            /\ Patched(s, n, a).failure = "script-ran" =>
                 row[s].failure = "script-ran" \/ a = "scriptRan"
<1>1. row[s] \in Row
  BY DEF TypeOK
<1>2. ASSUME NEW m, NEW f
      PROVE  /\ Waits(s, m).key = row[s].key /\ Waits(s, m).failure = row[s].failure
             /\ Waits(s, m).status = "pending"
             /\ Fails(s, m, f).key = row[s].key /\ Fails(s, m, f).failure = f
             /\ Fails(s, m, f).status = "failed"
  BY <1>1 DEF Waits, Fails, Row
<1>3. /\ [row[s] EXCEPT !.status = "pending"].key = row[s].key
      /\ [row[s] EXCEPT !.status = "pending"].failure = row[s].failure
      /\ [row[s] EXCEPT !.status = "pending"].status = "pending"
  BY <1>1 DEF Row
<1>4. CASE Unreached(a)
  BY <1>3, <1>4 DEF Patched, Unreached
<1>5. CASE ~Unreached(a)
  BY <1>2, <1>5 DEF Patched, Tried, Sent
<1> QED
  BY <1>4, <1>5

(* Only the tab that has a row out learns that its script has acted.       *)
LEMMA ActedUnderLast ==
  ASSUME IInv, NEW t \in Tabs, call[t].at = "answered", call[t].answer = "scriptRan",
         Queued(call[t].sub)
  PROVE  ledger[call[t].sub][minted[call[t].sub]] = "acted"
<1> DEFINE s == call[t].sub
<1>1. s \in Subs /\ call[t].key \in Keys /\ call[t] # Idle /\ t \in Clients
  BY CallIsOut DEF IInv, Clients
<1>2. ledger[s][call[t].key] = "acted"
  BY <1>1 DEF IInv, CallInv
<1>3. s \in scripted
  BY <1>1, <1>2 DEF IInv, LedgerInv
<1> QED
  BY <1>1, <1>2, <1>3 DEF IInv, PassInv

(* Every step keeps what the server knows in order.                        *)
LEMMA ServerStep == IInv /\ [Next]_vars => LedgerInv' /\ RecordInv' /\ CopyInv'
<1> SUFFICES ASSUME IInv, [Next]_vars PROVE LedgerInv' /\ RecordInv' /\ CopyInv'
  OBVIOUS
<1>a. TypeOK /\ TypeOK' /\ Calm /\ FormInv /\ CallInv /\ TodoInv /\ HeldInv
      /\ LedgerInv /\ RecordInv /\ RowInv /\ CopyInv /\ PassInv
  BY TypeStep DEF IInv
<1> USE <1>a
<1>1. ASSUME NEW s \in Subs, SubmitOffline(s) PROVE LedgerInv' /\ RecordInv' /\ CopyInv'
  BY <1>1, KeysAreNumbers, CallIsOut DEF SubmitOffline, device, server, setting, LedgerInv, RecordInv, CopyInv, CallInv, RowInv, TypeOK, Clients, Queued
<1>2. ASSUME NEW s \in Subs, SubmitOnline(s) PROVE LedgerInv' /\ RecordInv' /\ CopyInv'
  BY <1>2, KeysAreNumbers, CallIsOut DEF SubmitOnline, device, server, setting, LedgerInv, RecordInv, CopyInv, CallInv, RowInv, TypeOK, Clients, Queued
<1>3. ASSUME NEW s \in Subs, FormAnswered(s) PROVE LedgerInv' /\ RecordInv' /\ CopyInv'
  <2>1. UNCHANGED <<scripted, ledger, records, copies>>
    BY <1>3 DEF FormAnswered, server, setting
  <2>2. CASE Minted(s)
    BY <2>1, <2>2, MintedKeeps
  <2>3. CASE UNCHANGED minted
    BY <2>1, <2>3 DEF LedgerInv, RecordInv, CopyInv
  <2> QED BY <1>3, <2>2, <2>3, FormMints
<1>4. ASSUME NEW s \in Subs, Retry(s) PROVE LedgerInv' /\ RecordInv' /\ CopyInv'
  <2>1. UNCHANGED <<scripted, ledger, records, copies>>
    BY <1>4 DEF Retry, server, setting
  <2>2. CASE Minted(s)
    BY <2>1, <2>2, MintedKeeps
  <2>3. CASE UNCHANGED minted
    BY <2>1, <2>3 DEF LedgerInv, RecordInv, CopyInv
  <2> QED BY <1>4, <2>2, <2>3, RetryMints
<1>5. ASSUME NEW s \in Subs, Discard(s) PROVE LedgerInv' /\ RecordInv' /\ CopyInv'
  BY <1>5, KeysAreNumbers, CallIsOut DEF Discard, device, server, setting, LedgerInv, RecordInv, CopyInv, CallInv, RowInv, TypeOK, Clients, Queued
<1>6. ASSUME NEW s \in Subs, Age(s) PROVE LedgerInv' /\ RecordInv' /\ CopyInv'
  BY <1>6, KeysAreNumbers, CallIsOut DEF Age, device, server, setting, LedgerInv, RecordInv, CopyInv, CallInv, RowInv, TypeOK, Clients, Queued
<1>7. ASSUME NEW t \in Tabs, StartPass(t) PROVE LedgerInv' /\ RecordInv' /\ CopyInv'
  BY <1>7, KeysAreNumbers, CallIsOut DEF StartPass, device, server, setting, LedgerInv, RecordInv, CopyInv, CallInv, RowInv, TypeOK, Clients, Queued
<1>8. ASSUME NEW t \in Tabs, Claim(t) PROVE LedgerInv' /\ RecordInv' /\ CopyInv'
  BY <1>8, KeysAreNumbers, CallIsOut DEF Claim, device, server, setting, LedgerInv, RecordInv, CopyInv, CallInv, RowInv, TypeOK, Clients, Queued
<1>9. ASSUME NEW t \in Tabs, Settle(t) PROVE LedgerInv' /\ RecordInv' /\ CopyInv'
  BY <1>9, KeysAreNumbers, CallIsOut DEF Settle, StillThere, device, server, setting, LedgerInv, RecordInv, CopyInv, CallInv, RowInv, TypeOK, Clients, Queued
<1>10. ASSUME NEW t \in Tabs, CloseTab(t) PROVE LedgerInv' /\ RecordInv' /\ CopyInv'
  BY <1>10, KeysAreNumbers, CallIsOut DEF CloseTab, device, server, setting, LedgerInv, RecordInv, CopyInv, CallInv, RowInv, TypeOK, Clients, Queued
<1>11. CASE SignOut
  BY <1>11, KeysAreNumbers, CallIsOut DEF SignOut, device, server, setting, LedgerInv, RecordInv, CopyInv, CallInv, RowInv, TypeOK, Clients, Queued
<1>12. CASE Replay
  BY <1>12, KeysAreNumbers, CallIsOut DEF Replay, device, server, setting, LedgerInv, RecordInv, CopyInv, CallInv, RowInv, TypeOK, Clients, Queued
<1>13. CASE Replayed
  BY <1>13, KeysAreNumbers, CallIsOut DEF Replayed, device, server, setting, LedgerInv, RecordInv, CopyInv, CallInv, RowInv, TypeOK, Clients, Queued
<1>14. ASSUME NEW c \in Clients, Reach(c) PROVE LedgerInv' /\ RecordInv' /\ CopyInv'
  <2>1. CASE Wrote(call[c].sub, "busy")
    <3>1. LedgerInv' /\ RecordInv'
      BY <1>14, <2>1, ReachDoes, WroteKeeps DEF Entries
    <3> QED BY <2>1, <3>1 DEF Wrote, CopyInv, device
  <2>2. CASE UNCHANGED <<device, copies, ledger, records>>
    BY <2>2 DEF LedgerInv, RecordInv, CopyInv, device, setting
  <2> QED BY <1>14, <2>1, <2>2, ReachDoes
<1>15. ASSUME NEW c \in Clients, Judge(c) PROVE LedgerInv' /\ RecordInv' /\ CopyInv'
  <2>1. PICK e \in Entries : Wrote(call[c].sub, e)
    BY <1>15, JudgeDoes DEF Entries
  <2>2. LedgerInv' /\ RecordInv'
    BY <1>15, <2>1, JudgeDoes, WroteKeeps
  <2>3. CopyInv'
    BY <2>1 DEF Wrote, CopyInv, device
  <2> QED BY <2>2, <2>3
<1>16. ASSUME NEW c \in Clients, Defer(c) PROVE LedgerInv' /\ RecordInv' /\ CopyInv'
  <2>1. PICK e \in Entries : Wrote(call[c].sub, e)
    BY <1>16, JudgeDoes DEF Entries
  <2>2. LedgerInv' /\ RecordInv'
    BY <1>16, <2>1, JudgeDoes, WroteKeeps
  <2>3. CopyInv'
    BY <2>1 DEF Wrote, CopyInv, device
  <2> QED BY <2>2, <2>3
<1>17. ASSUME NEW c \in Clients, Lose(c) PROVE LedgerInv' /\ RecordInv' /\ CopyInv'
  BY <1>17, KeysAreNumbers, CallIsOut DEF Lose, device, server, setting, LedgerInv, RecordInv, CopyInv, CallInv, RowInv, TypeOK, Clients, Queued
<1>18. ASSUME NEW c \in Clients, Intercept(c) PROVE LedgerInv' /\ RecordInv' /\ CopyInv'
  BY <1>18, KeysAreNumbers, CallIsOut DEF Intercept, device, server, setting, LedgerInv, RecordInv, CopyInv, CallInv, RowInv, TypeOK, Clients, Queued
<1>19. ASSUME NEW s \in Subs, NEW k \in Keys, JudgeAlone(s, k) PROVE LedgerInv' /\ RecordInv' /\ CopyInv'
  <2>1. PICK e \in Entries : Wrote(s, e)
    BY <1>19, AloneDoes DEF Entries
  <2>2. LedgerInv' /\ RecordInv'
    BY <1>19, <2>1, AloneDoes, WroteKeeps
  <2>3. CopyInv'
    BY <2>1 DEF Wrote, CopyInv, device
  <2> QED BY <2>2, <2>3
<1>20. CASE UNCHANGED vars
  BY <1>20 DEF vars, LedgerInv, RecordInv, CopyInv, CallInv, RowInv, TypeOK, Clients, Queued
<1> QED
  BY <1>1, <1>2, <1>3, <1>4, <1>5, <1>6, <1>7, <1>8, <1>9, <1>10,
     <1>11, <1>12, <1>13, <1>14, <1>15, <1>16, <1>17, <1>18, <1>19, <1>20
  DEF Next

(* Every step keeps a row's key the last one made, and what a row says of  *)
(* its script so.                                                          *)
LEMMA RowStep == IInv /\ [Next]_vars => RowInv'
<1> SUFFICES ASSUME IInv, [Next]_vars PROVE RowInv'
  OBVIOUS
<1>a. TypeOK /\ TypeOK' /\ Calm /\ FormInv /\ CallInv /\ TodoInv /\ HeldInv
      /\ LedgerInv /\ RecordInv /\ RowInv /\ CopyInv /\ PassInv
  BY TypeStep DEF IInv
<1> USE <1>a
<1>1. ASSUME NEW s \in Subs, SubmitOffline(s) PROVE RowInv'
  BY <1>1, KeysAreNumbers, CallIsOut DEF SubmitOffline, device, server, setting, RowInv, TypeOK, CallInv, FormInv, PassInv, Clients, LedgerInv, Queued, NoRow, Swept, Expired, FreshRow
<1>2. ASSUME NEW s \in Subs, SubmitOnline(s) PROVE RowInv'
  BY <1>2, KeysAreNumbers, CallIsOut DEF SubmitOnline, device, server, setting, RowInv, TypeOK, CallInv, FormInv, PassInv, Clients, LedgerInv, Queued, NoRow, Swept, Expired, FreshRow
<1>3. ASSUME NEW s \in Subs, FormAnswered(s) PROVE RowInv'
  <2>1. call[s].at = "answered" /\ s \in Clients /\ ledger' = ledger
    BY <1>3 DEF FormAnswered, server, Clients
  <2>2. call[s] # Idle /\ call[s].key = minted[s]
    BY <2>1, CallIsOut DEF CallInv
  <2>3. CASE UNCHANGED minted
    <3>1. row' = row \/ row' = [row EXCEPT ![s] = FreshRow(minted[s])]
      BY <1>3, <2>2 DEF FormAnswered
    <3>2. minted[s] \in Keys
      BY DEF TypeOK
    <3>3. CASE row' = row
      BY <2>1, <2>3, <3>3 DEF RowInv, Queued
    <3>4. CASE row' = [row EXCEPT ![s] = FreshRow(minted[s])]
      BY <2>1, <2>3, <3>2, <3>4, RowFields DEF RowInv, Queued, TypeOK
    <3> QED BY <3>1, <3>3, <3>4
  <2>4. CASE Minted(s) /\ ~Queued(s) /\ row' = row
    <3>1. \A u \in Subs : u # s => minted'[u] = minted[u]
      BY <2>4 DEF Minted, TypeOK
    <3> QED BY <2>1, <2>4, <3>1 DEF RowInv, Queued
  <2> QED BY <1>3, <2>3, <2>4, FormMints
<1>4. ASSUME NEW s \in Subs, Retry(s) PROVE RowInv'
  <2>1. PICK k \in Keys :
         /\ row' = [u \in Subs |-> IF u \in Expired THEN NoRow
                                    ELSE IF u = s THEN FreshRow(k) ELSE row[u]]
         /\ \/ Minted(s) /\ k = minted[s] + 1
            \/ UNCHANGED minted /\ k = minted[s]
    BY <1>4, RetryMints
  <2>2. \A u \in Subs : minted'[u] = IF u = s THEN k ELSE minted[u]
    BY <2>1 DEF Minted, TypeOK
  <2>3. ledger' = ledger
    BY <1>4 DEF Retry, server
  <2> QED BY <2>1, <2>2, <2>3 DEF RowInv, Queued, FreshRow, NoRow
<1>5. ASSUME NEW s \in Subs, Discard(s) PROVE RowInv'
  BY <1>5, KeysAreNumbers, CallIsOut DEF Discard, device, server, setting, RowInv, TypeOK, CallInv, FormInv, PassInv, Clients, LedgerInv, Queued, NoRow, Swept, Expired, FreshRow
<1>6. ASSUME NEW s \in Subs, Age(s) PROVE RowInv'
  BY <1>6, KeysAreNumbers, CallIsOut DEF Age, device, server, setting, RowInv, TypeOK, CallInv, FormInv, PassInv, Clients, LedgerInv, Queued, NoRow, Swept, Expired, FreshRow
<1>7. ASSUME NEW t \in Tabs, StartPass(t) PROVE RowInv'
  BY <1>7, KeysAreNumbers, CallIsOut DEF StartPass, device, server, setting, RowInv, TypeOK, CallInv, FormInv, PassInv, Clients, LedgerInv, Queued, NoRow, Swept, Expired, FreshRow
<1>8. ASSUME NEW t \in Tabs, Claim(t) PROVE RowInv'
  <2>1. \A u \in Subs :
         row'[u].key = row[u].key /\ row'[u].failure = row[u].failure /\ (Queued(u)' => Queued(u))
    <3>1. PICK v \in Subs :
            \/ /\ row[v].status \in {"pending", "syncing"}
               /\ row' = [row EXCEPT ![v] = [row[v] EXCEPT !.status = "syncing"]]
            \/ row' = row
      BY <1>8 DEF Claim, TypeOK
    <3>2. CASE row' = row
      BY <3>2 DEF Queued
    <3>3. CASE /\ row[v].status \in {"pending", "syncing"}
               /\ row' = [row EXCEPT ![v] = [row[v] EXCEPT !.status = "syncing"]]
      <4>1. \A u \in Subs : row'[u] = IF u = v THEN [row[u] EXCEPT !.status = "syncing"] ELSE row[u]
        BY <3>3 DEF TypeOK
      <4>2. \A u \in Subs : row[u] \in Row
        BY DEF TypeOK
      <4> QED BY <3>3, <4>1, <4>2, RowFields DEF Queued
    <3> QED BY <3>1, <3>2, <3>3
  <2>2. ledger' = ledger /\ minted' = minted
    BY <1>8 DEF Claim, server
  <2> QED BY <2>1, <2>2 DEF RowInv
<1>9. ASSUME NEW t \in Tabs, Settle(t) PROVE RowInv'
  <2> DEFINE u == call[t].sub
  <2>1. /\ call[t].at = "answered" /\ u \in Subs /\ call[t].answer \in Answers
        /\ call[t].attempts \in 0 .. MaxAttempts
        /\ call[t] # Idle /\ t \in Clients
    BY <1>9, CallIsOut DEF Settle, Clients
  <2>2. ledger' = ledger /\ minted' = minted
    BY <1>9 DEF Settle, server
  <2>3. CASE ~Queued(u)
    BY <1>9, <2>2, <2>3 DEF Settle, StillThere, RowInv, Queued
  <2>4. CASE Queued(u)
    <3> DEFINE p == Patched(u, call[t].attempts, call[t].answer)
    <3>1. row' = [row EXCEPT ![u] = p]
      BY <1>9, <2>4 DEF Settle, StillThere
    <3>2. \/ p = NoRow
          \/ /\ p.key = row[u].key
             /\ p.failure = "script-ran" =>
                  row[u].failure = "script-ran" \/ call[t].answer = "scriptRan"
      BY <2>1, PatchedKeeps
    <3>3. call[t].answer = "scriptRan" => ledger[u][minted[u]] = "acted"
      BY <2>1, <2>4, ActedUnderLast
    <3> HIDE DEF p
    <3>4. p = NoRow => p.status = "none"
      BY RowFields
    <3>5. \A v \in Subs : row'[v] = IF v = u THEN p ELSE row[v]
      BY <3>1 DEF TypeOK
    <3> QED BY <2>1, <2>2, <2>4, <3>2, <3>3, <3>4, <3>5 DEF RowInv, Queued
  <2> QED BY <2>3, <2>4
<1>10. ASSUME NEW t \in Tabs, CloseTab(t) PROVE RowInv'
  BY <1>10, KeysAreNumbers, CallIsOut DEF CloseTab, device, server, setting, RowInv, TypeOK, CallInv, FormInv, PassInv, Clients, LedgerInv, Queued, NoRow, Swept, Expired, FreshRow
<1>11. CASE SignOut
  BY <1>11, KeysAreNumbers, CallIsOut DEF SignOut, device, server, setting, RowInv, TypeOK, CallInv, FormInv, PassInv, Clients, LedgerInv, Queued, NoRow, Swept, Expired, FreshRow
<1>12. CASE Replay
  BY <1>12, KeysAreNumbers, CallIsOut DEF Replay, device, server, setting, RowInv, TypeOK, CallInv, FormInv, PassInv, Clients, LedgerInv, Queued, NoRow, Swept, Expired, FreshRow
<1>13. CASE Replayed
  BY <1>13, KeysAreNumbers, CallIsOut DEF Replayed, device, server, setting, RowInv, TypeOK, CallInv, FormInv, PassInv, Clients, LedgerInv, Queued, NoRow, Swept, Expired, FreshRow
<1>14. ASSUME NEW c \in Clients, Reach(c) PROVE RowInv'
  <2>1. CASE Wrote(call[c].sub, "busy")
    BY <1>14, <2>1, ReachDoes, WroteKeeps DEF Entries
  <2>2. CASE UNCHANGED <<device, copies, ledger, records>>
    BY <2>2 DEF RowInv, Queued, device, setting
  <2> QED BY <1>14, <2>1, <2>2, ReachDoes
<1>15. ASSUME NEW c \in Clients, Judge(c) PROVE RowInv'
  <2>1. PICK e \in Entries : Wrote(call[c].sub, e)
    BY <1>15, JudgeDoes DEF Entries
  <2> QED BY <1>15, <2>1, JudgeDoes, WroteKeeps
<1>16. ASSUME NEW c \in Clients, Defer(c) PROVE RowInv'
  <2>1. PICK e \in Entries : Wrote(call[c].sub, e)
    BY <1>16, JudgeDoes DEF Entries
  <2> QED BY <1>16, <2>1, JudgeDoes, WroteKeeps
<1>17. ASSUME NEW c \in Clients, Lose(c) PROVE RowInv'
  BY <1>17, KeysAreNumbers, CallIsOut DEF Lose, device, server, setting, RowInv, TypeOK, CallInv, FormInv, PassInv, Clients, LedgerInv, Queued, NoRow, Swept, Expired, FreshRow
<1>18. ASSUME NEW c \in Clients, Intercept(c) PROVE RowInv'
  BY <1>18, KeysAreNumbers, CallIsOut DEF Intercept, device, server, setting, RowInv, TypeOK, CallInv, FormInv, PassInv, Clients, LedgerInv, Queued, NoRow, Swept, Expired, FreshRow
<1>19. ASSUME NEW s \in Subs, NEW k \in Keys, JudgeAlone(s, k) PROVE RowInv'
  <2>1. PICK e \in Entries : Wrote(s, e)
    BY <1>19, AloneDoes DEF Entries
  <2> QED BY <1>19, <2>1, AloneDoes, WroteKeeps
<1>20. CASE UNCHANGED vars
  BY <1>20 DEF vars, RowInv, TypeOK, CallInv, FormInv, PassInv, Clients, LedgerInv, Queued, NoRow, Swept, Expired, FreshRow
<1> QED
  BY <1>1, <1>2, <1>3, <1>4, <1>5, <1>6, <1>7, <1>8, <1>9, <1>10,
     <1>11, <1>12, <1>13, <1>14, <1>15, <1>16, <1>17, <1>18, <1>19, <1>20
  DEF Next

(* The fields of a request, new or answered.                               *)
LEMMA PostFields ==
  ASSUME NEW s, NEW k, NEW n
  PROVE  LET p == Post(s, k, n) IN
         p.at = "sent" /\ p.sub = s /\ p.key = k /\ p.answer = "-"
  BY DEF Post

LEMMA LearnsFields ==
  ASSUME TypeOK, NEW c \in Clients, call[c].at # "idle", NEW a \in Answers, Learns(c, a)
  PROVE  /\ call'[c].at = "answered" /\ call'[c].answer = a
         /\ call'[c].sub = call[c].sub /\ call'[c].key = call[c].key
         /\ \A d \in Clients : d # c => call'[d] = call[d]
<1>1. call' = [call EXCEPT ![c] = Answered(c, a)]
  BY DEF Learns
<1> QED
  BY <1>1, AnsweredType DEF TypeOK

LEMMA CallSubs ==
  ASSUME TypeOK
  PROVE  \A c \in Clients : call[c] # Idle =>
           call[c].sub \in Subs /\ call[c].key \in Keys /\ call[c].key \in Nat
  BY KeysAreNumbers DEF TypeOK, Call, Out

(* A key is reserved for one client at a time.                             *)
LEMMA HeldStep == IInv /\ [Next]_vars => HeldInv'
<1> SUFFICES ASSUME IInv, [Next]_vars PROVE HeldInv'
  OBVIOUS
<1>a. TypeOK /\ TypeOK' /\ Calm /\ FormInv /\ CallInv /\ TodoInv /\ HeldInv
      /\ LedgerInv /\ RecordInv /\ RowInv /\ CopyInv /\ PassInv
  BY TypeStep DEF IInv
<1> USE <1>a
<1>1. ASSUME NEW s \in Subs, SubmitOffline(s) PROVE HeldInv'
  BY <1>1, KeysAreNumbers, CallIsOut DEF SubmitOffline, device, server, setting, HeldInv, TypeOK, CallInv, Idle, Post, Answered, Clients
<1>2. ASSUME NEW s \in Subs, SubmitOnline(s) PROVE HeldInv'
  BY <1>2, KeysAreNumbers, CallIsOut DEF SubmitOnline, device, server, setting, HeldInv, TypeOK, CallInv, Idle, Post, Answered, Clients
<1>3. ASSUME NEW s \in Subs, FormAnswered(s) PROVE HeldInv'
  BY <1>3, KeysAreNumbers, CallIsOut DEF FormAnswered, device, server, setting, HeldInv, TypeOK, CallInv, Idle, Post, Answered, Clients
<1>4. ASSUME NEW s \in Subs, Retry(s) PROVE HeldInv'
  BY <1>4, KeysAreNumbers, CallIsOut DEF Retry, device, server, setting, HeldInv, TypeOK, CallInv, Idle, Post, Answered, Clients
<1>5. ASSUME NEW s \in Subs, Discard(s) PROVE HeldInv'
  BY <1>5, KeysAreNumbers, CallIsOut DEF Discard, device, server, setting, HeldInv, TypeOK, CallInv, Idle, Post, Answered, Clients
<1>6. ASSUME NEW s \in Subs, Age(s) PROVE HeldInv'
  BY <1>6, KeysAreNumbers, CallIsOut DEF Age, device, server, setting, HeldInv, TypeOK, CallInv, Idle, Post, Answered, Clients
<1>7. ASSUME NEW t \in Tabs, StartPass(t) PROVE HeldInv'
  BY <1>7, KeysAreNumbers, CallIsOut DEF StartPass, device, server, setting, HeldInv, TypeOK, CallInv, Idle, Post, Answered, Clients
<1>8. ASSUME NEW t \in Tabs, Claim(t) PROVE HeldInv'
  <2>1. \A c \in Clients : call'[c].at = "held" => call'[c] = call[c]
    <3>1. call' = call \/ \E u \in Subs : call' = [call EXCEPT ![t] = Post(u, row[u].key, row[u].attempts)]
      BY <1>8 DEF Claim, TypeOK
    <3> QED BY <3>1, PostFields DEF TypeOK, Clients
  <2> QED BY <2>1 DEF HeldInv
<1>9. ASSUME NEW t \in Tabs, Settle(t) PROVE HeldInv'
  BY <1>9, KeysAreNumbers, CallIsOut DEF Settle, StillThere, device, server, setting, HeldInv, TypeOK, CallInv, Idle, Post, Answered, Clients
<1>10. ASSUME NEW t \in Tabs, CloseTab(t) PROVE HeldInv'
  BY <1>10, KeysAreNumbers, CallIsOut DEF CloseTab, device, server, setting, HeldInv, TypeOK, CallInv, Idle, Post, Answered, Clients
<1>11. CASE SignOut
  BY <1>11, KeysAreNumbers, CallIsOut DEF SignOut, device, server, setting, HeldInv, TypeOK, CallInv, Idle, Post, Answered, Clients
<1>12. CASE Replay
  BY <1>12, KeysAreNumbers, CallIsOut DEF Replay, device, server, setting, HeldInv, TypeOK, CallInv, Idle, Post, Answered, Clients
<1>13. CASE Replayed
  BY <1>13, KeysAreNumbers, CallIsOut DEF Replayed, device, server, setting, HeldInv, TypeOK, CallInv, Idle, Post, Answered, Clients
<1>14. ASSUME NEW c \in Clients, Reach(c) PROVE HeldInv'
  <2>1. CASE /\ ledger[call[c].sub][call[c].key] = "none"
             /\ call' = [call EXCEPT ![c] = [call[c] EXCEPT !.at = "held"]]
    <3>1. call[c] \in Out({"sent", "held"}, {"-"})
      BY <1>14, ReachDoes DEF TypeOK, Call, Out, Idle
    <3>2. call'[c].sub = call[c].sub /\ call'[c].key = call[c].key
      BY <2>1, <3>1 DEF TypeOK, Out
    <3>3. \A d \in Clients : d # c => call'[d] = call[d]
      BY <2>1 DEF TypeOK
    <3>4. \A d \in Clients : call[d].at = "held" =>
            ledger[call[d].sub][call[d].key] = "busy"
      BY CallIsOut DEF CallInv
    <3> QED BY <2>1, <3>2, <3>3, <3>4 DEF HeldInv
  <2>2. CASE \E a \in Answers : Learns(c, a)
    <3>1. call[c].at # "idle"
      BY <1>14, ReachDoes
    <3>2. \A d \in Clients : call'[d].at = "held" => call'[d] = call[d]
      BY <2>2, <3>1, LearnsFields
    <3> QED BY <3>2 DEF HeldInv
  <2> QED BY <1>14, <2>1, <2>2, ReachDoes
<1>15. ASSUME NEW c \in Clients, Judge(c) PROVE HeldInv'
  BY <1>15, KeysAreNumbers, CallIsOut DEF Judge, device, server, setting, HeldInv, TypeOK, CallInv, Idle, Post, Answered, Clients
<1>16. ASSUME NEW c \in Clients, Defer(c) PROVE HeldInv'
  BY <1>16, KeysAreNumbers, CallIsOut DEF Defer, device, server, setting, HeldInv, TypeOK, CallInv, Idle, Post, Answered, Clients
<1>17. ASSUME NEW c \in Clients, Lose(c) PROVE HeldInv'
  BY <1>17, KeysAreNumbers, CallIsOut DEF Lose, device, server, setting, HeldInv, TypeOK, CallInv, Idle, Post, Answered, Clients
<1>18. ASSUME NEW c \in Clients, Intercept(c) PROVE HeldInv'
  BY <1>18, KeysAreNumbers, CallIsOut DEF Intercept, device, server, setting, HeldInv, TypeOK, CallInv, Idle, Post, Answered, Clients
<1>19. ASSUME NEW s \in Subs, NEW k \in Keys, JudgeAlone(s, k) PROVE HeldInv'
  BY <1>19, KeysAreNumbers, CallIsOut DEF JudgeAlone, device, server, setting, HeldInv, TypeOK, CallInv, Idle, Post, Answered, Clients
<1>20. CASE UNCHANGED vars
  BY <1>20 DEF vars, HeldInv, TypeOK, CallInv, Idle, Post, Answered, Clients
<1> QED
  BY <1>1, <1>2, <1>3, <1>4, <1>5, <1>6, <1>7, <1>8, <1>9, <1>10,
     <1>11, <1>12, <1>13, <1>14, <1>15, <1>16, <1>17, <1>18, <1>19, <1>20
  DEF Next

(* Every step keeps what a request knows so.                               *)
LEMMA CallStep == IInv /\ [Next]_vars => CallInv'
<1> SUFFICES ASSUME IInv, [Next]_vars PROVE CallInv'
  OBVIOUS
<1>a. TypeOK /\ TypeOK' /\ Calm /\ FormInv /\ CallInv /\ TodoInv /\ HeldInv
      /\ LedgerInv /\ RecordInv /\ RowInv /\ CopyInv /\ PassInv
  BY TypeStep DEF IInv
<1> USE <1>a
<1>1. ASSUME NEW s \in Subs, SubmitOffline(s) PROVE CallInv'
  BY <1>1, KeysAreNumbers, CallIsOut DEF SubmitOffline, device, server, setting, CallInv, TypeOK, Idle, Post, Answered, Clients, FormInv, CopyInv, HeldInv, LedgerInv, RowInv, RecordInv, TodoInv, Queued
<1>2. ASSUME NEW s \in Subs, SubmitOnline(s) PROVE CallInv'
  <2>1. /\ call' = [call EXCEPT ![s] = Post(s, key[s], 0)] /\ s \in Clients
        /\ UNCHANGED <<form, minted, open, ledger>>
    BY <1>2 DEF SubmitOnline, device, server, setting, Clients
  <2>2. form[s] = "blank" /\ key[s] = minted[s] /\ key[s] \in Nat /\ s \notin Tabs
    BY <1>2, KeysAreNumbers, QueueAssumption DEF SubmitOnline, FormInv, TypeOK
  <2> QED BY <2>1, <2>2, PostFields DEF CallInv, TypeOK
<1>3. ASSUME NEW s \in Subs, FormAnswered(s) PROVE CallInv'
  <2>1. /\ call' = [call EXCEPT ![s] = Idle] /\ s \in Clients
        /\ UNCHANGED <<open, ledger>>
    BY <1>3 DEF FormAnswered, server, setting, Clients
  <2>2. form' = form \/ form' = [form EXCEPT ![s] = "done"]
    BY <1>3 DEF FormAnswered
  <2>3. \A u \in Subs : u # s => minted'[u] = minted[u] /\ form'[u] = form[u]
    BY <1>3, <2>2, FormMints DEF Minted, TypeOK
  <2>4. minted[s] \in Nat /\ (minted'[s] = minted[s] \/ minted'[s] = minted[s] + 1)
    BY <1>3, FormMints, KeysAreNumbers DEF Minted, TypeOK
  <2>5. form[s] = "done" => form'[s] = "done"
    BY <2>2 DEF TypeOK
  <2>6. \A u \in Subs : minted[u] \in Nat /\ minted'[u] \in Nat /\ minted[u] <= minted'[u]
    <3>1. \A u \in Subs : minted[u] \in Keys /\ minted'[u] \in Keys
      BY DEF TypeOK
    <3>2. \A u \in Subs : minted[u] \in Nat /\ minted'[u] \in Nat
      BY <3>1, KeysAreNumbers
    <3>3. \A u \in Subs : minted'[u] = minted[u] \/ minted'[u] = minted[u] + 1
      BY <2>3, <2>4
    <3> QED BY <3>2, <3>3
  <2>7. ASSUME NEW c \in Clients, c # s, call[c] # Idle, NEW u \in Subs, u = call[c].sub
        PROVE  /\ call[c].key <= minted'[u]
               /\ c \in Subs => form'[u] = form[u] /\ minted'[u] = minted[u]
               /\ form[u] = "done" => form'[u] = "done"
    <3>1. call[c].key \in Nat /\ call[c].key <= minted[u]
      BY <2>7, CallSubs DEF CallInv
    <3>2. c \in Subs => u # s
      BY <2>7 DEF CallInv
    <3> QED BY <2>3, <2>5, <2>6, <3>1, <3>2
  <2>8. /\ call'[s] = Idle
        /\ \A c \in Clients : c # s => call'[c] = call[c] /\ (call[c] # Idle => call[c].sub \in Subs)
    BY <2>1, CallSubs DEF TypeOK
  <2> QED BY <2>1, <2>7, <2>8 DEF CallInv
<1>4. ASSUME NEW s \in Subs, Retry(s) PROVE CallInv'
  <2>1. UNCHANGED <<call, form, open, ledger>>
    BY <1>4 DEF Retry, server, setting
  <2>m. UNCHANGED minted \/ Minted(s)
    BY <1>4, RetryMints
  <2>2. \A u \in Subs : u # s => minted'[u] = minted[u]
    BY <2>m DEF Minted, TypeOK
  <2>3. minted[s] \in Nat /\ (minted'[s] = minted[s] \/ minted'[s] = minted[s] + 1)
    BY <2>m, KeysAreNumbers DEF Minted, TypeOK
  <2>4. form[s] # "blank"
    BY <1>4 DEF Retry, FormInv, Queued
  <2>6. \A u \in Subs : minted[u] \in Nat /\ minted'[u] \in Nat /\ minted[u] <= minted'[u]
    <3>1. \A u \in Subs : minted[u] \in Keys /\ minted'[u] \in Keys
      BY DEF TypeOK
    <3>2. \A u \in Subs : minted[u] \in Nat /\ minted'[u] \in Nat
      BY <3>1, KeysAreNumbers
    <3>3. \A u \in Subs : minted'[u] = minted[u] \/ minted'[u] = minted[u] + 1
      BY <2>2, <2>3
    <3> QED BY <3>2, <3>3
  <2>7. ASSUME NEW c \in Clients, call[c] # Idle, NEW u \in Subs, u = call[c].sub
        PROVE  /\ call[c].key <= minted'[u]
               /\ c \in Subs => minted'[u] = minted[u]
    <3>1. call[c].key \in Nat /\ call[c].key <= minted[u]
      BY <2>7, CallSubs DEF CallInv
    <3>2. c \in Subs => u # s
      BY <2>4, <2>7 DEF CallInv
    <3> QED BY <2>2, <2>6, <3>1, <3>2
  <2>8. \A c \in Clients : call[c] # Idle => call[c].sub \in Subs
    BY CallSubs
  <2> QED BY <2>1, <2>7, <2>8 DEF CallInv
<1>5. ASSUME NEW s \in Subs, Discard(s) PROVE CallInv'
  BY <1>5, KeysAreNumbers, CallIsOut DEF Discard, device, server, setting, CallInv, TypeOK, Idle, Post, Answered, Clients, FormInv, CopyInv, HeldInv, LedgerInv, RowInv, RecordInv, TodoInv, Queued
<1>6. ASSUME NEW s \in Subs, Age(s) PROVE CallInv'
  BY <1>6, KeysAreNumbers, CallIsOut DEF Age, device, server, setting, CallInv, TypeOK, Idle, Post, Answered, Clients, FormInv, CopyInv, HeldInv, LedgerInv, RowInv, RecordInv, TodoInv, Queued
<1>7. ASSUME NEW t \in Tabs, StartPass(t) PROVE CallInv'
  BY <1>7, KeysAreNumbers, CallIsOut DEF StartPass, device, server, setting, CallInv, TypeOK, Idle, Post, Answered, Clients, FormInv, CopyInv, HeldInv, LedgerInv, RowInv, RecordInv, TodoInv, Queued
<1>8. ASSUME NEW t \in Tabs, Claim(t) PROVE CallInv'
  <2>1. UNCHANGED <<form, minted, open, ledger>> /\ t \in Clients /\ t \notin Subs /\ t \in open
    BY <1>8, QueueAssumption DEF Claim, server, setting, Clients, TodoInv
  <2>2. CASE call' = call
    BY <2>1, <2>2 DEF CallInv
  <2>3. ASSUME NEW u \in Subs, row[u].status \in {"pending", "syncing"},
               call' = [call EXCEPT ![t] = Post(u, row[u].key, row[u].attempts)]
        PROVE  CallInv'
    <3>1. row[u].key = minted[u] /\ form[u] = "done" /\ minted[u] \in Nat
      BY <2>3, KeysAreNumbers DEF RowInv, FormInv, Queued, TypeOK
    <3> QED BY <2>1, <2>3, <3>1, PostFields DEF CallInv, TypeOK
  <2> QED BY <1>8, <2>2, <2>3 DEF Claim, TypeOK
<1>9. ASSUME NEW t \in Tabs, Settle(t) PROVE CallInv'
  BY <1>9, KeysAreNumbers, CallIsOut DEF Settle, StillThere, device, server, setting, CallInv, TypeOK, Idle, Post, Answered, Clients, FormInv, CopyInv, HeldInv, LedgerInv, RowInv, RecordInv, TodoInv, Queued
<1>10. ASSUME NEW t \in Tabs, CloseTab(t) PROVE CallInv'
  BY <1>10, KeysAreNumbers, CallIsOut DEF CloseTab, device, server, setting, CallInv, TypeOK, Idle, Post, Answered, Clients, FormInv, CopyInv, HeldInv, LedgerInv, RowInv, RecordInv, TodoInv, Queued
<1>11. CASE SignOut
  BY <1>11, KeysAreNumbers, CallIsOut DEF SignOut, device, server, setting, CallInv, TypeOK, Idle, Post, Answered, Clients, FormInv, CopyInv, HeldInv, LedgerInv, RowInv, RecordInv, TodoInv, Queued
<1>12. CASE Replay
  <2>1. UNCHANGED <<form, minted, open, ledger>> /\ Worker \in Clients
        /\ Worker \notin Subs /\ Worker \notin Tabs
    BY <1>12, QueueAssumption DEF Replay, device, server, setting, Clients
  <2>2. PICK p \in copies : call' = [call EXCEPT ![Worker] = Post(p[1], p[2], 0)]
    BY <1>12 DEF Replay
  <2>3. p[1] \in Subs /\ p[2] <= minted[p[1]]
    BY DEF TypeOK, CopyInv
  <2> QED BY <2>1, <2>2, <2>3, PostFields DEF CallInv, TypeOK
<1>13. CASE Replayed
  BY <1>13, KeysAreNumbers, CallIsOut DEF Replayed, device, server, setting, CallInv, TypeOK, Idle, Post, Answered, Clients, FormInv, CopyInv, HeldInv, LedgerInv, RowInv, RecordInv, TodoInv, Queued
<1>14. ASSUME NEW c \in Clients, Reach(c) PROVE CallInv'
  <2>1. /\ call[c].at = "sent" /\ call[c] # Idle /\ call[c].sub \in Subs /\ call[c].key \in Keys
        /\ UNCHANGED <<form, minted, open>>
    BY <1>14, CallIsOut DEF Reach, device, setting
  <2>2. CASE /\ ledger[call[c].sub][call[c].key] = "none"
             /\ call[c].key = minted[call[c].sub]
             /\ Wrote(call[c].sub, "busy")
             /\ call' = [call EXCEPT ![c] = [call[c] EXCEPT !.at = "held"]]
    <3>1. call[c] \in Out({"sent", "held"}, {"-"})
      BY <2>1 DEF TypeOK, Call, Out, Idle
    <3>2. /\ call'[c].sub = call[c].sub /\ call'[c].key = call[c].key /\ call'[c].answer = "-"
          /\ call'[c].at = "held" /\ ledger'[call[c].sub][call[c].key] = "busy"
      BY <2>1, <2>2, <3>1 DEF TypeOK, Out, Wrote
    <3>3. \A d \in Clients : d # c => call'[d] = call[d]
      BY <2>2 DEF TypeOK
    <3>4. \A u \in Subs, k \in Keys : ledger[u][k] # "none" => ledger'[u][k] = ledger[u][k]
      BY <2>1, <2>2 DEF Wrote, TypeOK
    <3>5. \A d \in Clients : d # c /\ call[d] # Idle => call[d].sub \in Subs /\ call[d].key \in Keys
      BY DEF TypeOK, Call, Out
    <3> QED BY <2>1, <3>2, <3>3, <3>4, <3>5 DEF CallInv
  <2>3. CASE (\E a \in Answers : Learns(c, a)) /\ ledger' = ledger
    <3>1. PICK a \in Answers : Learns(c, a)
      BY <2>3
    <3>2. \A d \in Clients : d # c => call'[d] = call[d]
      BY <3>1 DEF TypeOK, Learns
    <3> QED BY <2>1, <2>3, <3>1, <3>2, AnsweredType DEF CallInv, Learns, TypeOK
  <2> QED BY <1>14, <2>2, <2>3, ReachDoes
<1>15. ASSUME NEW c \in Clients, Judge(c) PROVE CallInv'
  <2>1. PICK e \in {"done", "acted", "none"} : Wrote(call[c].sub, e)
    BY <1>15, JudgeDoes
  <2>2. /\ call[c].at = "held" /\ call[c].sub \in Subs /\ call[c].key \in Keys
        /\ call[c].key = minted[call[c].sub] /\ call[c] # Idle
        /\ UNCHANGED <<form, minted, open>>
    BY <1>15, <2>1, JudgeDoes, CallIsOut DEF Wrote, device, setting
  <2>3. PICK a \in Answers : Learns(c, a)
    BY <1>15, JudgeDoes
  <2>4. \A u \in Subs, l \in Keys :
          ledger'[u][l] = IF u = call[c].sub /\ l = call[c].key THEN e ELSE ledger[u][l]
    BY <2>1, <2>2 DEF Wrote, TypeOK
  <2>5. \A d \in Clients : d # c => call'[d] = call[d]
    BY <2>3 DEF Learns, TypeOK
  <2>6. \A d \in Clients : call[d] # Idle => call[d].sub \in Subs /\ call[d].key \in Keys
    BY DEF TypeOK, Call, Out
  <2>7. ledger[call[c].sub][call[c].key] = "busy"
    BY <2>2 DEF CallInv
  <2>8. ASSUME NEW d \in Clients, d # c, call[d] # Idle
        PROVE  ledger'[call[d].sub][call[d].key] = ledger[call[d].sub][call[d].key]
               \/ (call[d].at # "held" /\ call[d].answer \notin {"stored", "scriptRan"})
    BY <2>2, <2>4, <2>6, <2>7, <2>8 DEF CallInv, HeldInv
  <2>9. /\ call'[c].sub = call[c].sub /\ call'[c].key = call[c].key
        /\ call'[c].at = "answered" /\ call'[c].answer = a
    BY <2>2, <2>3, LearnsFields
  <2>10. /\ a = "stored" => ledger'[call[c].sub][call[c].key] = "done"
         /\ a = "scriptRan" => ledger'[call[c].sub][call[c].key] = "acted"
    BY <2>3 DEF Learns
  <2> QED BY <2>2, <2>5, <2>8, <2>9, <2>10 DEF CallInv
<1>16. ASSUME NEW c \in Clients, Defer(c) PROVE CallInv'
  <2>1. PICK e \in {"done", "acted", "none"} : Wrote(call[c].sub, e)
    BY <1>16, JudgeDoes
  <2>2. /\ call[c].at = "held" /\ call[c].sub \in Subs /\ call[c].key \in Keys
        /\ call[c].key = minted[call[c].sub] /\ call[c] # Idle
        /\ UNCHANGED <<form, minted, open>>
    BY <1>16, <2>1, JudgeDoes, CallIsOut DEF Wrote, device, setting
  <2>3. PICK a \in Answers : Learns(c, a)
    BY <1>16, JudgeDoes
  <2>4. \A u \in Subs, l \in Keys :
          ledger'[u][l] = IF u = call[c].sub /\ l = call[c].key THEN e ELSE ledger[u][l]
    BY <2>1, <2>2 DEF Wrote, TypeOK
  <2>5. \A d \in Clients : d # c => call'[d] = call[d]
    BY <2>3 DEF Learns, TypeOK
  <2>6. \A d \in Clients : call[d] # Idle => call[d].sub \in Subs /\ call[d].key \in Keys
    BY DEF TypeOK, Call, Out
  <2>7. ledger[call[c].sub][call[c].key] = "busy"
    BY <2>2 DEF CallInv
  <2>8. ASSUME NEW d \in Clients, d # c, call[d] # Idle
        PROVE  ledger'[call[d].sub][call[d].key] = ledger[call[d].sub][call[d].key]
               \/ (call[d].at # "held" /\ call[d].answer \notin {"stored", "scriptRan"})
    BY <2>2, <2>4, <2>6, <2>7, <2>8 DEF CallInv, HeldInv
  <2>9. /\ call'[c].sub = call[c].sub /\ call'[c].key = call[c].key
        /\ call'[c].at = "answered" /\ call'[c].answer = a
    BY <2>2, <2>3, LearnsFields
  <2>10. /\ a = "stored" => ledger'[call[c].sub][call[c].key] = "done"
         /\ a = "scriptRan" => ledger'[call[c].sub][call[c].key] = "acted"
    BY <2>3 DEF Learns
  <2> QED BY <2>2, <2>5, <2>8, <2>9, <2>10 DEF CallInv
<1>17. ASSUME NEW c \in Clients, Lose(c) PROVE CallInv'
  BY <1>17, KeysAreNumbers, CallIsOut DEF Lose, device, server, setting, CallInv, TypeOK, Idle, Post, Answered, Clients, FormInv, CopyInv, HeldInv, LedgerInv, RowInv, RecordInv, TodoInv, Queued
<1>18. ASSUME NEW c \in Clients, Intercept(c) PROVE CallInv'
  BY <1>18, KeysAreNumbers, CallIsOut DEF Intercept, device, server, setting, CallInv, TypeOK, Idle, Post, Answered, Clients, FormInv, CopyInv, HeldInv, LedgerInv, RowInv, RecordInv, TodoInv, Queued
<1>19. ASSUME NEW s \in Subs, NEW k \in Keys, JudgeAlone(s, k) PROVE CallInv'
  <2>1. PICK e \in {"done", "acted", "none"} : Wrote(s, e)
    BY <1>19, AloneDoes
  <2>2. UNCHANGED <<form, minted, open>> /\ call' = call /\ ledger[s][k] = "busy" /\ k = minted[s]
    <3>1. call' = call /\ k = minted[s]
      BY <1>19, AloneDoes
    <3> QED BY <1>19, <3>1 DEF JudgeAlone, device, setting
  <2>3. \A d \in Clients : call[d] # Idle =>
          call[d].sub \in Subs /\ call[d].key \in Keys
    BY DEF TypeOK, Call, Out
  <2>4. \A u \in Subs, l \in Keys : ledger'[u][l] = IF u = s /\ l = k THEN e ELSE ledger[u][l]
    BY <2>1, <2>2 DEF Wrote, TypeOK
  <2>5. \A d \in Clients : ~(call[d].at = "held" /\ call[d].sub = s /\ call[d].key = k)
    BY <1>19 DEF JudgeAlone
  <2> QED BY <2>2, <2>3, <2>4, <2>5 DEF CallInv
<1>20. CASE UNCHANGED vars
  BY <1>20 DEF vars, CallInv, TypeOK, Idle, Post, Answered, Clients, FormInv, CopyInv, HeldInv, LedgerInv, RowInv, RecordInv, TodoInv, Queued
<1> QED
  BY <1>1, <1>2, <1>3, <1>4, <1>5, <1>6, <1>7, <1>8, <1>9, <1>10,
     <1>11, <1>12, <1>13, <1>14, <1>15, <1>16, <1>17, <1>18, <1>19, <1>20
  DEF Next

(* Every step keeps the row of a scripted submission with the one tab that *)
(* has it out.                                                             *)
LEMMA PassStep == IInv /\ [Next]_vars => PassInv'
<1> SUFFICES ASSUME IInv, [Next]_vars PROVE PassInv'
  OBVIOUS
<1>a. TypeOK /\ TypeOK' /\ Calm /\ FormInv /\ CallInv /\ TodoInv /\ HeldInv
      /\ LedgerInv /\ RecordInv /\ RowInv /\ CopyInv /\ PassInv
  BY TypeStep DEF IInv
<1> USE <1>a
<1>1. ASSUME NEW s \in Subs, SubmitOffline(s) PROVE PassInv'
  BY <1>1, KeysAreNumbers, CallIsOut DEF SubmitOffline, device, server, setting, PassInv, TypeOK, CallInv, FormInv, Idle, Post, Answered, Clients, RowInv, Calm, TodoInv, Queued, NoRow, Swept, Expired
<1>2. ASSUME NEW s \in Subs, SubmitOnline(s) PROVE PassInv'
  BY <1>2, KeysAreNumbers, CallIsOut DEF SubmitOnline, device, server, setting, PassInv, TypeOK, CallInv, FormInv, Idle, Post, Answered, Clients, RowInv, Calm, TodoInv, Queued, NoRow, Swept, Expired
<1>3. ASSUME NEW s \in Subs, FormAnswered(s) PROVE PassInv'
  <2>1. call' = [call EXCEPT ![s] = Idle] /\ UNCHANGED scripted /\ s \notin Tabs
    BY <1>3, QueueAssumption DEF FormAnswered, server, setting
  <2>2. form[s] = "blank"
    BY <1>3, CallIsOut DEF FormAnswered, CallInv, Clients
  <2>3. \A t \in Tabs : call'[t] = call[t] /\ (call[t] # Idle => call[t].sub # s /\ call[t].sub \in Subs)
    BY <2>1, <2>2 DEF CallInv, TypeOK, Clients, Call, Out
  <2>4. \A u \in Subs : u # s => row'[u] = row[u] /\ minted'[u] = minted[u]
    BY <1>3 DEF FormAnswered, TypeOK
  <2> QED BY <2>1, <2>3, <2>4 DEF PassInv, Queued
<1>4. ASSUME NEW s \in Subs, Retry(s) PROVE PassInv'
  <2>1. UNCHANGED <<call, scripted>> /\ row[s].status = "failed" /\ Queued(s)
    BY <1>4 DEF Retry, server, setting, Queued
  <2>2. \A u \in Subs : u # s =>
          minted'[u] = minted[u] /\ (Queued(u)' => Queued(u) /\ row'[u] = row[u])
    <3>1. PICK k \in Keys :
            /\ row' = [u \in Subs |-> IF u \in Expired THEN NoRow
                                       ELSE IF u = s THEN FreshRow(k) ELSE row[u]]
            /\ UNCHANGED minted \/ Minted(s)
      BY <1>4, RetryMints
    <3> QED BY <3>1, RowFields DEF Minted, TypeOK, Queued
  <2>3. \A t \in Tabs : call[t] # Idle => call[t].sub \in Subs
    BY DEF TypeOK, Call, Out, Clients
  <2>4. \A t \in Tabs : call[t] # Idle /\ call[t].sub \in scripted => call[t].sub # s
    BY <2>1 DEF PassInv
  <2> QED BY <2>1, <2>2, <2>3, <2>4 DEF PassInv
<1>5. ASSUME NEW s \in Subs, Discard(s) PROVE PassInv'
  BY <1>5, KeysAreNumbers, CallIsOut DEF Discard, device, server, setting, PassInv, TypeOK, CallInv, FormInv, Idle, Post, Answered, Clients, RowInv, Calm, TodoInv, Queued, NoRow, Swept, Expired
<1>6. ASSUME NEW s \in Subs, Age(s) PROVE PassInv'
  BY <1>6, KeysAreNumbers, CallIsOut DEF Age, device, server, setting, PassInv, TypeOK, CallInv, FormInv, Idle, Post, Answered, Clients, RowInv, Calm, TodoInv, Queued, NoRow, Swept, Expired
<1>7. ASSUME NEW t \in Tabs, StartPass(t) PROVE PassInv'
  BY <1>7, KeysAreNumbers, CallIsOut DEF StartPass, device, server, setting, PassInv, TypeOK, CallInv, FormInv, Idle, Post, Answered, Clients, RowInv, Calm, TodoInv, Queued, NoRow, Swept, Expired
<1>8. ASSUME NEW t \in Tabs, Claim(t) PROVE PassInv'
  <2>1. UNCHANGED <<minted, scripted, open>> /\ t \in open /\ t \in Clients
    BY <1>8 DEF Claim, server, setting, TodoInv, Clients
  <2>2. CASE UNCHANGED <<row, call>>
    BY <2>1, <2>2 DEF PassInv, Queued
  <2>3. ASSUME NEW u \in Subs, row[u].status \in {"pending", "syncing"},
               row' = [row EXCEPT ![u].status = "syncing"],
               call' = [call EXCEPT ![t] = Post(u, row[u].key, row[u].attempts)]
        PROVE  PassInv'
    <3>1. row[u] \in Row /\ row[u].key = minted[u]
      BY <2>3 DEF TypeOK, RowInv, Queued
    <3>2. row'[u].status = "syncing"
      BY <2>3, <3>1, RowFields DEF TypeOK
    <3>3. \A v \in Subs : v # u => row'[v] = row[v]
      BY <2>3 DEF TypeOK
    <3>4. \A v \in Tabs : v # t => call'[v] = call[v]
      BY <2>3 DEF TypeOK, Clients
    <3>5. call'[t].sub = u /\ call'[t].key = row[u].key
      BY <2>1, <2>3, PostFields DEF TypeOK
    <3>6. \A v \in Tabs : call[v] # Idle => call[v].sub \in Subs /\ v \in open
      BY DEF TypeOK, Call, Out, Clients, CallInv
    <3>7. \A v \in Tabs : v # t /\ call[v] # Idle => call[v].sub \notin scripted
      BY <2>1, <3>6 DEF Calm
    <3> QED BY <2>1, <3>1, <3>2, <3>3, <3>4, <3>5, <3>6, <3>7 DEF PassInv, Queued
  <2> QED BY <1>8, <2>2, <2>3 DEF Claim, TypeOK
<1>9. ASSUME NEW t \in Tabs, Settle(t) PROVE PassInv'
  BY <1>9, KeysAreNumbers, CallIsOut DEF Settle, StillThere, device, server, setting, PassInv, TypeOK, CallInv, FormInv, Idle, Post, Answered, Clients, RowInv, Calm, TodoInv, Queued, NoRow, Swept, Expired
<1>10. ASSUME NEW t \in Tabs, CloseTab(t) PROVE PassInv'
  BY <1>10, KeysAreNumbers, CallIsOut DEF CloseTab, device, server, setting, PassInv, TypeOK, CallInv, FormInv, Idle, Post, Answered, Clients, RowInv, Calm, TodoInv, Queued, NoRow, Swept, Expired
<1>11. CASE SignOut
  BY <1>11, KeysAreNumbers, CallIsOut DEF SignOut, device, server, setting, PassInv, TypeOK, CallInv, FormInv, Idle, Post, Answered, Clients, RowInv, Calm, TodoInv, Queued, NoRow, Swept, Expired
<1>12. CASE Replay
  <2>1. \A t \in Tabs : call'[t] = call[t]
    BY <1>12, QueueAssumption DEF Replay, TypeOK, Clients
  <2> QED BY <1>12, <2>1 DEF Replay, device, server, setting, PassInv, Queued
<1>13. CASE Replayed
  BY <1>13, KeysAreNumbers, CallIsOut DEF Replayed, device, server, setting, PassInv, TypeOK, CallInv, FormInv, Idle, Post, Answered, Clients, RowInv, Calm, TodoInv, Queued, NoRow, Swept, Expired
<1>14. ASSUME NEW c \in Clients, Reach(c) PROVE PassInv'
  <2>1. \A t \in Tabs : call'[t] # Idle =>
           call[t] # Idle /\ call'[t].sub = call[t].sub /\ call'[t].key = call[t].key
    <3>1. call[c].at = "sent" /\ call[c] # Idle /\ call[c] \in Out({"sent", "held"}, {"-"})
      BY <1>14, CallIsOut DEF Reach, TypeOK, Call, Out, Idle
    <3>2. \A d \in Clients : d # c => call'[d] = call[d]
      BY <1>14, ReachDoes DEF Learns, TypeOK
    <3>3. call'[c].sub = call[c].sub /\ call'[c].key = call[c].key
      BY <1>14, <3>1, ReachDoes, AnsweredType DEF Learns, TypeOK, Out
    <3> QED BY <3>1, <3>2, <3>3 DEF Clients
  <2> QED BY <1>14, <2>1 DEF Reach, device, setting, PassInv, Queued
<1>15. ASSUME NEW c \in Clients, Judge(c) PROVE PassInv'
  BY <1>15, KeysAreNumbers, CallIsOut DEF Judge, device, server, setting, PassInv, TypeOK, CallInv, FormInv, Idle, Post, Answered, Clients, RowInv, Calm, TodoInv, Queued, NoRow, Swept, Expired
<1>16. ASSUME NEW c \in Clients, Defer(c) PROVE PassInv'
  BY <1>16, KeysAreNumbers, CallIsOut DEF Defer, device, server, setting, PassInv, TypeOK, CallInv, FormInv, Idle, Post, Answered, Clients, RowInv, Calm, TodoInv, Queued, NoRow, Swept, Expired
<1>17. ASSUME NEW c \in Clients, Lose(c) PROVE PassInv'
  BY <1>17, KeysAreNumbers, CallIsOut DEF Lose, device, server, setting, PassInv, TypeOK, CallInv, FormInv, Idle, Post, Answered, Clients, RowInv, Calm, TodoInv, Queued, NoRow, Swept, Expired
<1>18. ASSUME NEW c \in Clients, Intercept(c) PROVE PassInv'
  BY <1>18, KeysAreNumbers, CallIsOut DEF Intercept, device, server, setting, PassInv, TypeOK, CallInv, FormInv, Idle, Post, Answered, Clients, RowInv, Calm, TodoInv, Queued, NoRow, Swept, Expired
<1>19. ASSUME NEW s \in Subs, NEW k \in Keys, JudgeAlone(s, k) PROVE PassInv'
  BY <1>19, KeysAreNumbers, CallIsOut DEF JudgeAlone, device, server, setting, PassInv, TypeOK, CallInv, FormInv, Idle, Post, Answered, Clients, RowInv, Calm, TodoInv, Queued, NoRow, Swept, Expired
<1>20. CASE UNCHANGED vars
  BY <1>20 DEF vars, PassInv, TypeOK, CallInv, FormInv, Idle, Post, Answered, Clients, RowInv, Calm, TodoInv, Queued, NoRow, Swept, Expired
<1> QED
  BY <1>1, <1>2, <1>3, <1>4, <1>5, <1>6, <1>7, <1>8, <1>9, <1>10,
     <1>11, <1>12, <1>13, <1>14, <1>15, <1>16, <1>17, <1>18, <1>19, <1>20
  DEF Next

(* The invariant holds at first, is kept, and so always holds.             *)
LEMMA IInvInit == Init /\ Calm => IInv
<1> SUFFICES ASSUME Init, Calm PROVE IInv
  OBVIOUS
<1>1. TypeOK
  BY TypeInit
<1>2. FormInv /\ TodoInv /\ RowInv /\ CopyInv
  BY DEF Init, FormInv, TodoInv, RowInv, CopyInv, Queued, NoRow
<1>3. CallInv /\ HeldInv /\ PassInv
  BY DEF Init, CallInv, HeldInv, PassInv, Clients, Idle
<1>4. \A s \in Subs : ledger[s] = [k \in Keys |-> "none"]
                       \/ ledger[s] = [k \in Keys |-> IF k = 0 THEN "other" ELSE "none"]
  BY DEF Init
<1>5. LedgerInv /\ RecordInv
  BY <1>4, KeysAreNumbers DEF Init, LedgerInv, RecordInv, Keys
<1> QED
  BY <1>1, <1>2, <1>3, <1>5 DEF IInv

LEMMA IInvStep == IInv /\ [Next]_vars => IInv'
  BY TypeStep, CalmStep, FormInvStep, TodoInvStep, ServerStep, RowStep, HeldStep, CallStep,
     PassStep DEF IInv

LEMMA IInvHolds == CalmSpec => []IInv
  BY IInvInit, IInvStep, PTL DEF CalmSpec, CalmInit

(* However often the form, the tabs and the service worker send it, and    *)
(* however often it gets a new key, a submission is stored once at most.   *)
THEOREM StoredOnceHolds == CalmSpec => []StoredOnce
<1>1. IInv => StoredOnce
  <2> SUFFICES ASSUME IInv, NEW s \in Subs PROVE records[s] <= 1
    BY DEF StoredOnce
  <2>1. records[s] = 0 \/ records[s] = 1
    BY DEF IInv, RecordInv
  <2> QED BY <2>1
<1> QED
  BY <1>1, IInvHolds, PTL

-----------------------------------------------------------------------------
(* The queue implements Outbox                                             *)

held == {s \in Subs : Queued(s)}

(* How each step that changes what Outbox sees maps to one of its steps.   *)
LEMMA TakeStep ==
  ASSUME IInv, NEW s \in Subs, form[s] = "blank", NEW k \in Keys,
         row' = [row EXCEPT ![s] = FreshRow(k)], UNCHANGED <<records, gone>>
  PROVE  Device!Take(s)
<1>1. ~Queued(s) /\ s \notin gone
  BY DEF IInv, FormInv
<1>2. \A u \in Subs : row'[u] = IF u = s THEN FreshRow(k) ELSE row[u]
  BY DEF IInv, TypeOK
<1>3. held' = held \cup {s}
  BY <1>2, RowFields DEF held, Queued
<1> QED
  BY <1>1, <1>3 DEF Device!Take, held

LEMMA DropStep ==
  ASSUME NEW D \in SUBSET held, held' = held \ D, gone' = gone \cup D, records' = records
  PROVE  [Device!Next]_(Device!vars)
  BY DEF Device!Next, Device!Drop, held

LEMMA SameStep ==
  ASSUME UNCHANGED <<held, records, gone>>
  PROVE  [Device!Next]_(Device!vars)
  BY DEF Device!vars, held

LEMMA ExpiredAreHeld == Expired \subseteq held
  BY DEF Expired, held, Queued

(* A record is stored when none was.                                       *)
LEMMA StoreStep ==
  ASSUME IInv, NEW s \in Subs, NEW e \in Entries, Wrote(s, e)
  PROVE  [Device!Next]_(Device!vars)
<1>1. held' = held /\ gone' = gone
  BY DEF Wrote, device, held, Queued
<1>2. records[s] = 0 /\ records \in [Subs -> Nat]
  BY DEF Wrote, IInv, RecordInv, TypeOK
<1>3. CASE e = "done"
  <2>1. Device!Store(s)
    BY <1>1, <1>2, <1>3 DEF Wrote, Device!Store, held
  <2> QED BY <2>1 DEF Device!Next
<1>4. CASE e # "done"
  <2>1. records' = records
    BY <1>2, <1>4 DEF Wrote
  <2> QED BY <1>1, <2>1, SameStep
<1> QED
  BY <1>3, <1>4

(* Every step is a step of Outbox, or leaves what it sees as it was.       *)
LEMMA OutboxStep == IInv /\ [Next]_vars => [Device!Next]_(Device!vars)
<1> SUFFICES ASSUME IInv, [Next]_vars PROVE [Device!Next]_(Device!vars)
  OBVIOUS
<1>a. TypeOK /\ TypeOK' /\ Calm /\ FormInv /\ CallInv /\ TodoInv /\ HeldInv
      /\ LedgerInv /\ RecordInv /\ RowInv /\ CopyInv /\ PassInv
  BY TypeStep DEF IInv
<1> USE <1>a
<1>1. ASSUME NEW s \in Subs, SubmitOffline(s) PROVE [Device!Next]_(Device!vars)
  <2>1. key[s] \in Keys /\ form[s] = "blank"
    BY <1>1 DEF SubmitOffline, TypeOK
  <2>2. Device!Take(s)
    BY <1>1, <2>1, TakeStep DEF SubmitOffline, server
  <2> QED BY <2>2 DEF Device!Next
<1>2. ASSUME NEW s \in Subs, SubmitOnline(s) PROVE [Device!Next]_(Device!vars)
  BY <1>2, SameStep DEF SubmitOnline, device, server, held, Queued
<1>3. ASSUME NEW s \in Subs, FormAnswered(s) PROVE [Device!Next]_(Device!vars)
  <2>1. call[s].at = "answered" /\ s \in Clients
    BY <1>3 DEF FormAnswered, Clients
  <2>2. call[s].key \in Keys /\ form[s] = "blank" /\ call[s].sub = s
    BY <2>1, CallIsOut DEF CallInv
  <2>3. UNCHANGED <<records, gone>>
    BY <1>3 DEF FormAnswered, server
  <2>4. CASE row' = row
    BY <2>3, <2>4, SameStep DEF held, Queued
  <2>5. CASE row' = [row EXCEPT ![s] = FreshRow(call[s].key)]
    <3>1. Device!Take(s)
      BY <2>2, <2>3, <2>5, TakeStep
    <3> QED BY <3>1 DEF Device!Next
  <2> QED BY <1>3, <2>4, <2>5 DEF FormAnswered
<1>4. ASSUME NEW s \in Subs, Retry(s) PROVE [Device!Next]_(Device!vars)
  <2>1. Queued(s) /\ s \notin Expired /\ records' = records /\ gone' = gone \cup Expired
    BY <1>4 DEF Retry, server, Queued, Expired
  <2>2. held' = held \ Expired
    <3>1. PICK k \in Keys :
            row' = [u \in Subs |-> IF u \in Expired THEN NoRow
                                    ELSE IF u = s THEN FreshRow(k) ELSE row[u]]
      BY <1>4, RetryMints
    <3> QED BY <2>1, <3>1, RowFields DEF held, Queued
  <2> QED BY <2>1, <2>2, ExpiredAreHeld, DropStep
<1>5. ASSUME NEW s \in Subs, Discard(s) PROVE [Device!Next]_(Device!vars)
  <2>1. Queued(s) /\ records' = records /\ gone' = gone \cup (Expired \cup {s})
    BY <1>5 DEF Discard, server, Queued
  <2>2. held' = held \ (Expired \cup {s})
    BY <1>5, RowFields DEF Discard, Swept, held, Queued, TypeOK
  <2>3. Expired \cup {s} \subseteq held
    BY <2>1, ExpiredAreHeld DEF held
  <2> QED BY <2>1, <2>2, <2>3, DropStep
<1>6. ASSUME NEW s \in Subs, Age(s) PROVE [Device!Next]_(Device!vars)
  <2>1. \A u \in Subs : row'[u].status = row[u].status
    BY <1>6 DEF Age, TypeOK, Row
  <2> QED BY <1>6, <2>1, SameStep DEF Age, server, held, Queued
<1>7. ASSUME NEW t \in Tabs, StartPass(t) PROVE [Device!Next]_(Device!vars)
  <2>1. records' = records /\ gone' = gone \cup Expired
    BY <1>7 DEF StartPass, server
  <2>2. held' = held \ Expired
    BY <1>7, RowFields DEF StartPass, Swept, held, Queued, TypeOK
  <2> QED BY <2>1, <2>2, ExpiredAreHeld, DropStep
<1>8. ASSUME NEW t \in Tabs, Claim(t) PROVE [Device!Next]_(Device!vars)
  <2>1. CASE row' = row
    BY <1>8, <2>1, SameStep DEF Claim, server, held, Queued
  <2>2. ASSUME NEW u \in Subs, row[u].status \in {"pending", "syncing"},
               row' = [row EXCEPT ![u] = [row[u] EXCEPT !.status = "syncing"]]
        PROVE  [Device!Next]_(Device!vars)
    <3>1. \A v \in Subs : Queued(v)' <=> Queued(v)
      BY <2>2, RowFields DEF TypeOK, Queued
    <3> QED BY <1>8, <3>1, SameStep DEF Claim, server, held
  <2> QED BY <1>8, <2>1, <2>2 DEF Claim, TypeOK
<1>9. ASSUME NEW t \in Tabs, Settle(t) PROVE [Device!Next]_(Device!vars)
  <2> DEFINE u == call[t].sub
           p == Patched(u, call[t].attempts, call[t].answer)
  <2>1. /\ call[t].at = "answered" /\ u \in Subs /\ call[t].answer \in Answers
        /\ call[t].attempts \in 0 .. MaxAttempts /\ call[t].key \in Keys
        /\ call[t] # Idle /\ t \in Clients
    BY <1>9, CallIsOut DEF Settle, Clients
  <2>2. UNCHANGED <<records, gone>>
    BY <1>9 DEF Settle, server
  <2>3. CASE ~Queued(u)
    BY <1>9, <2>2, <2>3, SameStep DEF Settle, StillThere, held, Queued
  <2>4. CASE Queued(u)
    <3>1. row' = [row EXCEPT ![u] = p]
      BY <1>9, <2>4 DEF Settle, StillThere
    <3>2. \/ p = NoRow /\ call[t].answer = "stored"
          \/ p.status \in {"pending", "failed"}
      BY <2>1, PatchedKeeps
    <3> HIDE DEF p
    <3>3. \A v \in Subs : row'[v] = IF v = u THEN p ELSE row[v]
      BY <3>1 DEF TypeOK
    <3>4. CASE p.status \in {"pending", "failed"}
      <4>1. held' = held
        BY <2>4, <3>3, <3>4 DEF held, Queued
      <4> QED BY <2>2, <4>1, SameStep
    <3>5. CASE p = NoRow /\ call[t].answer = "stored"
      <4>1. held' = held \ {u} /\ u \in held
        BY <2>1, <2>4, <3>3, <3>5, RowFields DEF held, Queued
      <4>2. ledger[u][call[t].key] = "done" /\ call[t].key <= minted[u]
        BY <2>1, <3>5 DEF CallInv
      <4>3. records[u] = 1
        BY <2>1, <4>2, LastKeyMade DEF RecordInv
      <4>4. {u} \in SUBSET held /\ Device!Release({u})
        BY <2>2, <4>1, <4>3 DEF Device!Release, held
      <4> QED BY <4>4 DEF Device!Next, held
    <3> QED BY <3>2, <3>4, <3>5
  <2> QED BY <2>3, <2>4
<1>10. ASSUME NEW t \in Tabs, CloseTab(t) PROVE [Device!Next]_(Device!vars)
  BY <1>10, SameStep DEF CloseTab, server, held, Queued
<1>11. CASE SignOut
  <2>1. records' = records /\ gone' = gone \cup held
    BY <1>11 DEF SignOut, server, held
  <2>2. held' = held \ held
    BY <1>11, RowFields DEF SignOut, held, Queued
  <2> QED BY <2>1, <2>2, DropStep
<1>12. CASE Replay
  BY <1>12, SameStep DEF Replay, device, server, held, Queued
<1>13. CASE Replayed
  BY <1>13, SameStep DEF Replayed, device, server, held, Queued
<1>14. ASSUME NEW c \in Clients, Reach(c) PROVE [Device!Next]_(Device!vars)
  <2>1. CASE Wrote(call[c].sub, "busy")
    BY <1>14, <2>1, ReachDoes, StoreStep DEF Entries
  <2>2. CASE UNCHANGED <<device, copies, ledger, records>>
    BY <2>2, SameStep DEF device, held, Queued
  <2> QED BY <1>14, <2>1, <2>2, ReachDoes
<1>15. ASSUME NEW c \in Clients, Judge(c) PROVE [Device!Next]_(Device!vars)
  BY <1>15, JudgeDoes, StoreStep DEF Entries
<1>16. ASSUME NEW c \in Clients, Defer(c) PROVE [Device!Next]_(Device!vars)
  BY <1>16, JudgeDoes, StoreStep DEF Entries
<1>17. ASSUME NEW c \in Clients, Lose(c) PROVE [Device!Next]_(Device!vars)
  BY <1>17, SameStep DEF Lose, device, server, held, Queued
<1>18. ASSUME NEW c \in Clients, Intercept(c) PROVE [Device!Next]_(Device!vars)
  BY <1>18, SameStep DEF Intercept, device, server, held, Queued
<1>19. ASSUME NEW s \in Subs, NEW k \in Keys, JudgeAlone(s, k) PROVE [Device!Next]_(Device!vars)
  BY <1>19, AloneDoes, StoreStep DEF Entries
<1>20. CASE UNCHANGED vars
  BY <1>20, SameStep DEF vars, held, Queued
<1> QED
  BY <1>1, <1>2, <1>3, <1>4, <1>5, <1>6, <1>7, <1>8, <1>9, <1>10,
     <1>11, <1>12, <1>13, <1>14, <1>15, <1>16, <1>17, <1>18, <1>19, <1>20
  DEF Next

(* What waits on the device stays there until the server has stored it,    *)
(* the person discards it or the retention period is over; what was let go *)
(* does not come back; and the server stores it once (offlineQueue.ts).    *)
THEOREM KeepsThePromiseHolds == CalmSpec => KeepsThePromise
<1>1. Init => Device!Init
  BY DEF Init, Device!Init, Queued, NoRow
<1>2. IInv /\ [Next]_vars => [Device!Next]_(Device!vars)
  BY OutboxStep
<1> QED
  BY <1>1, <1>2, IInvHolds, PTL DEF CalmSpec, CalmInit, KeepsThePromise, Device!Spec
=============================================================================
