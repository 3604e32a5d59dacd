-------------------------- MODULE NativeQueueProofs --------------------------
(***************************************************************************)
(* Theorems about NativeQueue, for any submissions, ids, accounts, keys    *)
(* and attempts: its types, that a pass sends nothing under another        *)
(* account, and that the runtime keeps the promise of Outbox when scripts  *)
(* act or the process and the file fail, but not both.                     *)
(***************************************************************************)
EXTENDS NativeQueue, TLAPS

-----------------------------------------------------------------------------
(* What a pass may send.                                                   *)

(* An id that is anywhere has been given to an item.                       *)
UsedInv ==
  /\ \A i \in Ids : i \in Held(memory) \cup Held(disk) \cup call.ids => of[i] # Unused
  /\ \A b \in pass.batches : \A i \in b : of[i] # Unused

(* A batch is out for a pass under way only.                               *)
PassInv == ~pass.on => call.at = "idle"

(* While the session lasts, what a pass has to send is its account's.      *)
OwnerInv ==
  pass.current =>
    /\ \A b \in pass.batches : \A i \in b : of[i].owner = who
    /\ call.at = "sent" => \A i \in call.ids : of[i].owner = who

-----------------------------------------------------------------------------
(* The invariant behind the promise.                                       *)

(* The file holds the list, and what expired while it took no write.       *)
DiskInv ==
  \A i \in Ids : \/ memory[i] = disk[i]
                 \/ memory[i] = NoItem /\ i \in Expired(disk)

(* A submission the form still shows is nowhere else.                      *)
BlankInv ==
  /\ \A i \in Ids : of[i] # Unused => form[of[i].sub] # "blank"
  /\ \A s \in Subs : form[s] = "blank" => s \notin gone /\ minted[s] = 0

GoneInv == \A i \in Held(memory) : of[i].sub \notin gone

(* Nobody has a key that was not made.                                     *)
KeyInv ==
  /\ \A i \in Ids : of[i] # Unused => of[i].key <= minted[of[i].sub]
  /\ \A p \in left \cup call.taken : p[2] <= minted[p[1]]

(* A new key is made only once the script has acted under the last one, so *)
(* the last key alone can have stored the submission.                      *)
LedgerInv ==
  \A s \in Subs, k \in Keys :
    /\ k < minted[s] => ledger[s][k] = "acted"
    /\ k > minted[s] => ledger[s][k] = "none"
    /\ ledger[s][k] = "acted" => s \in scripted

RecordInv ==
  \A s \in Subs : records[s] = IF ledger[s][minted[s]] = "done" THEN 1 ELSE 0

(* What a batch has begun is worked on for it alone.                       *)
WorkInv == \A p \in call.taken : ledger[p[1]][p[2]] = "busy"

(* What the page was answered is so.                                       *)
AnswerInv ==
  \A i \in call.ids :
    /\ call.got[i] = "stored" => records[of[i].sub] = 1
    /\ call.got[i] = "scriptRan" => ledger[of[i].sub][of[i].key] = "acted"

FailInv ==
  \A i \in Ids :
    memory[i].failure = "script-ran" =>
      of[i] # Unused /\ ledger[of[i].sub][of[i].key] = "acted"

(* Where nothing dies, a submission has one item, with its last key, beside *)
(* the one that a retry replaces.                                          *)
SoundInv ==
  sound =>
    \A i \in Held(memory) \ replaced :
      /\ of[i].key = minted[of[i].sub]
      /\ \A j \in Held(memory) \ replaced : of[i].sub = of[j].sub => i = j

IInv ==
  /\ TypeOK /\ Calm /\ UsedInv /\ DiskInv /\ BlankInv /\ GoneInv /\ KeyInv /\ LedgerInv
  /\ RecordInv /\ WorkInv /\ AnswerInv /\ FailInv /\ SoundInv

-----------------------------------------------------------------------------
(* Types                                                                   *)

LEMMA KeysAreNumbers ==
  /\ Keys \subseteq Nat /\ 0 \in Keys /\ MaxAttempts \in Nat \ {0} /\ LastKey \in Nat
  /\ Nobody \notin Accounts /\ "-" \notin Subs
  BY NativeAssumption DEF Keys

LEMMA ItemTypes ==
  /\ NoItem \in Item /\ FreshItem \in Item
  /\ NoItem.status = "none" /\ NoItem.failure = "-" /\ ~NoItem.old
  /\ FreshItem.status = "pending" /\ FreshItem.failure = "-" /\ ~FreshItem.old
<1>1. 0 \in 0 .. MaxAttempts
  BY KeysAreNumbers
<1>2. NoItem \in Item
  BY <1>1 DEF NoItem, Item
<1> QED
  BY <1>2 DEF NoItem, FreshItem, Item

LEMMA CallTypes ==
  /\ Idle \in Call /\ Idle.at = "idle" /\ Idle.ids = {} /\ Idle.taken = {}
  /\ \A b \in SUBSET Ids : /\ Post(b) \in Call /\ Post(b).at = "sent" /\ Post(b).ids = b
                           /\ Post(b).taken = {} /\ Post(b).got = [i \in Ids |-> "-"]
  BY DEF Idle, Post, Call, Results

LEMMA PassTypes == NoPass \in Pass /\ ~NoPass.current /\ NoPass.batches = {}
  BY DEF NoPass, Pass

LEMMA OutcomesAre == Outcomes \subseteq BOOLEAN /\ TRUE \in Outcomes /\ (sound => Outcomes = {TRUE})
  BY DEF Outcomes

(* What an id was given to has a submission, a key and an owner.           *)
LEMMA UsedType ==
  ASSUME TypeOK, NEW i \in Ids, of[i] # Unused
  PROVE  /\ of[i].sub \in Subs /\ of[i].key \in Keys /\ of[i].owner \in Owners
         /\ PairOf(i) \in Subs \X Keys
         /\ PairOf(i)[1] = of[i].sub /\ PairOf(i)[2] = of[i].key
  BY DEF TypeOK, PairOf

LEMMA AboutType ==
  ASSUME NEW s \in Subs, NEW k \in Keys, NEW a \in Owners
  PROVE  /\ About(s, k, a) \in [sub : Subs, key : Keys, owner : Owners]
         /\ About(s, k, a).sub = s /\ About(s, k, a).key = k /\ About(s, k, a).owner = a
         /\ About(s, k, a) # Unused
  BY KeysAreNumbers DEF About, Unused, Owners

LEMMA PersistType ==
  ASSUME TypeOK, NEW q \in [Ids -> Item], NEW ok \in BOOLEAN, Persist(q, ok)
  PROVE  memory' \in [Ids -> Item] /\ disk' \in [Ids -> Item]
  BY DEF Persist, RolledBack, TypeOK

LEMMA WithoutType ==
  ASSUME NEW q \in [Ids -> Item], NEW I
  PROVE  /\ Without(q, I) \in [Ids -> Item]
         /\ \A i \in Ids : Without(q, I)[i] = IF i \in I THEN NoItem ELSE q[i]
  BY ItemTypes DEF Without

LEMMA FailedType ==
  ASSUME TypeOK, NEW i \in Ids, NEW f \in {"conflict", "script-ran", "gave-up"}
  PROVE  Failed(i, f) \in Item /\ Failed(i, f).status = "failed" /\ Failed(i, f).failure = f
<1>1. memory[i] \in Item
  BY DEF TypeOK
<1> QED
  BY <1>1 DEF Failed, Item

LEMMA TriedType ==
  ASSUME TypeOK, NEW i \in Ids
  PROVE  /\ Tried(i) \in Item /\ Tried(i).status \in {memory[i].status, "failed"}
         /\ Tried(i).failure \in {memory[i].failure, "gave-up"}
<1>1. memory[i] \in Item
  BY DEF TypeOK
<1>2. CASE memory[i].attempts + 1 >= MaxAttempts
  <2>1. MaxAttempts \in 0 .. MaxAttempts
    BY KeysAreNumbers
  <2>2. Tried(i) = [Failed(i, "gave-up") EXCEPT !.attempts = MaxAttempts]
    BY <1>2 DEF Tried
  <2>3. Failed(i, "gave-up") \in Item /\ Failed(i, "gave-up").status = "failed"
        /\ Failed(i, "gave-up").failure = "gave-up"
    BY FailedType
  <2> QED BY <2>1, <2>2, <2>3 DEF Item
<1>3. CASE ~(memory[i].attempts + 1 >= MaxAttempts)
  <2>1. memory[i].attempts + 1 \in 0 .. MaxAttempts
    BY <1>1, <1>3, KeysAreNumbers DEF Item
  <2> QED BY <1>1, <1>3, <2>1 DEF Tried, Item
<1> QED
  BY <1>2, <1>3

LEMMA MarkedType ==
  ASSUME TypeOK, NEW r \in {"conflict", "scriptRan", "refused"}
  PROVE  /\ Marked(r) \in [Ids -> Item]
         /\ \A i \in Ids : \/ Marked(r)[i] = memory[i]
                            \/ /\ i \in With(r) /\ i \in Held(memory)
                               /\ Marked(r)[i].status \in {memory[i].status, "failed"}
                               /\ Marked(r)[i].failure = "script-ran" =>
                                    r = "scriptRan" \/ memory[i].failure = "script-ran"
<1>1. ASSUME NEW i \in Ids
      PROVE  LET m == IF i \notin With(r) \cap Held(memory) THEN memory[i]
                       ELSE CASE r = "conflict" -> Failed(i, "conflict")
                              [] r = "scriptRan" -> Failed(i, "script-ran")
                              [] OTHER -> Tried(i)
             IN  /\ m \in Item
                 /\ \/ m = memory[i]
                    \/ /\ i \in With(r) /\ i \in Held(memory)
                       /\ m.status \in {memory[i].status, "failed"}
                       /\ m.failure = "script-ran" =>
                            r = "scriptRan" \/ memory[i].failure = "script-ran"
  <2>1. memory[i] \in Item
    BY DEF TypeOK
  <2>2. CASE i \notin With(r) \cap Held(memory)
    BY <2>1, <2>2
  <2>3. CASE i \in With(r) \cap Held(memory) /\ r = "conflict"
    BY <2>3, FailedType
  <2>4. CASE i \in With(r) \cap Held(memory) /\ r = "scriptRan"
    BY <2>4, FailedType
  <2>5. CASE i \in With(r) \cap Held(memory) /\ r = "refused"
    BY <2>5, TriedType
  <2> QED BY <2>2, <2>3, <2>4, <2>5
<1> QED
  BY <1>1 DEF Marked

LEMMA HeldAre == \A q : Held(q) \subseteq Ids
  BY DEF Held

LEMMA LetGoAre == \A I : LetGo(I) \subseteq Subs
  BY DEF LetGo

LEMMA EndsType ==
  ASSUME TypeOK, NEW p \in Subs \X Keys, NEW r, Ends(p, r)
  PROVE  ledger' \in [Subs -> [Keys -> Entries]] /\ records' \in [Subs -> Nat]
<1>1. ledger[p[1]] \in [Keys -> Entries] /\ records[p[1]] \in Nat /\ p[1] \in Subs /\ p[2] \in Keys
  BY DEF TypeOK
<1>2. PICK e \in Entries : ledger' = [ledger EXCEPT ![p[1]][p[2]] = e]
  BY DEF Ends, Entries
<1> QED
  BY <1>1, <1>2 DEF Ends, TypeOK

LEMMA AnsweredType ==
  ASSUME TypeOK, NEW p, NEW r \in Results
  PROVE  /\ Answered(p, r) \in Call
         /\ Answered(p, r).at \in {"settling", "held"} /\ Answered(p, r).ids = call.ids
         /\ Answered(p, r).taken = call.taken \ {p}
         /\ \A i \in Ids : Answered(p, r).got[i] = IF i \in call.ids /\ PairOf(i) = p THEN r ELSE call.got[i]
<1> DEFINE got == [i \in Ids |-> IF i \in call.ids /\ PairOf(i) = p THEN r ELSE call.got[i]]
<1>1. got \in [Ids -> Results]
  BY DEF TypeOK, Call
<1> HIDE DEF got
<1>2. Answered(p, r) = [call EXCEPT !.got = got, !.taken = @ \ {p},
         !.at = IF \A i \in call.ids : got[i] # "-" THEN "settling" ELSE "held"]
  BY DEF Answered, got
<1>3. call \in Call
  BY DEF TypeOK
<1>4. /\ Answered(p, r).got = got /\ Answered(p, r).ids = call.ids
      /\ Answered(p, r).taken = call.taken \ {p}
      /\ Answered(p, r).at \in {"settling", "held"}
  BY <1>2, <1>3 DEF Call
<1>5. Answered(p, r) \in Call
  BY <1>1, <1>2, <1>3 DEF Call
<1> QED
  BY <1>4, <1>5 DEF got

LEMMA SplitsAre == \A S, P : P \in Splits(S) => P \subseteq SUBSET S
  BY DEF Splits

LEMMA UntakenType == TypeOK /\ UsedInv => Untaken \subseteq Subs \X Keys
<1> SUFFICES ASSUME TypeOK, UsedInv, call.at = "held", NEW i \in call.ids
             PROVE  PairOf(i) \in Subs \X Keys
  BY DEF Untaken
<1>1. i \in Ids /\ of[i] # Unused
  BY DEF TypeOK, Call, UsedInv
<1> QED
  BY <1>1, UsedType

LEMMA TypeInit == Init => TypeOK
<1> SUFFICES ASSUME Init PROVE TypeOK
  OBVIOUS
<1>1. memory \in [Ids -> Item] /\ disk \in [Ids -> Item]
  BY ItemTypes DEF Init
<1>2. ledger \in [Subs -> [Keys -> Entries]]
  BY DEF Init, Entries
<1> QED
  BY <1>1, <1>2, CallTypes, PassTypes, KeysAreNumbers DEF Init, TypeOK, Owners

(* Enqueue writes a fresh item under an id that was not given yet.         *)
LEMMA EnqueueDoes ==
  ASSUME TypeOK, NEW s \in Subs, NEW k \in Keys, NEW ok \in BOOLEAN, Enqueue(s, k, ok)
  PROVE  \/ UNCHANGED <<of, memory, disk>> /\ ~ok
         \/ /\ ok
            /\ \E i \in Ids : /\ of[i] = Unused
                               /\ of' = [of EXCEPT ![i] = About(s, k, who)]
                               /\ memory' = [memory EXCEPT ![i] = FreshItem]
                               /\ disk' = [memory EXCEPT ![i] = FreshItem]
<1>1. CASE ok
  BY <1>1 DEF Enqueue, Persist
<1>2. CASE ~ok
  BY <1>2 DEF Enqueue, Persist, RolledBack
<1> QED
  BY <1>1, <1>2

LEMMA EnqueueType ==
  ASSUME TypeOK, NEW s \in Subs, NEW k \in Keys, NEW ok \in BOOLEAN, Enqueue(s, k, ok)
  PROVE  /\ of' \in [Ids -> {Unused} \cup [sub : Subs, key : Keys, owner : Owners]]
         /\ memory' \in [Ids -> Item] /\ disk' \in [Ids -> Item]
<1>1. About(s, k, who) \in [sub : Subs, key : Keys, owner : Owners]
  BY AboutType DEF TypeOK
<1>2. CASE UNCHANGED <<of, memory, disk>>
  BY <1>2 DEF TypeOK
<1>3. ASSUME NEW i \in Ids, of' = [of EXCEPT ![i] = About(s, k, who)],
             memory' = [memory EXCEPT ![i] = FreshItem], disk' = [memory EXCEPT ![i] = FreshItem]
      PROVE  /\ of' \in [Ids -> {Unused} \cup [sub : Subs, key : Keys, owner : Owners]]
             /\ memory' \in [Ids -> Item] /\ disk' \in [Ids -> Item]
  BY <1>1, <1>3, ItemTypes DEF TypeOK
<1> QED
  BY <1>2, <1>3, EnqueueDoes

LEMMA AckType ==
  ASSUME TypeOK, NEW I, NEW ok \in BOOLEAN, Ack(I, ok)
  PROVE  /\ memory' \in [Ids -> Item] /\ disk' \in [Ids -> Item] /\ gone' \subseteq Subs
<1>1. Without(memory, I) \in [Ids -> Item]
  BY WithoutType DEF TypeOK
<1> QED
  BY <1>1, PersistType, LetGoAre DEF Ack, TypeOK

(* Every step keeps every variable in its set.                             *)
LEMMA TypeStep == TypeOK /\ UsedInv /\ [Next]_vars => TypeOK'
<1> SUFFICES ASSUME TypeOK, UsedInv, [Next]_vars PROVE TypeOK'
  OBVIOUS
<1> USE DEF TypeOK, setting, person, queue, server
<1>1. ASSUME NEW s \in Subs, Submit(s) PROVE TypeOK'
  <2>1. CASE UNCHANGED <<of, memory, disk>> /\ form' = [form EXCEPT ![s] = "passed"]
    BY <1>1, <2>1 DEF Submit
  <2>2. ASSUME NEW ok \in BOOLEAN, Enqueue(s, 0, ok), form' \in [Subs -> {"blank", "kept", "passed"}]
        PROVE  TypeOK'
    BY <1>1, <2>2, EnqueueType, KeysAreNumbers DEF Submit
  <2> QED BY <1>1, <2>1, <2>2 DEF Submit
<1>2. ASSUME NEW i \in Ids, Retry(i) PROVE TypeOK'
  <2>1. PICK ok \in Outcomes :
         /\ replaced' = IF ok THEN {i} ELSE {}
         /\ \/ /\ memory[i].failure = "script-ran"
               /\ minted[of[i].sub] < LastKey
               /\ minted' = [minted EXCEPT ![of[i].sub] = @ + 1]
               /\ Enqueue(of[i].sub, minted[of[i].sub] + 1, ok)
            \/ /\ memory[i].failure # "script-ran"
               /\ Enqueue(of[i].sub, of[i].key, ok)
               /\ UNCHANGED minted
    BY <1>2 DEF Retry
  <2>2. ok \in BOOLEAN /\ of[i] # Unused
    BY <1>2, OutcomesAre DEF Retry, Offered, UsedInv, Held
  <2>3. of[i].sub \in Subs /\ of[i].key \in Keys
    BY <2>2, UsedType
  <2>4. minted[of[i].sub] \in Keys
    BY <2>3
  <2>5. minted[of[i].sub] < LastKey => minted[of[i].sub] + 1 \in Keys
    BY <2>4, KeysAreNumbers DEF Keys
  <2>6. PICK k \in Keys : Enqueue(of[i].sub, k, ok)
    BY <2>1, <2>3, <2>5
  <2>7. of' \in [Ids -> {Unused} \cup [sub : Subs, key : Keys, owner : Owners]]
        /\ memory' \in [Ids -> Item] /\ disk' \in [Ids -> Item]
    BY <2>2, <2>3, <2>6, EnqueueType
  <2>8. minted' \in [Subs -> Keys] /\ replaced' \subseteq Ids
    BY <2>1, <2>3, <2>5
  <2> QED BY <1>2, <2>7, <2>8 DEF Retry
<1>3. ASSUME NEW i \in Ids, Discard(i) PROVE TypeOK'
  <2>1. PICK ok \in BOOLEAN : Ack({i}, ok)
    BY <1>3, OutcomesAre DEF Discard
  <2> QED BY <1>3, <2>1, AckType DEF Discard, person
<1>4. ASSUME NEW i \in Ids, Age(i) PROVE TypeOK'
  <2>1. \A x \in Item : [x EXCEPT !.old = TRUE] \in Item
    BY DEF Item
  <2>2. memory' \in [Ids -> Item] /\ disk' \in [Ids -> Item]
    BY <1>4, <2>1 DEF Age
  <2> QED BY <1>4, <2>2 DEF Age
<1>5. ASSUME NEW i \in Ids, TakeUp(i) PROVE TypeOK'
  <2>1. of[i] # Unused /\ PairOf(i) \in Subs \X Keys
    BY <1>5, UsedType DEF TakeUp, Open, UsedInv
  <2>2. call' \in Call
    <3>1. CASE call' = [call EXCEPT !.taken = @ \cup {PairOf(i)}]
      BY <2>1, <3>1 DEF Call
    <3>2. CASE \E r \in Results : call' = Answered(PairOf(i), r)
      BY <3>2, AnsweredType
    <3>3. (CASE ledger[PairOf(i)[1]][PairOf(i)[2]] = "busy" -> "processing"
              [] ledger[PairOf(i)[1]][PairOf(i)[2]] = "done" -> "stored"
              [] ledger[PairOf(i)[1]][PairOf(i)[2]] = "acted" -> "scriptRan"
              [] ledger[PairOf(i)[1]][PairOf(i)[2]] = "other" -> "conflict") \in Results
          \/ ledger[PairOf(i)[1]][PairOf(i)[2]] = "none"
      <4>1. ledger[PairOf(i)[1]][PairOf(i)[2]] \in Entries
        BY <2>1
      <4> QED BY <4>1 DEF Entries, Results
    <3> QED BY <1>5, <3>1, <3>2, <3>3 DEF TakeUp
  <2>3. ledger' \in [Subs -> [Keys -> Entries]]
    <3>1. "busy" \in Entries /\ PairOf(i)[1] \in Subs /\ PairOf(i)[2] \in Keys
      BY <2>1 DEF Entries
    <3>2. ledger' = ledger \/ ledger' = [ledger EXCEPT ![PairOf(i)[1]][PairOf(i)[2]] = "busy"]
      BY <1>5 DEF TakeUp
    <3>3. ledger \in [Subs -> [Keys -> Entries]]
      OBVIOUS
    <3> QED BY ONLY <3>1, <3>2, <3>3
  <2> QED BY <1>5, <2>2, <2>3 DEF TakeUp
<1>6. ASSUME NEW i \in Ids, HandBack(i) PROVE TypeOK'
  <2>1. call' \in Call
    BY <1>6, AnsweredType DEF HandBack, Results
  <2> QED BY <1>6, <2>1 DEF HandBack
<1>7. CASE RemoveReplaced
  <2>1. PICK ok \in BOOLEAN : Ack(replaced, ok)
    BY <1>7, OutcomesAre DEF RemoveReplaced
  <2> QED BY <1>7, <2>1, AckType DEF RemoveReplaced, person
<1>8. CASE Sweep
  <2>1. memory' \in [Ids -> Item] /\ disk' \in [Ids -> Item] /\ gone' \subseteq Subs
    BY <1>8, WithoutType, LetGoAre, OutcomesAre DEF Sweep
  <2> QED BY <1>8, <2>1 DEF Sweep
<1>9. CASE SessionExpires
  <2>1. pass' \in Pass
    BY <1>9 DEF SessionExpires, Boundary, Pass
  <2> QED BY <1>9, <2>1 DEF SessionExpires, Owners
<1>10. CASE SignOut
  <2>1. pass' \in Pass
    BY <1>10 DEF SignOut, Boundary, Pass
  <2> QED BY <1>10, <2>1 DEF SignOut, Owners
<1>11. CASE Purge
  <2>1. PICK ok \in BOOLEAN : Ack(purging, ok)
    BY <1>11, OutcomesAre DEF Purge
  <2> QED BY <1>11, <2>1, AckType DEF Purge, person
<1>12. CASE Crash
  <2>1. memory' \in [Ids -> Item] /\ disk' \in [Ids -> Item] /\ gone' \subseteq Subs
    BY <1>12, WithoutType, LetGoAre, OutcomesAre DEF Crash
  <2> QED BY <1>12, <2>1, UntakenType, PassTypes, CallTypes DEF Crash
<1>13. ASSUME NEW a \in Accounts, SignIn(a) PROVE TypeOK'
  <2>1. pass' \in Pass
    BY <1>13 DEF SignIn, Boundary, Pass
  <2> QED BY <1>13, <2>1 DEF SignIn, Owners
<1>14. ASSUME NEW a \in Accounts, LookUp(a) PROVE TypeOK'
  BY <1>14, HeldAre DEF LookUp
<1>15. CASE StartPass
  <2>1. pass' \in Pass
    BY <1>15, HeldAre, SplitsAre DEF StartPass, Pass
  <2> QED BY <1>15, <2>1 DEF StartPass
<1>16. CASE SendBatch
  <2>1. PICK b \in pass.batches : pass' = [pass EXCEPT !.batches = @ \ {b}] /\ call' = Post(b)
    BY <1>16 DEF SendBatch
  <2>2. pass' \in Pass /\ call' \in Call
    BY <2>1, CallTypes DEF Pass
  <2> QED BY <1>16, <2>2 DEF SendBatch
<1>17. CASE PassEnds
  BY <1>17, PassTypes DEF PassEnds
<1>18. CASE Unreached
  BY <1>18, PassTypes, CallTypes, UntakenType DEF Unreached
<1>19. CASE TooLarge
  <2>1. PICK P \in Splits(call.ids) : pass' = [pass EXCEPT !.batches = @ \cup P]
    BY <1>19 DEF TooLarge
  <2>2. P \subseteq SUBSET Ids
    BY SplitsAre DEF Call
  <2>3. pass' \in Pass
    BY <2>1, <2>2 DEF Pass
  <2> QED BY <1>19, <2>3, CallTypes DEF TooLarge
<1>20. CASE Rejected
  <2>1. call' \in Call
    BY <1>20 DEF Rejected, Call, Results
  <2> QED BY <1>20, <2>1, UntakenType DEF Rejected
<1>21. CASE BatchEnds
  BY <1>21, CallTypes DEF BatchEnds
<1>22. CASE Reach
  <2>1. call' \in Call
    BY <1>22 DEF Reach, Call
  <2> QED BY <1>22, <2>1 DEF Reach
<1>23. ASSUME NEW r \in Results, NEW ok \in Outcomes, Settle(r, ok) PROVE TypeOK'
  <2>1. call' \in Call
    BY <1>23 DEF Settle, Call
  <2>2. memory' \in [Ids -> Item] /\ disk' \in [Ids -> Item]
    <3>1. ok \in BOOLEAN
      BY OutcomesAre
    <3>2. CASE Persist(Without(memory, With(r)), ok)
      <4>1. Without(memory, With(r)) \in [Ids -> Item]
        BY WithoutType
      <4> QED BY <3>1, <3>2, <4>1, PersistType
    <3>3. CASE r \in {"conflict", "scriptRan", "refused"} /\ Persist(Marked(r), ok)
      BY <3>1, <3>3, MarkedType, PersistType
    <3> QED BY <1>23, <3>2, <3>3 DEF Settle
  <2> QED BY <1>23, <2>1, <2>2 DEF Settle
<1>24. ASSUME NEW p \in Subs \X Keys, Judge(p) PROVE TypeOK'
  <2>1. PICK r \in Judgements(p[1]) : Ends(p, r) /\ call' = Answered(p, r)
    BY <1>24 DEF Judge
  <2>2. r \in Results
    BY DEF Judgements, Results
  <2> QED BY <1>24, <2>1, <2>2, EndsType, AnsweredType DEF Judge
<1>25. ASSUME NEW p \in Subs \X Keys, Defer(p) PROVE TypeOK'
  <2>1. "later" \in Results
    BY DEF Results
  <2> QED BY <1>25, <2>1, EndsType, AnsweredType DEF Defer
<1>26. ASSUME NEW p \in Subs \X Keys, TakeUpAlone(p) PROVE TypeOK'
  <2>1. ledger' \in [Subs -> [Keys -> Entries]]
    BY <1>26 DEF TakeUpAlone, Entries
  <2> QED BY <1>26, <2>1 DEF TakeUpAlone
<1>27. ASSUME NEW p \in Subs \X Keys, JudgeAlone(p) PROVE TypeOK'
  BY <1>27, EndsType DEF JudgeAlone
<1>28. CASE UNCHANGED vars
  BY <1>28 DEF vars
<1> QED
  BY <1>1, <1>2, <1>3, <1>4, <1>5, <1>6, <1>7, <1>8, <1>9, <1>10,
     <1>11, <1>12, <1>13, <1>14, <1>15, <1>16, <1>17, <1>18, <1>19, <1>20,
     <1>21, <1>22, <1>23, <1>24, <1>25, <1>26, <1>27, <1>28
  DEF Next

-----------------------------------------------------------------------------
(* What a pass may send                                                    *)

(* An id is given once.                                                    *)
LEMMA GivenOnce ==
  ASSUME TypeOK, UsedInv, NEW s \in Subs, NEW k \in Keys, NEW ok \in BOOLEAN, Enqueue(s, k, ok)
  PROVE  \A i \in Ids : of[i] # Unused => of'[i] = of[i]
<1>1. CASE UNCHANGED <<of, memory, disk>>
  BY <1>1
<1>2. ASSUME NEW j \in Ids, of[j] = Unused, of' = [of EXCEPT ![j] = About(s, k, who)]
      PROVE  \A i \in Ids : of[i] # Unused => of'[i] = of[i]
  BY <1>2 DEF TypeOK
<1> QED
  BY <1>1, <1>2, EnqueueDoes

LEMMA EnqueueUsed ==
  ASSUME TypeOK, UsedInv, NEW s \in Subs, NEW k \in Keys, NEW ok \in BOOLEAN, Enqueue(s, k, ok),
         UNCHANGED <<pass, call>>
  PROVE  UsedInv'
<1>1. CASE UNCHANGED <<of, memory, disk>>
  BY <1>1 DEF UsedInv, Held
<1>2. ASSUME NEW j \in Ids, of[j] = Unused, of' = [of EXCEPT ![j] = About(s, k, who)],
             memory' = [memory EXCEPT ![j] = FreshItem], disk' = [memory EXCEPT ![j] = FreshItem]
      PROVE  UsedInv'
  <2>1. of'[j] # Unused
    BY <1>2, AboutType DEF TypeOK
  <2>2. \A i \in Ids : i # j => of'[i] = of[i] /\ memory'[i] = memory[i] /\ disk'[i] = memory[i]
    BY <1>2 DEF TypeOK
  <2>3. \A i \in Ids : i \in Held(memory)' \cup Held(disk)' \cup call'.ids => of'[i] # Unused
    BY <2>1, <2>2 DEF UsedInv, Held
  <2>4. \A b \in pass'.batches : \A i \in b : of'[i] # Unused
    BY <2>1, <2>2 DEF UsedInv, TypeOK, Pass
  <2> QED BY <2>3, <2>4 DEF UsedInv
<1> QED
  BY <1>1, <1>2, EnqueueDoes

LEMMA PersistUsed ==
  ASSUME TypeOK, UsedInv, NEW q \in [Ids -> Item], NEW ok \in BOOLEAN, Persist(q, ok),
         Held(q) \subseteq Held(memory)
  PROVE  \A i \in Ids : i \in Held(memory)' \cup Held(disk)' => of[i] # Unused
  BY DEF Persist, RolledBack, UsedInv, Held

LEMMA WithoutHeld ==
  ASSUME NEW q \in [Ids -> Item], NEW I
  PROVE  Held(Without(q, I)) = Held(q) \ I
  BY WithoutType, ItemTypes DEF Held

LEMMA MarkedHeld ==
  ASSUME TypeOK, NEW r \in {"conflict", "scriptRan", "refused"}
  PROVE  Held(Marked(r)) = Held(memory)
<1>1. \A i \in Ids : Marked(r)[i].status = "none" <=> memory[i].status = "none"
  <2> SUFFICES ASSUME NEW i \in Ids
               PROVE  Marked(r)[i].status = "none" <=> memory[i].status = "none"
    OBVIOUS
  <2>1. CASE Marked(r)[i] = memory[i]
    BY <2>1
  <2>2. CASE i \in Held(memory) /\ Marked(r)[i].status \in {memory[i].status, "failed"}
    BY <2>2 DEF Held
  <2> QED BY <2>1, <2>2, MarkedType
<1> QED
  BY <1>1 DEF Held

LEMMA AckUsed ==
  ASSUME TypeOK, UsedInv, NEW I, NEW ok \in BOOLEAN, Ack(I, ok), UNCHANGED <<of, pass, call>>
  PROVE  UsedInv'
<1>1. Without(memory, I) \in [Ids -> Item] /\ Held(Without(memory, I)) \subseteq Held(memory)
  BY WithoutType, WithoutHeld DEF TypeOK
<1>2. \A i \in Ids : i \in Held(memory)' \cup Held(disk)' => of[i] # Unused
  BY <1>1, PersistUsed DEF Ack
<1> QED
  BY <1>2 DEF UsedInv

LEMMA RetryEnqueues ==
  ASSUME TypeOK, UsedInv, NEW i \in Ids, Retry(i)
  PROVE  /\ of[i].sub \in Subs
         /\ \E ok \in BOOLEAN, k \in Keys : Enqueue(of[i].sub, k, ok)
<1>1. of[i] # Unused
  BY DEF Retry, Offered, UsedInv, Held
<1>2. of[i].sub \in Subs /\ of[i].key \in Keys
  BY <1>1, UsedType
<1>3. minted[of[i].sub] \in Keys
  BY <1>2 DEF TypeOK
<1>4. minted[of[i].sub] < LastKey => minted[of[i].sub] + 1 \in Keys
  BY <1>3, KeysAreNumbers DEF Keys
<1> QED
  BY <1>2, <1>4, OutcomesAre DEF Retry

LEMMA AnsweredIds ==
  ASSUME TypeOK, NEW p, NEW r
  PROVE  Answered(p, r).ids = call.ids /\ Answered(p, r).at \in {"settling", "held"}
  BY DEF Answered, TypeOK, Call

LEMMA UsedStep == TypeOK /\ UsedInv /\ [Next]_vars => UsedInv'
<1> SUFFICES ASSUME TypeOK, UsedInv, [Next]_vars PROVE UsedInv'
  OBVIOUS
<1>1. ASSUME NEW s \in Subs, Submit(s) PROVE UsedInv'
  <2>1. CASE UNCHANGED <<of, memory, disk>>
    BY <1>1, <2>1 DEF Submit, server, UsedInv, Held
  <2>2. ASSUME NEW ok \in BOOLEAN, Enqueue(s, 0, ok) PROVE UsedInv'
    BY <1>1, <2>2, EnqueueUsed, KeysAreNumbers DEF Submit, server
  <2> QED BY <1>1, <2>1, <2>2 DEF Submit
<1>2. ASSUME NEW i \in Ids, Retry(i) PROVE UsedInv'
  <2>1. PICK ok \in BOOLEAN, k \in Keys : Enqueue(of[i].sub, k, ok)
    BY <1>2, RetryEnqueues
  <2>2. of[i].sub \in Subs
    BY <1>2, RetryEnqueues
  <2> QED BY <1>2, <2>1, <2>2, EnqueueUsed DEF Retry
<1>3. ASSUME NEW i \in Ids, Discard(i) PROVE UsedInv'
  <2>1. PICK ok \in BOOLEAN : Ack({i}, ok)
    BY <1>3, OutcomesAre DEF Discard
  <2> QED BY <1>3, <2>1, AckUsed DEF Discard
<1>4. ASSUME NEW i \in Ids, Age(i) PROVE UsedInv'
  <2>1. \A j \in Ids : memory'[j].status = memory[j].status /\ disk'[j].status = disk[j].status
    BY <1>4 DEF Age, TypeOK, Item
  <2> QED BY <1>4, <2>1 DEF Age, UsedInv, Held
<1>5. ASSUME NEW i \in Ids, TakeUp(i) PROVE UsedInv'
  <2>1. call'.ids = call.ids
    BY <1>5, AnsweredIds DEF TakeUp, TypeOK, Call
  <2> QED BY <1>5, <2>1 DEF TakeUp, queue, UsedInv, Held
<1>6. ASSUME NEW i \in Ids, HandBack(i) PROVE UsedInv'
  <2>1. call'.ids = call.ids
    BY <1>6, AnsweredIds DEF HandBack, Judge, Defer
  <2> QED BY <1>6, <2>1 DEF HandBack, queue, UsedInv, Held
<1>7. CASE RemoveReplaced
  <2>1. PICK ok \in BOOLEAN : Ack(replaced, ok)
    BY <1>7, OutcomesAre DEF RemoveReplaced
  <2> QED BY <1>7, <2>1, AckUsed DEF RemoveReplaced
<1>8. CASE Sweep
  <2>1. Held(memory)' \subseteq Held(memory) /\ Held(disk)' \subseteq Held(memory) \cup Held(disk)
    BY <1>8, WithoutHeld DEF Sweep, TypeOK, Held
  <2> QED BY <1>8, <2>1 DEF Sweep, UsedInv
<1>9. CASE SessionExpires
  <2>1. pass'.batches = pass.batches
    BY <1>9 DEF SessionExpires, Boundary, TypeOK, Pass
  <2> QED BY <1>9, <2>1 DEF SessionExpires, queue, UsedInv, Held
<1>10. CASE SignOut
  <2>1. pass'.batches = pass.batches
    BY <1>10 DEF SignOut, Boundary, TypeOK, Pass
  <2> QED BY <1>10, <2>1 DEF SignOut, queue, UsedInv, Held
<1>11. CASE Purge
  <2>1. PICK ok \in BOOLEAN : Ack(purging, ok)
    BY <1>11, OutcomesAre DEF Purge
  <2> QED BY <1>11, <2>1, AckUsed DEF Purge
<1>12. CASE Crash
  <2>1. Held(memory)' \subseteq Held(disk) /\ Held(disk)' \subseteq Held(disk)
    BY <1>12, WithoutHeld DEF Crash, TypeOK, Held
  <2> QED BY <1>12, <2>1, CallTypes, PassTypes DEF Crash, UsedInv
<1>13. ASSUME NEW a \in Accounts, SignIn(a) PROVE UsedInv'
  <2>1. pass'.batches = pass.batches
    BY <1>13 DEF SignIn, Boundary, TypeOK, Pass
  <2> QED BY <1>13, <2>1 DEF SignIn, queue, UsedInv, Held
<1>14. ASSUME NEW a \in Accounts, LookUp(a) PROVE UsedInv'
  BY <1>14 DEF LookUp, person, queue, server, UsedInv, Held
<1>15. CASE StartPass
  <2>1. pass'.batches \subseteq SUBSET Held(memory)
    BY <1>15, SplitsAre DEF StartPass
  <2> QED BY <1>15, <2>1, HeldAre DEF StartPass, queue, UsedInv, Held
<1>16. CASE SendBatch
  <2>1. PICK b \in pass.batches : pass' = [pass EXCEPT !.batches = @ \ {b}] /\ call' = Post(b)
    BY <1>16 DEF SendBatch
  <2>2. b \in SUBSET Ids /\ call'.ids = b /\ pass'.batches \subseteq pass.batches
    BY <2>1, CallTypes DEF TypeOK, Pass
  <2> QED BY <1>16, <2>2 DEF SendBatch, queue, UsedInv, Held
<1>17. CASE PassEnds
  BY <1>17, CallTypes, PassTypes DEF PassEnds, queue, UsedInv, Held
<1>18. CASE Unreached
  BY <1>18, CallTypes, PassTypes DEF Unreached, queue, UsedInv, Held
<1>19. CASE TooLarge
  <2>1. PICK P \in Splits(call.ids) : pass' = [pass EXCEPT !.batches = @ \cup P]
    BY <1>19 DEF TooLarge
  <2>2. P \subseteq SUBSET call.ids /\ call.ids \subseteq Ids
    BY SplitsAre DEF TypeOK, Call
  <2>3. pass'.batches = pass.batches \cup P
    BY <2>1 DEF TypeOK, Pass
  <2> QED BY <1>19, <2>2, <2>3, CallTypes DEF TooLarge, queue, UsedInv, Held
<1>20. CASE Rejected
  <2>1. call'.ids = call.ids
    BY <1>20 DEF Rejected, TypeOK, Call
  <2> QED BY <1>20, <2>1 DEF Rejected, queue, UsedInv, Held
<1>21. CASE BatchEnds
  BY <1>21, CallTypes, PassTypes DEF BatchEnds, queue, UsedInv, Held
<1>22. CASE Reach
  <2>1. call'.ids = call.ids
    BY <1>22 DEF Reach, TypeOK, Call
  <2> QED BY <1>22, <2>1 DEF Reach, queue, UsedInv, Held
<1>23. ASSUME NEW r \in Results, NEW ok \in Outcomes, Settle(r, ok) PROVE UsedInv'
  <2>1. call'.ids \subseteq call.ids
    BY <1>23 DEF Settle, TypeOK, Call
  <2>2. \A i \in Ids : i \in Held(memory)' \cup Held(disk)' => of[i] # Unused
    <3>1. ok \in BOOLEAN
      BY OutcomesAre
    <3>2. CASE Persist(Without(memory, With(r)), ok)
      <4>1. Without(memory, With(r)) \in [Ids -> Item] /\ Held(Without(memory, With(r))) \subseteq Held(memory)
        BY WithoutType, WithoutHeld DEF TypeOK
      <4> QED BY <3>1, <3>2, <4>1, PersistUsed
    <3>3. CASE r \in {"conflict", "scriptRan", "refused"} /\ Persist(Marked(r), ok)
      BY <3>1, <3>3, MarkedType, MarkedHeld, PersistUsed
    <3> QED BY <1>23, <3>2, <3>3 DEF Settle
  <2> QED BY <1>23, <2>1, <2>2 DEF Settle, UsedInv
<1>24. ASSUME NEW p \in Subs \X Keys, Judge(p) PROVE UsedInv'
  <2>1. call'.ids = call.ids
    BY <1>24, AnsweredIds DEF Judge, Judge, Defer
  <2> QED BY <1>24, <2>1 DEF Judge, queue, UsedInv, Held
<1>25. ASSUME NEW p \in Subs \X Keys, Defer(p) PROVE UsedInv'
  <2>1. call'.ids = call.ids
    BY <1>25, AnsweredIds DEF Defer, Judge, Defer
  <2> QED BY <1>25, <2>1 DEF Defer, queue, UsedInv, Held
<1>26. ASSUME NEW p \in Subs \X Keys, TakeUpAlone(p) PROVE UsedInv'
  BY <1>26 DEF TakeUpAlone, person, queue, server, UsedInv, Held
<1>27. ASSUME NEW p \in Subs \X Keys, JudgeAlone(p) PROVE UsedInv'
  BY <1>27 DEF JudgeAlone, person, queue, server, UsedInv, Held
<1>28. CASE UNCHANGED vars
  BY <1>28 DEF vars, UsedInv, Held
<1> QED
  BY <1>1, <1>2, <1>3, <1>4, <1>5, <1>6, <1>7, <1>8, <1>9, <1>10,
     <1>11, <1>12, <1>13, <1>14, <1>15, <1>16, <1>17, <1>18, <1>19, <1>20,
     <1>21, <1>22, <1>23, <1>24, <1>25, <1>26, <1>27, <1>28
  DEF Next

LEMMA EnqueueOwner ==
  ASSUME TypeOK, UsedInv, OwnerInv, NEW s \in Subs, NEW k \in Keys, NEW ok \in BOOLEAN,
         Enqueue(s, k, ok), UNCHANGED <<pass, call, who>>
  PROVE  OwnerInv'
<1>1. \A i \in Ids : of[i] # Unused => of'[i] = of[i]
  BY GivenOnce
<1>2. \A b \in pass.batches : \A i \in b : i \in Ids /\ of[i] # Unused
  BY DEF TypeOK, Pass, UsedInv
<1>3. \A i \in call.ids : i \in Ids /\ of[i] # Unused
  BY DEF TypeOK, Call, UsedInv
<1> QED
  BY <1>1, <1>2, <1>3 DEF OwnerInv

LEMMA PassInvStep == TypeOK /\ PassInv /\ [Next]_vars => PassInv'
<1> SUFFICES ASSUME TypeOK, PassInv, [Next]_vars PROVE PassInv'
  OBVIOUS
<1>1. ASSUME NEW s \in Subs, Submit(s) PROVE PassInv'
  BY <1>1 DEF Submit, Ack, person, queue, server, PassInv
<1>2. ASSUME NEW i \in Ids, Retry(i) PROVE PassInv'
  BY <1>2 DEF Retry, Ack, person, queue, server, PassInv
<1>3. ASSUME NEW i \in Ids, Discard(i) PROVE PassInv'
  BY <1>3 DEF Discard, Ack, person, queue, server, PassInv
<1>4. ASSUME NEW i \in Ids, Age(i) PROVE PassInv'
  BY <1>4 DEF Age, Ack, person, queue, server, PassInv
<1>5. ASSUME NEW i \in Ids, TakeUp(i) PROVE PassInv'
  <2>1. call.at = "held"
    BY <1>5 DEF TakeUp, Open
  <2> QED BY <1>5, <2>1 DEF TakeUp, PassInv, TypeOK, Call, Idle
<1>6. ASSUME NEW i \in Ids, HandBack(i) PROVE PassInv'
  <2>1. call.at = "held"
    BY <1>6 DEF HandBack, Open
  <2> QED BY <1>6, <2>1 DEF HandBack, PassInv, TypeOK, Call, Idle
<1>7. CASE RemoveReplaced
  BY <1>7 DEF RemoveReplaced, Ack, person, queue, server, PassInv
<1>8. CASE Sweep
  BY <1>8 DEF Sweep, Ack, person, queue, server, PassInv
<1>9. CASE SessionExpires
  <2>1. pass'.on = pass.on
    BY <1>9 DEF SessionExpires, Boundary, TypeOK, Pass
  <2> QED BY <1>9, <2>1 DEF SessionExpires, PassInv
<1>10. CASE SignOut
  <2>1. pass'.on = pass.on
    BY <1>10 DEF SignOut, Boundary, TypeOK, Pass
  <2> QED BY <1>10, <2>1 DEF SignOut, PassInv
<1>11. CASE Purge
  BY <1>11 DEF Purge, Ack, person, queue, server, PassInv
<1>12. CASE Crash
  BY <1>12, PassTypes, CallTypes DEF Crash, PassInv
<1>13. ASSUME NEW a \in Accounts, SignIn(a) PROVE PassInv'
  <2>1. pass'.on = pass.on
    BY <1>13 DEF SignIn, Boundary, TypeOK, Pass
  <2> QED BY <1>13, <2>1 DEF SignIn, PassInv
<1>14. ASSUME NEW a \in Accounts, LookUp(a) PROVE PassInv'
  BY <1>14 DEF LookUp, Ack, person, queue, server, PassInv
<1>15. CASE StartPass
  <2>1. pass'.on
    BY <1>15 DEF StartPass, PassInv, TypeOK, Pass, Idle
  <2> QED BY <1>15, <2>1 DEF StartPass, PassInv, TypeOK, Call, Idle
<1>16. CASE SendBatch
  <2>1. pass'.on
    BY <1>16 DEF SendBatch, PassInv, TypeOK, Pass, Idle
  <2> QED BY <1>16, <2>1 DEF SendBatch, PassInv, TypeOK, Call, Idle
<1>17. CASE PassEnds
  BY <1>17, PassTypes, CallTypes DEF PassEnds, PassInv
<1>18. CASE Unreached
  BY <1>18, PassTypes, CallTypes DEF Unreached, PassInv
<1>19. CASE TooLarge
  <2>1. pass'.on
    BY <1>19 DEF TooLarge, PassInv, TypeOK, Pass, Idle
  <2> QED BY <1>19, <2>1 DEF TooLarge, PassInv, TypeOK, Call, Idle
<1>20. CASE Rejected
  <2>1. call.at # "idle"
    BY <1>20 DEF Rejected
  <2> QED BY <1>20, <2>1 DEF Rejected, PassInv, TypeOK, Call, Idle
<1>21. CASE BatchEnds
  BY <1>21, PassTypes, CallTypes DEF BatchEnds, PassInv
<1>22. CASE Reach
  <2>1. call.at # "idle"
    BY <1>22 DEF Reach
  <2> QED BY <1>22, <2>1 DEF Reach, PassInv, TypeOK, Call, Idle
<1>23. ASSUME NEW r \in Results, NEW ok \in Outcomes, Settle(r, ok) PROVE PassInv'
  <2>1. call.at # "idle"
    BY <1>23 DEF Settle
  <2> QED BY <1>23, <2>1 DEF Settle, PassInv, TypeOK, Call, Idle
<1>24. ASSUME NEW p \in Subs \X Keys, Judge(p) PROVE PassInv'
  <2>1. call.at = "held"
    BY <1>24 DEF Judge, Open
  <2> QED BY <1>24, <2>1 DEF Judge, PassInv, TypeOK, Call, Idle
<1>25. ASSUME NEW p \in Subs \X Keys, Defer(p) PROVE PassInv'
  <2>1. call.at = "held"
    BY <1>25 DEF Defer, Open
  <2> QED BY <1>25, <2>1 DEF Defer, PassInv, TypeOK, Call, Idle
<1>26. ASSUME NEW p \in Subs \X Keys, TakeUpAlone(p) PROVE PassInv'
  BY <1>26 DEF TakeUpAlone, Ack, person, queue, server, PassInv
<1>27. ASSUME NEW p \in Subs \X Keys, JudgeAlone(p) PROVE PassInv'
  BY <1>27 DEF JudgeAlone, Ack, person, queue, server, PassInv
<1>28. CASE UNCHANGED vars
  BY <1>28 DEF vars, PassInv
<1> QED
  BY <1>1, <1>2, <1>3, <1>4, <1>5, <1>6, <1>7, <1>8, <1>9, <1>10,
     <1>11, <1>12, <1>13, <1>14, <1>15, <1>16, <1>17, <1>18, <1>19, <1>20,
     <1>21, <1>22, <1>23, <1>24, <1>25, <1>26, <1>27, <1>28
  DEF Next

LEMMA OwnerStep == TypeOK /\ UsedInv /\ PassInv /\ OwnerInv /\ [Next]_vars => OwnerInv'
<1> SUFFICES ASSUME TypeOK, UsedInv, PassInv, OwnerInv, [Next]_vars PROVE OwnerInv'
  OBVIOUS
<1>1. ASSUME NEW s \in Subs, Submit(s) PROVE OwnerInv'
  <2>1. CASE UNCHANGED <<of, memory, disk>>
    BY <1>1, <2>1 DEF Submit, server, OwnerInv
  <2>2. ASSUME NEW ok \in BOOLEAN, Enqueue(s, 0, ok) PROVE OwnerInv'
    BY <1>1, <2>2, EnqueueOwner, KeysAreNumbers DEF Submit, server
  <2> QED BY <1>1, <2>1, <2>2 DEF Submit
<1>2. ASSUME NEW i \in Ids, Retry(i) PROVE OwnerInv'
  <2>1. PICK ok \in BOOLEAN, k \in Keys : Enqueue(of[i].sub, k, ok)
    BY <1>2, RetryEnqueues
  <2>2. of[i].sub \in Subs
    BY <1>2, RetryEnqueues
  <2> QED BY <1>2, <2>1, <2>2, EnqueueOwner DEF Retry
<1>3. ASSUME NEW i \in Ids, Discard(i) PROVE OwnerInv'
  BY <1>3 DEF Discard, Ack, person, queue, server, OwnerInv
<1>4. ASSUME NEW i \in Ids, Age(i) PROVE OwnerInv'
  BY <1>4 DEF Age, Ack, person, queue, server, OwnerInv
<1>5. ASSUME NEW i \in Ids, TakeUp(i) PROVE OwnerInv'
  <2>1. call.at = "held" /\ call'.at \in {"settling", "held"}
    BY <1>5, AnsweredIds DEF TakeUp, Open, TypeOK, Call
  <2> QED BY <1>5, <2>1 DEF TakeUp, person, queue, OwnerInv
<1>6. ASSUME NEW i \in Ids, HandBack(i) PROVE OwnerInv'
  <2>1. call.at = "held" /\ call'.at \in {"settling", "held"}
    BY <1>6, AnsweredIds DEF HandBack, Open, TypeOK, Call
  <2> QED BY <1>6, <2>1 DEF HandBack, person, queue, OwnerInv
<1>7. CASE RemoveReplaced
  BY <1>7 DEF RemoveReplaced, Ack, person, queue, server, OwnerInv
<1>8. CASE Sweep
  BY <1>8 DEF Sweep, Ack, person, queue, server, OwnerInv
<1>9. CASE SessionExpires
  <2>1. ~pass'.current
    BY <1>9 DEF SessionExpires, Boundary, TypeOK, Pass
  <2> QED BY <2>1 DEF OwnerInv
<1>10. CASE SignOut
  <2>1. ~pass'.current
    BY <1>10 DEF SignOut, Boundary, TypeOK, Pass
  <2> QED BY <2>1 DEF OwnerInv
<1>11. CASE Purge
  BY <1>11 DEF Purge, Ack, person, queue, server, OwnerInv
<1>12. CASE Crash
  BY <1>12, PassTypes DEF Crash, OwnerInv
<1>13. ASSUME NEW a \in Accounts, SignIn(a) PROVE OwnerInv'
  <2>1. ~pass'.current
    BY <1>13 DEF SignIn, Boundary, TypeOK, Pass
  <2> QED BY <2>1 DEF OwnerInv
<1>14. ASSUME NEW a \in Accounts, LookUp(a) PROVE OwnerInv'
  BY <1>14 DEF LookUp, Ack, person, queue, server, OwnerInv
<1>15. CASE StartPass
  <2>1. PICK P \in Splits({i \in Held(memory) : memory[i].status = "pending" /\ of[i].owner = who}) :
         pass' = [on |-> TRUE, current |-> TRUE, batches |-> P]
    BY <1>15 DEF StartPass
  <2>2. \A b \in pass'.batches : \A i \in b : of[i].owner = who
    BY <2>1, SplitsAre
  <2>3. call.at # "sent"
    BY <1>15 DEF StartPass, PassInv, Idle
  <2> QED BY <1>15, <2>2, <2>3 DEF StartPass, person, queue, OwnerInv
<1>16. CASE SendBatch
  <2>1. PICK b \in pass.batches : pass' = [pass EXCEPT !.batches = @ \ {b}] /\ call' = Post(b)
    BY <1>16 DEF SendBatch
  <2>2. call'.ids = b /\ pass'.batches \subseteq pass.batches /\ pass'.current = pass.current
    BY <2>1, CallTypes DEF TypeOK, Pass
  <2> QED BY <1>16, <2>2 DEF SendBatch, person, queue, OwnerInv
<1>17. CASE PassEnds
  BY <1>17, PassTypes DEF PassEnds, OwnerInv
<1>18. CASE Unreached
  BY <1>18, PassTypes DEF Unreached, OwnerInv
<1>19. CASE TooLarge
  <2>1. PICK P \in Splits(call.ids) : pass' = [pass EXCEPT !.batches = @ \cup P]
    BY <1>19 DEF TooLarge
  <2>2. P \subseteq SUBSET call.ids
    BY SplitsAre
  <2>3. pass'.batches = pass.batches \cup P /\ pass'.current = pass.current
    BY <2>1 DEF TypeOK, Pass
  <2> QED BY <1>19, <2>2, <2>3, CallTypes DEF TooLarge, person, queue, OwnerInv
<1>20. CASE Rejected
  <2>1. call'.at # "sent"
    BY <1>20 DEF Rejected, TypeOK, Call
  <2> QED BY <1>20, <2>1 DEF Rejected, person, queue, OwnerInv
<1>21. CASE BatchEnds
  BY <1>21, CallTypes DEF BatchEnds, person, queue, OwnerInv
<1>22. CASE Reach
  <2>1. call'.at # "sent"
    BY <1>22 DEF Reach, TypeOK, Call
  <2> QED BY <1>22, <2>1 DEF Reach, person, queue, OwnerInv
<1>23. ASSUME NEW r \in Results, NEW ok \in Outcomes, Settle(r, ok) PROVE OwnerInv'
  <2>1. call'.at # "sent"
    BY <1>23 DEF Settle, TypeOK, Call
  <2> QED BY <1>23, <2>1 DEF Settle, person, OwnerInv
<1>24. ASSUME NEW p \in Subs \X Keys, Judge(p) PROVE OwnerInv'
  <2>1. call.at = "held" /\ call'.at \in {"settling", "held"}
    BY <1>24, AnsweredIds DEF Judge, Open, TypeOK, Call
  <2> QED BY <1>24, <2>1 DEF Judge, person, queue, OwnerInv
<1>25. ASSUME NEW p \in Subs \X Keys, Defer(p) PROVE OwnerInv'
  <2>1. call.at = "held" /\ call'.at \in {"settling", "held"}
    BY <1>25, AnsweredIds DEF Defer, Open, TypeOK, Call
  <2> QED BY <1>25, <2>1 DEF Defer, person, queue, OwnerInv
<1>26. ASSUME NEW p \in Subs \X Keys, TakeUpAlone(p) PROVE OwnerInv'
  BY <1>26 DEF TakeUpAlone, Ack, person, queue, server, OwnerInv
<1>27. ASSUME NEW p \in Subs \X Keys, JudgeAlone(p) PROVE OwnerInv'
  BY <1>27 DEF JudgeAlone, Ack, person, queue, server, OwnerInv
<1>28. CASE UNCHANGED vars
  BY <1>28 DEF vars, OwnerInv
<1> QED
  BY <1>1, <1>2, <1>3, <1>4, <1>5, <1>6, <1>7, <1>8, <1>9, <1>10,
     <1>11, <1>12, <1>13, <1>14, <1>15, <1>16, <1>17, <1>18, <1>19, <1>20,
     <1>21, <1>22, <1>23, <1>24, <1>25, <1>26, <1>27, <1>28
  DEF Next

LEMMA PassingInit == Init => TypeOK /\ UsedInv /\ PassInv /\ OwnerInv
<1> SUFFICES ASSUME Init PROVE UsedInv /\ PassInv /\ OwnerInv
  BY TypeInit
<1>1. Held(memory) = {} /\ Held(disk) = {}
  BY ItemTypes DEF Init, Held
<1> QED
  BY <1>1, CallTypes, PassTypes DEF Init, UsedInv, PassInv, OwnerInv

LEMMA PassingHolds == Spec => [](TypeOK /\ UsedInv /\ PassInv /\ OwnerInv)
<1>1. TypeOK /\ UsedInv /\ PassInv /\ OwnerInv /\ [Next]_vars
      => (TypeOK /\ UsedInv /\ PassInv /\ OwnerInv)'
  BY TypeStep, UsedStep, PassInvStep, OwnerStep
<1> QED
  BY <1>1, PassingInit, PTL DEF Spec

(* Every variable stays in its set.                                        *)
THEOREM TypeCorrect == Spec => []TypeOK
  BY PassingHolds, PTL

(* Only SendBatch sends.                                                   *)
LEMMA SendStep ==
  ASSUME TypeOK, OwnerInv, [Next]_vars, call.at = "idle", call'.at = "sent"
  PROVE  \A j \in call'.ids : of[j].owner = who
<1>1. ASSUME NEW s \in Subs, Submit(s) PROVE \A j \in call'.ids : of[j].owner = who
  BY <1>1 DEF Submit, Ack, person, queue, server
<1>2. ASSUME NEW i \in Ids, Retry(i) PROVE \A j \in call'.ids : of[j].owner = who
  BY <1>2 DEF Retry, Ack, person, queue, server
<1>3. ASSUME NEW i \in Ids, Discard(i) PROVE \A j \in call'.ids : of[j].owner = who
  BY <1>3 DEF Discard, Ack, person, queue, server
<1>4. ASSUME NEW i \in Ids, Age(i) PROVE \A j \in call'.ids : of[j].owner = who
  BY <1>4 DEF Age, Ack, person, queue, server
<1>5. ASSUME NEW i \in Ids, TakeUp(i) PROVE \A j \in call'.ids : of[j].owner = who
  <2>1. call.at # "idle"
    BY <1>5 DEF TakeUp, Open
  <2> QED BY <2>1
<1>6. ASSUME NEW i \in Ids, HandBack(i) PROVE \A j \in call'.ids : of[j].owner = who
  <2>1. call.at # "idle"
    BY <1>6 DEF HandBack, Open
  <2> QED BY <2>1
<1>7. CASE RemoveReplaced
  BY <1>7 DEF RemoveReplaced, Ack, person, queue, server
<1>8. CASE Sweep
  BY <1>8 DEF Sweep, Ack, person, queue, server
<1>9. CASE SessionExpires
  BY <1>9 DEF SessionExpires, Ack, person, queue, server
<1>10. CASE SignOut
  BY <1>10 DEF SignOut, Ack, person, queue, server
<1>11. CASE Purge
  BY <1>11 DEF Purge, Ack, person, queue, server
<1>12. CASE Crash
  BY <1>12, CallTypes DEF Crash
<1>13. ASSUME NEW a \in Accounts, SignIn(a) PROVE \A j \in call'.ids : of[j].owner = who
  BY <1>13 DEF SignIn, Ack, person, queue, server
<1>14. ASSUME NEW a \in Accounts, LookUp(a) PROVE \A j \in call'.ids : of[j].owner = who
  BY <1>14 DEF LookUp, Ack, person, queue, server
<1>15. CASE StartPass
  BY <1>15 DEF StartPass, Ack, person, queue, server
<1>16. CASE SendBatch
  <2>1. PICK b \in pass.batches : call' = Post(b)
    BY <1>16 DEF SendBatch
  <2>2. call'.ids = b /\ pass.current
    BY <1>16, <2>1, CallTypes DEF SendBatch, StillThisSession, TypeOK, Pass
  <2> QED BY <2>2 DEF OwnerInv
<1>17. CASE PassEnds
  BY <1>17, CallTypes DEF PassEnds
<1>18. CASE Unreached
  BY <1>18, CallTypes DEF Unreached
<1>19. CASE TooLarge
  <2>1. call.at # "idle"
    BY <1>19 DEF TooLarge, Open
  <2> QED BY <2>1
<1>20. CASE Rejected
  <2>1. call.at # "idle"
    BY <1>20 DEF Rejected, Open
  <2> QED BY <2>1
<1>21. CASE BatchEnds
  BY <1>21, CallTypes DEF BatchEnds
<1>22. CASE Reach
  <2>1. call.at # "idle"
    BY <1>22 DEF Reach, Open
  <2> QED BY <2>1
<1>23. ASSUME NEW r \in Results, NEW ok \in Outcomes, Settle(r, ok) PROVE \A j \in call'.ids : of[j].owner = who
  <2>1. call.at # "idle"
    BY <1>23 DEF Settle, Open
  <2> QED BY <2>1
<1>24. ASSUME NEW p \in Subs \X Keys, Judge(p) PROVE \A i \in call'.ids : of[i].owner = who
  <2>1. call.at # "idle"
    BY <1>24 DEF Judge, Open
  <2> QED BY <2>1
<1>25. ASSUME NEW p \in Subs \X Keys, Defer(p) PROVE \A i \in call'.ids : of[i].owner = who
  <2>1. call.at # "idle"
    BY <1>25 DEF Defer, Open
  <2> QED BY <2>1
<1>26. ASSUME NEW p \in Subs \X Keys, TakeUpAlone(p) PROVE \A i \in call'.ids : of[i].owner = who
  BY <1>26 DEF TakeUpAlone, Ack, person, queue, server
<1>27. ASSUME NEW p \in Subs \X Keys, JudgeAlone(p) PROVE \A i \in call'.ids : of[i].owner = who
  BY <1>27 DEF JudgeAlone, Ack, person, queue, server
<1>28. CASE UNCHANGED vars
  BY <1>28 DEF vars
<1> QED
  BY <1>1, <1>2, <1>3, <1>4, <1>5, <1>6, <1>7, <1>8, <1>9, <1>10,
     <1>11, <1>12, <1>13, <1>14, <1>15, <1>16, <1>17, <1>18, <1>19, <1>20,
     <1>21, <1>22, <1>23, <1>24, <1>25, <1>26, <1>27, <1>28
  DEF Next

(* A pass outlives the session that began it, but sends nothing more (the  *)
(* check of the generation before every batch, drainNativeQueue): what is  *)
(* sent goes under the account that queued it.                             *)
THEOREM SentUnderItsOwnerHolds == Spec => SentUnderItsOwner
<1>1. TypeOK /\ OwnerInv /\ [Next]_vars
      => [call.at = "idle" /\ call'.at = "sent" => \A i \in call'.ids : of[i].owner = who]_vars
  BY SendStep
<1> QED
  BY <1>1, PassingHolds, PTL DEF Spec, SentUnderItsOwner

-----------------------------------------------------------------------------
(* How a step changes what the invariant speaks of                         *)

LEMMA SettingKept == [Next]_vars => UNCHANGED setting
<1> SUFFICES ASSUME [Next]_vars PROVE UNCHANGED setting
  OBVIOUS
<1>1. ASSUME NEW s \in Subs, Submit(s) PROVE UNCHANGED setting
  BY <1>1 DEF Submit, setting
<1>2. ASSUME NEW i \in Ids, Retry(i) PROVE UNCHANGED setting
  BY <1>2 DEF Retry, setting
<1>3. ASSUME NEW i \in Ids, Discard(i) PROVE UNCHANGED setting
  BY <1>3 DEF Discard, setting
<1>4. ASSUME NEW i \in Ids, Age(i) PROVE UNCHANGED setting
  BY <1>4 DEF Age, setting
<1>5. ASSUME NEW i \in Ids, TakeUp(i) PROVE UNCHANGED setting
  BY <1>5 DEF TakeUp, setting
<1>6. ASSUME NEW i \in Ids, HandBack(i) PROVE UNCHANGED setting
  BY <1>6 DEF HandBack, setting
<1>7. CASE RemoveReplaced
  BY <1>7 DEF RemoveReplaced, setting
<1>8. CASE Sweep
  BY <1>8 DEF Sweep, setting
<1>9. CASE SessionExpires
  BY <1>9 DEF SessionExpires, setting
<1>10. CASE SignOut
  BY <1>10 DEF SignOut, setting
<1>11. CASE Purge
  BY <1>11 DEF Purge, setting
<1>12. CASE Crash
  BY <1>12 DEF Crash, setting
<1>13. ASSUME NEW a \in Accounts, SignIn(a) PROVE UNCHANGED setting
  BY <1>13 DEF SignIn, setting
<1>14. ASSUME NEW a \in Accounts, LookUp(a) PROVE UNCHANGED setting
  BY <1>14 DEF LookUp, setting
<1>15. CASE StartPass
  BY <1>15 DEF StartPass, setting
<1>16. CASE SendBatch
  BY <1>16 DEF SendBatch, setting
<1>17. CASE PassEnds
  BY <1>17 DEF PassEnds, setting
<1>18. CASE Unreached
  BY <1>18 DEF Unreached, setting
<1>19. CASE TooLarge
  BY <1>19 DEF TooLarge, setting
<1>20. CASE Rejected
  BY <1>20 DEF Rejected, setting
<1>21. CASE BatchEnds
  BY <1>21 DEF BatchEnds, setting
<1>22. CASE Reach
  BY <1>22 DEF Reach, setting
<1>23. ASSUME NEW r \in Results, NEW ok \in Outcomes, Settle(r, ok) PROVE UNCHANGED setting
  BY <1>23 DEF Settle, setting
<1>24. ASSUME NEW p \in Subs \X Keys, Judge(p) PROVE UNCHANGED setting
  BY <1>24 DEF Judge, setting
<1>25. ASSUME NEW p \in Subs \X Keys, Defer(p) PROVE UNCHANGED setting
  BY <1>25 DEF Defer, setting
<1>26. ASSUME NEW p \in Subs \X Keys, TakeUpAlone(p) PROVE UNCHANGED setting
  BY <1>26 DEF TakeUpAlone, setting
<1>27. ASSUME NEW p \in Subs \X Keys, JudgeAlone(p) PROVE UNCHANGED setting
  BY <1>27 DEF JudgeAlone, setting
<1>28. CASE UNCHANGED vars
  BY <1>28 DEF vars, setting
<1> QED
  BY <1>1, <1>2, <1>3, <1>4, <1>5, <1>6, <1>7, <1>8, <1>9, <1>10,
     <1>11, <1>12, <1>13, <1>14, <1>15, <1>16, <1>17, <1>18, <1>19, <1>20,
     <1>21, <1>22, <1>23, <1>24, <1>25, <1>26, <1>27, <1>28
  DEF Next

(* A submission is queued when its form is sent, or again by a retry of    *)
(* what failed: under the key it had, or a new one once its script acted.  *)
Written(j, s, k) ==
  /\ of[j] = Unused
  /\ of' = [of EXCEPT ![j] = About(s, k, who)]
  /\ memory' = [memory EXCEPT ![j] = FreshItem] /\ disk' = [memory EXCEPT ![j] = FreshItem]
  /\ UNCHANGED <<gone, call, left, ledger, records>>

Submitted(s, j) ==
  /\ form[s] = "blank" /\ form' = [form EXCEPT ![s] = "kept"]
  /\ Written(j, s, 0)
  /\ UNCHANGED <<minted, replaced>>

Retried(i, j, k) ==
  /\ i \in Held(memory) /\ of[i] # Unused
  /\ Written(j, of[i].sub, k)
  /\ replaced = {} /\ replaced' = {i}
  /\ \/ /\ memory[i].failure = "script-ran"
        /\ k = minted[of[i].sub] + 1
        /\ minted' = [minted EXCEPT ![of[i].sub] = k]
     \/ k = of[i].key /\ minted' = minted
  /\ UNCHANGED form

(* Any other step leaves an item, changes it or removes it, and lets go    *)
(* only of submissions whose items it removes.                             *)
Changed(i) ==
  /\ i \in Held(memory) /\ memory'[i].status # "none"
  /\ memory'[i].failure = "script-ran" =>
       memory[i].failure = "script-ran" \/ (i \in call.ids /\ call.got[i] = "scriptRan")

(* No item is removed for nothing.                                         *)
AccountedFor(s) ==
  \/ s \in gone'
  \/ records[s] = 1 /\ gone' = gone
  \/ \E j \in Held(memory) : of[j].sub = s /\ memory'[j].status # "none"

Kept ==
  /\ UNCHANGED <<of, minted>>
  /\ \A s \in Subs : form'[s] = "blank" => form[s] = "blank"
  /\ \A i \in Ids : memory'[i] = memory[i] \/ memory'[i] = NoItem \/ Changed(i)
  /\ sound => \/ replaced' = replaced
              \/ replaced' = {} /\ \A i \in replaced : memory'[i] = NoItem
  /\ gone \subseteq gone'
  /\ \A s \in gone' \ gone :
       /\ \E i \in Held(memory) : of[i].sub = s
       /\ \A i \in Held(memory) : of[i].sub = s => memory'[i] = NoItem
  /\ \A i \in Held(memory) : memory'[i].status # "none" \/ AccountedFor(of[i].sub)

LEMMA LetGoFacts ==
  ASSUME NEW I, NEW s \in LetGo(I)
  PROVE  /\ \E i \in Held(memory) : of[i].sub = s
         /\ \A i \in Held(memory) : of[i].sub = s => i \in I
  BY DEF LetGo

LEMMA LetGoAll ==
  ASSUME NEW I, NEW i \in Held(memory), of[i].sub \in Subs,
         gone' = gone \cup LetGo(I), \A j \in Held(memory) \ I : memory'[j] = memory[j]
  PROVE  memory'[i].status # "none" \/ AccountedFor(of[i].sub)
<1>1. CASE of[i].sub \in LetGo(I)
  BY <1>1 DEF AccountedFor
<1>2. ASSUME NEW j \in Held(memory), of[j].sub = of[i].sub, j \notin I
      PROVE  AccountedFor(of[i].sub)
  <2>1. memory'[j].status # "none"
    BY <1>2 DEF Held
  <2> QED BY <1>2, <2>1 DEF AccountedFor
<1> QED
  BY <1>1, <1>2 DEF LetGo

LEMMA AckKeeps ==
  ASSUME TypeOK, UsedInv, NEW I, NEW ok \in Outcomes, Ack(I, ok), UNCHANGED <<of, minted, form>>,
         replaced' = replaced \/ (replaced' = {} /\ replaced \subseteq I)
  PROVE  Kept
<1>1. \A i \in Ids : Without(memory, I)[i] = IF i \in I THEN NoItem ELSE memory[i]
  BY WithoutType DEF TypeOK
<1>2. CASE ok
  <2>1. memory' = Without(memory, I) /\ gone' = gone \cup LetGo(I)
    BY <1>2 DEF Ack, Persist
  <2>2. \A i \in Ids : i \in I => memory'[i] = NoItem
    BY <1>1, <2>1
  <2>3. \A i \in Ids : memory'[i] = memory[i] \/ memory'[i] = NoItem
    BY <1>1, <2>1
  <2>4. \A i \in replaced : replaced \subseteq I => memory'[i] = NoItem
    BY <2>2 DEF TypeOK
  <2>5. \A s \in gone' \ gone :
          /\ \E i \in Held(memory) : of[i].sub = s
          /\ \A i \in Held(memory) : of[i].sub = s => memory'[i] = NoItem
    BY <2>1, <2>2, LetGoFacts, HeldAre
  <2>6. \A j \in Held(memory) \ I : memory'[j] = memory[j]
    BY <1>1, <2>1, HeldAre
  <2>7. \A i \in Held(memory) : of[i].sub \in Subs
    BY HeldAre, UsedType DEF UsedInv
  <2>8. \A i \in Held(memory) : memory'[i].status # "none" \/ AccountedFor(of[i].sub)
    BY <2>1, <2>6, <2>7, LetGoAll
  <2> QED BY <2>1, <2>3, <2>4, <2>5, <2>8 DEF Kept
<1>3. CASE ~ok
  <2>1. memory' = memory /\ gone' = gone /\ ~sound
    BY <1>3, OutcomesAre DEF Ack, Persist, RolledBack
  <2> QED BY <2>1 DEF Kept, Held
<1> QED
  BY <1>2, <1>3

LEMMA ExpiredFacts == \A q : Expired(q) \subseteq Ids /\ \A i \in Expired(q) : q[i].status = "failed" /\ q[i].old
  BY DEF Expired

LEMMA QueueStep ==
  ASSUME IInv, [Next]_vars
  PROVE  \/ \E s \in Subs, j \in Ids : Submitted(s, j)
         \/ \E i, j \in Ids, k \in Keys : Retried(i, j, k)
         \/ Kept
<1> DEFINE Goal == \/ \E s \in Subs, j \in Ids : Submitted(s, j)
                   \/ \E i, j \in Ids, k \in Keys : Retried(i, j, k)
                   \/ Kept
<1> SUFFICES Goal
  OBVIOUS
<1>0. TypeOK /\ UsedInv /\ DiskInv
  BY DEF IInv
<1> HIDE DEF Goal
<1>1. ASSUME NEW s \in Subs, Submit(s) PROVE Goal
  <2>1. PICK ok \in BOOLEAN :
         \/ Enqueue(s, 0, ok) /\ form' = IF ok THEN [form EXCEPT ![s] = "kept"] ELSE [form EXCEPT ![s] = "passed"]
         \/ UNCHANGED <<of, memory, disk>> /\ form' = [form EXCEPT ![s] = "passed"]
    BY <1>1 DEF Submit
  <2>2. CASE UNCHANGED <<of, memory, disk>> /\ form' = [form EXCEPT ![s] = "passed"]
    <3>1. \A u \in Subs : form'[u] = "blank" => form[u] = "blank"
      BY <1>0, <2>2 DEF TypeOK
    <3> QED BY <1>1, <2>2, <3>1 DEF Submit, Kept, Goal, Held
  <2>3. CASE Enqueue(s, 0, ok) /\ ok /\ form' = [form EXCEPT ![s] = "kept"]
    <3>1. PICK j \in Ids : /\ of[j] = Unused
                          /\ of' = [of EXCEPT ![j] = About(s, 0, who)]
                          /\ memory' = [memory EXCEPT ![j] = FreshItem]
                          /\ disk' = [memory EXCEPT ![j] = FreshItem]
      BY <1>0, <2>3, EnqueueDoes, KeysAreNumbers
    <3>2. Submitted(s, j)
      BY <1>1, <2>3, <3>1 DEF Submit, Submitted, Written, server
    <3> QED BY <3>2 DEF Goal
  <2>4. CASE Enqueue(s, 0, ok) /\ ~ok /\ form' = [form EXCEPT ![s] = "passed"]
    <3>1. UNCHANGED <<of, memory, disk>>
      BY <1>0, <2>4, EnqueueDoes, KeysAreNumbers
    <3> QED BY <2>2, <2>4, <3>1
  <2> QED BY <2>1, <2>2, <2>3, <2>4
<1>2. ASSUME NEW i \in Ids, Retry(i) PROVE Goal
  <2>1. PICK ok \in Outcomes :
         /\ replaced' = IF ok THEN {i} ELSE {}
         /\ \/ /\ memory[i].failure = "script-ran"
               /\ minted[of[i].sub] < LastKey
               /\ minted' = [minted EXCEPT ![of[i].sub] = @ + 1]
               /\ Enqueue(of[i].sub, minted[of[i].sub] + 1, ok)
            \/ /\ memory[i].failure # "script-ran"
               /\ Enqueue(of[i].sub, of[i].key, ok)
               /\ UNCHANGED minted
    BY <1>2 DEF Retry
  <2>2. of[i] # Unused /\ i \in Held(memory) /\ replaced = {}
    BY <1>0, <1>2 DEF Retry, Offered, UsedInv, Held
  <2>3. of[i].sub \in Subs /\ of[i].key \in Keys /\ minted[of[i].sub] \in Keys
    BY <1>0, <2>2, UsedType DEF TypeOK
  <2>4. minted[of[i].sub] < LastKey => minted[of[i].sub] + 1 \in Keys
    BY <2>3, KeysAreNumbers DEF Keys
  <2>5. ok \in BOOLEAN
    BY OutcomesAre
  <2>6. memory[i].failure = "script-ran" => sound
    <3>1. memory[i].failure = "script-ran" => of[i].sub \in scripted
      BY <2>3 DEF IInv, FailInv, LedgerInv
    <3> QED BY <3>1 DEF IInv, Calm
  <2>7. PICK k \in Keys :
         /\ Enqueue(of[i].sub, k, ok)
         /\ \/ /\ memory[i].failure = "script-ran"
               /\ k = minted[of[i].sub] + 1
               /\ minted' = [minted EXCEPT ![of[i].sub] = k]
            \/ memory[i].failure # "script-ran" /\ k = of[i].key /\ minted' = minted
    BY <2>1, <2>3, <2>4
  <2>8. UNCHANGED <<gone, form, call, left, ledger, records>>
    BY <1>2 DEF Retry, server
  <2>9. CASE ok
    <3>1. PICK j \in Ids : /\ of[j] = Unused
                          /\ of' = [of EXCEPT ![j] = About(of[i].sub, k, who)]
                          /\ memory' = [memory EXCEPT ![j] = FreshItem]
                          /\ disk' = [memory EXCEPT ![j] = FreshItem]
      BY <1>0, <2>3, <2>5, <2>7, <2>9, EnqueueDoes
    <3>2. Retried(i, j, k)
      BY <2>1, <2>2, <2>7, <2>8, <2>9, <3>1 DEF Retried, Written
    <3> QED BY <3>2 DEF Goal
  <2>10. CASE ~ok
    <3>1. UNCHANGED <<of, memory, disk>>
      BY <1>0, <2>3, <2>5, <2>7, <2>10, EnqueueDoes
    <3>2. ~sound /\ minted' = minted
      BY <2>6, <2>7, <2>10, OutcomesAre
    <3> QED BY <2>8, <3>1, <3>2 DEF Kept, Goal, Held
  <2> QED BY <2>5, <2>9, <2>10
<1>3. ASSUME NEW i \in Ids, Discard(i) PROVE Goal
  <2>1. PICK ok \in Outcomes : Ack({i}, ok)
    BY <1>3 DEF Discard
  <2>2. Kept
    BY <1>0, <1>3, <2>1, AckKeeps DEF Discard, person
  <2> QED BY <2>2 DEF Goal
<1>4. ASSUME NEW i \in Ids, Age(i) PROVE Goal
  <2>1. \A j \in Ids : memory'[j] = IF j = i THEN [memory[i] EXCEPT !.old = TRUE] ELSE memory[j]
    BY <1>0, <1>4 DEF Age, TypeOK
  <2>2. memory'[i].status = "failed" /\ memory'[i].failure = memory[i].failure /\ i \in Held(memory)
    BY <1>0, <1>4, <2>1 DEF Age, TypeOK, Item, Held
  <2>3. Changed(i)
    BY <2>2 DEF Changed
  <2>4. Kept
    BY <1>4, <2>1, <2>3 DEF Age, person, Kept, Changed, Held
  <2> QED BY <2>4 DEF Goal
<1>5. ASSUME NEW i \in Ids, TakeUp(i) PROVE Goal
  BY <1>5 DEF TakeUp, person, queue, Kept, Goal, Held
<1>6. ASSUME NEW i \in Ids, HandBack(i) PROVE Goal
  BY <1>6 DEF HandBack, person, queue, Kept, Goal, Held
<1>7. CASE RemoveReplaced
  <2>1. PICK ok \in Outcomes : Ack(replaced, ok)
    BY <1>7 DEF RemoveReplaced
  <2>2. Kept
    BY <1>0, <1>7, <2>1, AckKeeps DEF RemoveReplaced, person
  <2> QED BY <2>2 DEF Goal
<1>8. CASE Sweep
  <2>1. \A i \in Ids : memory'[i] = IF i \in Expired(memory) THEN NoItem ELSE memory[i]
    BY <1>0, <1>8, WithoutType DEF Sweep, TypeOK
  <2>2. \A i \in Ids : memory'[i] = memory[i] \/ memory'[i] = NoItem
    BY <1>0, <2>1 DEF DiskInv
  <2>3. gone' = gone \cup LetGo(Expired(memory))
    BY <1>8 DEF Sweep
  <2>4. \A s \in gone' \ gone :
          /\ \E i \in Held(memory) : of[i].sub = s
          /\ \A i \in Held(memory) : of[i].sub = s => memory'[i] = NoItem
    BY <2>1, <2>3, LetGoFacts, ExpiredFacts
  <2>5. \A j \in Held(memory) \ Expired(memory) : memory'[j] = memory[j]
    BY <1>0, <2>1, HeldAre, ItemTypes DEF DiskInv, Held
  <2>6. \A i \in Held(memory) : of[i].sub \in Subs
    BY <1>0, HeldAre, UsedType DEF UsedInv
  <2>7. \A i \in Held(memory) : memory'[i].status # "none" \/ AccountedFor(of[i].sub)
    BY <2>3, <2>5, <2>6, LetGoAll
  <2>8. Kept
    BY <1>8, <2>2, <2>3, <2>4, <2>7 DEF Sweep, person, Kept
  <2> QED BY <2>8 DEF Goal
<1>9. CASE SessionExpires
  BY <1>9 DEF SessionExpires, person, queue, Kept, Goal, Held
<1>10. CASE SignOut
  BY <1>10 DEF SignOut, person, queue, Kept, Goal, Held
<1>11. CASE Purge
  <2>1. PICK ok \in Outcomes : Ack(purging, ok)
    BY <1>11 DEF Purge
  <2>2. Kept
    BY <1>0, <1>11, <2>1, AckKeeps DEF Purge, person
  <2> QED BY <2>2 DEF Goal
<1>12. CASE Crash
  <2>1. \A i \in Ids : memory'[i] = IF i \in Expired(disk) THEN NoItem ELSE disk[i]
    BY <1>0, <1>12, WithoutType DEF Crash, TypeOK
  <2>2. \A i \in Ids : memory'[i] = memory[i] \/ memory'[i] = NoItem
    BY <1>0, <2>1 DEF DiskInv
  <2>3. gone' = gone \cup LetGo(Expired(disk))
    BY <1>12 DEF Crash
  <2>4. \A s \in gone' \ gone :
          /\ \E i \in Held(memory) : of[i].sub = s
          /\ \A i \in Held(memory) : of[i].sub = s => memory'[i] = NoItem
    BY <2>1, <2>3, LetGoFacts, ExpiredFacts
  <2>5. \A j \in Held(memory) \ Expired(disk) : memory'[j] = memory[j]
    BY <1>0, <2>1, HeldAre, ItemTypes DEF DiskInv, Held
  <2>6. \A i \in Held(memory) : of[i].sub \in Subs
    BY <1>0, HeldAre, UsedType DEF UsedInv
  <2>7. \A i \in Held(memory) : memory'[i].status # "none" \/ AccountedFor(of[i].sub)
    BY <2>3, <2>5, <2>6, LetGoAll
  <2>8. Kept
    BY <1>12, <2>2, <2>3, <2>4, <2>7 DEF Crash, person, Kept
  <2> QED BY <2>8 DEF Goal
<1>13. ASSUME NEW a \in Accounts, SignIn(a) PROVE Goal
  BY <1>13 DEF SignIn, person, queue, Kept, Goal, Held
<1>14. ASSUME NEW a \in Accounts, LookUp(a) PROVE Goal
  BY <1>14 DEF LookUp, person, queue, Kept, Goal, Held
<1>15. CASE StartPass
  BY <1>15 DEF StartPass, person, queue, Kept, Goal, Held
<1>16. CASE SendBatch
  BY <1>16 DEF SendBatch, person, queue, Kept, Goal, Held
<1>17. CASE PassEnds
  BY <1>17 DEF PassEnds, person, queue, Kept, Goal, Held
<1>18. CASE Unreached
  BY <1>18 DEF Unreached, person, queue, Kept, Goal, Held
<1>19. CASE TooLarge
  BY <1>19 DEF TooLarge, person, queue, Kept, Goal, Held
<1>20. CASE Rejected
  BY <1>20 DEF Rejected, person, queue, Kept, Goal, Held
<1>21. CASE BatchEnds
  BY <1>21 DEF BatchEnds, person, queue, Kept, Goal, Held
<1>22. CASE Reach
  BY <1>22 DEF Reach, person, queue, Kept, Goal, Held
<1>23. ASSUME NEW r \in Results, NEW ok \in Outcomes, Settle(r, ok) PROVE Goal
  <2>1. ok \in BOOLEAN /\ UNCHANGED <<of, minted, form, replaced, gone>>
    BY <1>23, OutcomesAre DEF Settle, person
  <2>2. CASE memory' = memory
    BY <2>1, <2>2 DEF Kept, Goal, Held
  <2>3. CASE r = "stored" /\ memory' = Without(memory, With(r))
    <3>1. \A i \in Ids : memory'[i] = memory[i] \/ memory'[i] = NoItem
      BY <1>0, <2>3, WithoutType DEF TypeOK
    <3>2. \A i \in Held(memory) : memory'[i].status # "none" \/ AccountedFor(of[i].sub)
      <4> SUFFICES ASSUME NEW i \in Held(memory), i \in With(r) PROVE AccountedFor(of[i].sub)
        BY <1>0, <2>3, WithoutType, HeldAre DEF TypeOK, Held
      <4>1. records[of[i].sub] = 1
        BY <2>3 DEF IInv, AnswerInv, With
      <4> QED BY <2>1, <4>1 DEF AccountedFor
    <3> QED BY <2>1, <3>1, <3>2 DEF Kept, Goal
  <2>4. CASE r \in {"conflict", "scriptRan", "refused"} /\ memory' = Marked(r)
    <3>1. \A i \in Ids : memory'[i] = memory[i] \/ Changed(i)
      <4> SUFFICES ASSUME NEW i \in Ids, memory'[i] # memory[i] PROVE Changed(i)
        OBVIOUS
      <4>1. /\ i \in With(r) /\ i \in Held(memory)
            /\ memory'[i].status \in {memory[i].status, "failed"}
            /\ memory'[i].failure = "script-ran" => r = "scriptRan" \/ memory[i].failure = "script-ran"
        BY <1>0, <2>4, MarkedType
      <4>2. memory'[i].status # "none"
        BY <4>1 DEF Held
      <4> QED BY <4>1, <4>2 DEF Changed, With
    <3> QED BY <2>1, <3>1 DEF Kept, Goal, Changed, Held
  <2> QED BY <1>23, <2>1, <2>2, <2>3, <2>4 DEF Settle, Persist, RolledBack
<1>24. ASSUME NEW p \in Subs \X Keys, Judge(p) PROVE Goal
  BY <1>24 DEF Judge, person, queue, Kept, Goal, Held
<1>25. ASSUME NEW p \in Subs \X Keys, Defer(p) PROVE Goal
  BY <1>25 DEF Defer, person, queue, Kept, Goal, Held
<1>26. ASSUME NEW p \in Subs \X Keys, TakeUpAlone(p) PROVE Goal
  BY <1>26 DEF TakeUpAlone, person, queue, Kept, Goal, Held
<1>27. ASSUME NEW p \in Subs \X Keys, JudgeAlone(p) PROVE Goal
  BY <1>27 DEF JudgeAlone, person, queue, Kept, Goal, Held
<1>28. CASE UNCHANGED vars
  BY <1>28 DEF vars, Kept, Goal, Held
<1> QED
  BY <1>1, <1>2, <1>3, <1>4, <1>5, <1>6, <1>7, <1>8, <1>9, <1>10,
     <1>11, <1>12, <1>13, <1>14, <1>15, <1>16, <1>17, <1>18, <1>19, <1>20,
     <1>21, <1>22, <1>23, <1>24, <1>25, <1>26, <1>27, <1>28
  DEF Next

(* What the server writes.                                                 *)
Wrote(p, e) ==
  /\ ledger' = [ledger EXCEPT ![p[1]][p[2]] = e]
  /\ records' = [records EXCEPT ![p[1]] = IF e = "done" THEN @ + 1 ELSE @]
  /\ p[2] <= minted[p[1]]
  /\ \/ ledger[p[1]][p[2]] = "none" /\ e = "busy" /\ (p \in call'.taken \/ p \notin call.taken)
     \/ ledger[p[1]][p[2]] = "busy" /\ e \in {"done", "none"} /\ p \notin call'.taken
     \/ ledger[p[1]][p[2]] = "busy" /\ e = "acted" /\ p[1] \in scripted /\ p \notin call'.taken
  /\ \A x \in call'.taken : x \in call.taken \/ x = p
  /\ UNCHANGED <<form, minted, replaced, gone, of, memory, disk>>

LEMMA EndsWrites ==
  ASSUME IInv, NEW p \in Subs \X Keys, NEW r \in Judgements(p[1]) \cup {"later"}, Ends(p, r),
         ledger[p[1]][p[2]] = "busy", p[2] <= minted[p[1]], p \notin call'.taken,
         call'.taken \subseteq call.taken, UNCHANGED <<form, minted, replaced, gone, of, memory, disk>>
  PROVE  \E e \in Entries : Wrote(p, e)
<1> DEFINE e == CASE r = "stored" -> "done" [] r = "scriptRan" -> "acted" [] OTHER -> "none"
<1>1. e \in {"done", "acted", "none"} /\ (e = "done" <=> r = "stored") /\ (e = "acted" <=> r = "scriptRan")
  OBVIOUS
<1>2. ledger' = [ledger EXCEPT ![p[1]][p[2]] = e]
  BY DEF Ends
<1> HIDE DEF e
<1>3. records' = [records EXCEPT ![p[1]] = IF e = "done" THEN @ + 1 ELSE @]
  BY <1>1 DEF Ends
<1>4. e = "acted" => p[1] \in scripted
  BY <1>1 DEF Judgements
<1>5. Wrote(p, e)
  BY <1>1, <1>2, <1>3, <1>4 DEF Wrote
<1> QED
  BY <1>1, <1>5 DEF Entries

LEMMA ServerStep ==
  ASSUME IInv, [Next]_vars
  PROVE  \/ \E p \in Subs \X Keys, e \in Entries : Wrote(p, e)
         \/ UNCHANGED <<ledger, records>> /\ call'.taken \subseteq call.taken
<1> DEFINE Goal == \/ \E p \in Subs \X Keys, e \in Entries : Wrote(p, e)
                   \/ UNCHANGED <<ledger, records>> /\ call'.taken \subseteq call.taken
<1> SUFFICES Goal
  OBVIOUS
<1>0. TypeOK /\ UsedInv
  BY DEF IInv
<1> HIDE DEF Goal
<1>1. ASSUME NEW s \in Subs, Submit(s) PROVE Goal
  BY <1>1 DEF Submit, server, Goal
<1>2. ASSUME NEW i \in Ids, Retry(i) PROVE Goal
  BY <1>2 DEF Retry, server, Goal
<1>3. ASSUME NEW i \in Ids, Discard(i) PROVE Goal
  BY <1>3 DEF Discard, server, Goal
<1>4. ASSUME NEW i \in Ids, Age(i) PROVE Goal
  BY <1>4 DEF Age, server, Goal
<1>5. ASSUME NEW i \in Ids, TakeUp(i) PROVE Goal
  <2> DEFINE p == PairOf(i)
  <2>1. of[i] # Unused /\ p \in Subs \X Keys /\ p[1] = of[i].sub /\ p[2] = of[i].key
    BY <1>0, <1>5, UsedType DEF TakeUp, Open, UsedInv
  <2>2. p[2] <= minted[p[1]]
    BY <2>1 DEF IInv, KeyInv
  <2> HIDE DEF p
  <2>3. CASE ledger[p[1]][p[2]] = "none"
    <3>1. /\ ledger' = [ledger EXCEPT ![p[1]][p[2]] = "busy"]
          /\ call' = [call EXCEPT !.taken = @ \cup {p}]
          /\ UNCHANGED <<form, minted, replaced, gone, of, memory, disk, records>>
      BY <1>5, <2>3 DEF TakeUp, person, queue, p
    <3>2. call'.taken = call.taken \cup {p}
      BY <1>0, <3>1 DEF TypeOK, Call
    <3>3. records' = [records EXCEPT ![p[1]] = records[p[1]]]
      BY <1>0, <3>1 DEF TypeOK
    <3>4. Wrote(p, "busy")
      BY <2>2, <2>3, <3>1, <3>2, <3>3 DEF Wrote
    <3> QED BY <2>1, <3>4 DEF Goal, Entries
  <2>4. CASE ledger[p[1]][p[2]] # "none"
    <3>1. UNCHANGED <<ledger, records>> /\ \E r : call' = Answered(p, r)
      BY <1>5, <2>4 DEF TakeUp, p
    <3>2. call'.taken \subseteq call.taken
      BY <1>0, <3>1 DEF Answered, TypeOK, Call
    <3> QED BY <3>1, <3>2 DEF Goal
  <2> QED BY <2>3, <2>4
<1>6. ASSUME NEW i \in Ids, HandBack(i) PROVE Goal
  <2>1. call'.taken \subseteq call.taken
    BY <1>0, <1>6 DEF HandBack, Answered, TypeOK, Call
  <2> QED BY <1>6, <2>1 DEF HandBack, server, Goal
<1>7. CASE RemoveReplaced
  BY <1>7 DEF RemoveReplaced, server, Goal
<1>8. CASE Sweep
  BY <1>8 DEF Sweep, server, Goal
<1>9. CASE SessionExpires
  BY <1>9 DEF SessionExpires, server, Goal
<1>10. CASE SignOut
  BY <1>10 DEF SignOut, server, Goal
<1>11. CASE Purge
  BY <1>11 DEF Purge, server, Goal
<1>12. CASE Crash
  <2>1. call'.taken = {}
    BY <1>0, <1>12, CallTypes DEF Crash, TypeOK, Pass
  <2> QED BY <1>12, <2>1 DEF Crash, server, Goal
<1>13. ASSUME NEW a \in Accounts, SignIn(a) PROVE Goal
  BY <1>13 DEF SignIn, server, Goal
<1>14. ASSUME NEW a \in Accounts, LookUp(a) PROVE Goal
  BY <1>14 DEF LookUp, server, Goal
<1>15. CASE StartPass
  BY <1>15 DEF StartPass, server, Goal
<1>16. CASE SendBatch
  <2>1. call'.taken = {}
    BY <1>0, <1>16, CallTypes DEF SendBatch, TypeOK, Pass
  <2> QED BY <1>16, <2>1 DEF SendBatch, server, Goal
<1>17. CASE PassEnds
  <2>1. call' = call
    BY <1>17 DEF PassEnds
  <2> QED BY <1>17, <2>1 DEF PassEnds, server, Goal
<1>18. CASE Unreached
  <2>1. call'.taken = {}
    BY <1>0, <1>18, CallTypes DEF Unreached, TypeOK, Pass
  <2> QED BY <1>18, <2>1 DEF Unreached, server, Goal
<1>19. CASE TooLarge
  <2>1. call'.taken = {}
    BY <1>0, <1>19, CallTypes DEF TooLarge, TypeOK, Pass
  <2> QED BY <1>19, <2>1 DEF TooLarge, server, Goal
<1>20. CASE Rejected
  <2>1. call'.taken = {}
    BY <1>0, <1>20, CallTypes DEF Rejected, TypeOK, Call
  <2> QED BY <1>20, <2>1 DEF Rejected, Goal
<1>21. CASE BatchEnds
  <2>1. call'.taken = {}
    BY <1>0, <1>21, CallTypes DEF BatchEnds, TypeOK, Pass
  <2> QED BY <1>21, <2>1 DEF BatchEnds, server, Goal
<1>22. CASE Reach
  <2>1. call'.taken = call.taken
    BY <1>0, <1>22 DEF Reach, TypeOK, Call
  <2> QED BY <1>22, <2>1 DEF Reach, server, Goal
<1>23. ASSUME NEW r \in Results, NEW ok \in Outcomes, Settle(r, ok) PROVE Goal
  <2>1. call'.taken = call.taken
    BY <1>0, <1>23 DEF Settle, TypeOK, Call
  <2> QED BY <1>23, <2>1 DEF Settle, server, Goal
<1>24. ASSUME NEW p \in Subs \X Keys, Judge(p) PROVE Goal
  <2>1. PICK r \in Judgements(p[1]) \cup {"later"} : Ends(p, r) /\ call' = Answered(p, r)
    BY <1>24 DEF Judge
  <2>2. call'.taken = call.taken \ {p}
    BY <1>0, <2>1 DEF Answered, TypeOK, Call
  <2>3. p \in call.taken /\ UNCHANGED <<form, minted, replaced, gone, of, memory, disk>>
    BY <1>24 DEF Judge, person, queue
  <2>4. ledger[p[1]][p[2]] = "busy" /\ p[2] <= minted[p[1]]
    BY <2>3 DEF IInv, WorkInv, KeyInv
  <2>5. \E e \in Entries : Wrote(p, e)
    BY <2>1, <2>2, <2>3, <2>4, EndsWrites
  <2> QED BY <2>5 DEF Goal
<1>25. ASSUME NEW p \in Subs \X Keys, Defer(p) PROVE Goal
  <2>1. PICK r \in Judgements(p[1]) \cup {"later"} : Ends(p, r) /\ call' = Answered(p, r)
    BY <1>25 DEF Defer
  <2>2. call'.taken = call.taken \ {p}
    BY <1>0, <2>1 DEF Answered, TypeOK, Call
  <2>3. p \in call.taken /\ UNCHANGED <<form, minted, replaced, gone, of, memory, disk>>
    BY <1>25 DEF Defer, person, queue
  <2>4. ledger[p[1]][p[2]] = "busy" /\ p[2] <= minted[p[1]]
    BY <2>3 DEF IInv, WorkInv, KeyInv
  <2>5. \E e \in Entries : Wrote(p, e)
    BY <2>1, <2>2, <2>3, <2>4, EndsWrites
  <2> QED BY <2>5 DEF Goal
<1>26. ASSUME NEW p \in Subs \X Keys, TakeUpAlone(p) PROVE Goal
  <2>1. CASE ledger' = ledger
    BY <1>26, <2>1 DEF TakeUpAlone, Goal
  <2>2. CASE ledger[p[1]][p[2]] = "none" /\ ledger' = [ledger EXCEPT ![p[1]][p[2]] = "busy"]
    <3>1. p[2] <= minted[p[1]] /\ p \notin call.taken
      BY <1>26, <2>2 DEF TakeUpAlone, IInv, KeyInv, WorkInv
    <3>2. records' = [records EXCEPT ![p[1]] = records[p[1]]]
      BY <1>0, <1>26 DEF TakeUpAlone, TypeOK
    <3>3. Wrote(p, "busy")
      BY <1>26, <2>2, <3>1, <3>2 DEF TakeUpAlone, Wrote, person, queue
    <3> QED BY <3>3 DEF Goal, Entries
  <2> QED BY <1>26, <2>1, <2>2 DEF TakeUpAlone
<1>27. ASSUME NEW p \in Subs \X Keys, JudgeAlone(p) PROVE Goal
  <2>1. PICK r \in Judgements(p[1]) : Ends(p, r)
    BY <1>27 DEF JudgeAlone
  <2>2. ledger[p[1]][p[2]] = "busy" /\ p \notin call'.taken /\ call' = call
        /\ UNCHANGED <<form, minted, replaced, gone, of, memory, disk>>
    BY <1>27 DEF JudgeAlone, person, queue
  <2>3. p[2] <= minted[p[1]]
    <3>1. ~(p[2] > minted[p[1]])
      BY <2>2 DEF IInv, LedgerInv
    <3>2. p[2] \in Nat /\ minted[p[1]] \in Nat
      BY <1>0, KeysAreNumbers DEF TypeOK
    <3> QED BY <3>1, <3>2
  <2>4. \E e \in Entries : Wrote(p, e)
    BY <2>1, <2>2, <2>3, EndsWrites
  <2> QED BY <2>4 DEF Goal
<1>28. CASE UNCHANGED vars
  BY <1>28 DEF vars, Goal
<1> QED
  BY <1>1, <1>2, <1>3, <1>4, <1>5, <1>6, <1>7, <1>8, <1>9, <1>10,
     <1>11, <1>12, <1>13, <1>14, <1>15, <1>16, <1>17, <1>18, <1>19, <1>20,
     <1>21, <1>22, <1>23, <1>24, <1>25, <1>26, <1>27, <1>28
  DEF Next


-----------------------------------------------------------------------------
(* The invariant is inductive                                              *)

LEMMA CalmStep == IInv /\ [Next]_vars => Calm'
  BY SettingKept DEF IInv, Calm, setting

LEMMA PersistDisk ==
  ASSUME DiskInv, NEW q, NEW ok \in BOOLEAN, Persist(q, ok)
  PROVE  DiskInv'
  BY DEF DiskInv, Persist, RolledBack, Expired

LEMMA DiskStep == IInv /\ [Next]_vars => DiskInv'
<1> SUFFICES ASSUME IInv, [Next]_vars PROVE DiskInv'
  OBVIOUS
<1>0. TypeOK /\ DiskInv
  BY DEF IInv
<1>1. ASSUME NEW s \in Subs, Submit(s) PROVE DiskInv'
  <2>1. \/ UNCHANGED <<memory, disk>>
        \/ \E q : \E ok \in BOOLEAN : Persist(q, ok)
    BY <1>1 DEF Submit, Enqueue
  <2>2. CASE UNCHANGED <<memory, disk>>
    BY <1>0, <2>2 DEF DiskInv, Expired
  <2> QED BY <1>0, <2>1, <2>2, PersistDisk
<1>2. ASSUME NEW i \in Ids, Retry(i) PROVE DiskInv'
  <2>1. \E q : \E ok \in BOOLEAN : Persist(q, ok)
    BY <1>2, OutcomesAre DEF Retry, Enqueue
  <2> QED BY <1>0, <2>1, PersistDisk
<1>3. ASSUME NEW i \in Ids, Discard(i) PROVE DiskInv'
  <2>1. \E q : \E ok \in BOOLEAN : Persist(q, ok)
    BY <1>3, OutcomesAre DEF Discard, Ack
  <2> QED BY <1>0, <2>1, PersistDisk
<1>4. ASSUME NEW i \in Ids, Age(i) PROVE DiskInv'
  <2>1. memory[i] # NoItem /\ memory[i] = disk[i]
    BY <1>0, <1>4, ItemTypes DEF Age, DiskInv
  <2>2. \A j \in Ids : /\ memory'[j] = IF j = i THEN [memory[i] EXCEPT !.old = TRUE] ELSE memory[j]
                       /\ disk'[j] = IF j = i THEN [disk[i] EXCEPT !.old = TRUE] ELSE disk[j]
    BY <1>0, <1>4 DEF Age, TypeOK
  <2> QED BY <1>0, <2>1, <2>2 DEF DiskInv, Expired
<1>5. ASSUME NEW i \in Ids, TakeUp(i) PROVE DiskInv'
  BY <1>0, <1>5 DEF TakeUp, queue, DiskInv, Expired
<1>6. ASSUME NEW i \in Ids, HandBack(i) PROVE DiskInv'
  BY <1>0, <1>6 DEF HandBack, queue, DiskInv, Expired
<1>7. CASE RemoveReplaced
  <2>1. \E q : \E ok \in BOOLEAN : Persist(q, ok)
    BY <1>7, OutcomesAre DEF RemoveReplaced, Ack
  <2> QED BY <1>0, <2>1, PersistDisk
<1>8. CASE Sweep
  <2>1. \A i \in Ids : memory'[i] = IF i \in Expired(memory) THEN NoItem ELSE memory[i]
    BY <1>0, <1>8, WithoutType DEF Sweep, TypeOK
  <2>2. disk' = memory' \/ disk' = disk
    BY <1>8 DEF Sweep
  <2>3. \A i \in Expired(memory) : memory[i] = disk[i]
    BY <1>0, ItemTypes DEF DiskInv, Expired
  <2> QED BY <1>0, <2>1, <2>2, <2>3 DEF DiskInv, Expired
<1>9. CASE SessionExpires
  BY <1>0, <1>9 DEF SessionExpires, queue, DiskInv, Expired
<1>10. CASE SignOut
  BY <1>0, <1>10 DEF SignOut, queue, DiskInv, Expired
<1>11. CASE Purge
  <2>1. \E q : \E ok \in BOOLEAN : Persist(q, ok)
    BY <1>11, OutcomesAre DEF Purge, Ack
  <2> QED BY <1>0, <2>1, PersistDisk
<1>12. CASE Crash
  <2>1. \A i \in Ids : memory'[i] = IF i \in Expired(disk) THEN NoItem ELSE disk[i]
    BY <1>0, <1>12, WithoutType DEF Crash, TypeOK
  <2>2. disk' = memory' \/ disk' = disk
    BY <1>12 DEF Crash
  <2> QED BY <1>0, <2>1, <2>2 DEF DiskInv, Expired
<1>13. ASSUME NEW a \in Accounts, SignIn(a) PROVE DiskInv'
  BY <1>0, <1>13 DEF SignIn, queue, DiskInv, Expired
<1>14. ASSUME NEW a \in Accounts, LookUp(a) PROVE DiskInv'
  BY <1>0, <1>14 DEF LookUp, queue, DiskInv, Expired
<1>15. CASE StartPass
  BY <1>0, <1>15 DEF StartPass, queue, DiskInv, Expired
<1>16. CASE SendBatch
  BY <1>0, <1>16 DEF SendBatch, queue, DiskInv, Expired
<1>17. CASE PassEnds
  BY <1>0, <1>17 DEF PassEnds, queue, DiskInv, Expired
<1>18. CASE Unreached
  BY <1>0, <1>18 DEF Unreached, queue, DiskInv, Expired
<1>19. CASE TooLarge
  BY <1>0, <1>19 DEF TooLarge, queue, DiskInv, Expired
<1>20. CASE Rejected
  BY <1>0, <1>20 DEF Rejected, queue, DiskInv, Expired
<1>21. CASE BatchEnds
  BY <1>0, <1>21 DEF BatchEnds, queue, DiskInv, Expired
<1>22. CASE Reach
  BY <1>0, <1>22 DEF Reach, queue, DiskInv, Expired
<1>23. ASSUME NEW r \in Results, NEW ok \in Outcomes, Settle(r, ok) PROVE DiskInv'
  <2>1. \E q : \E x \in BOOLEAN : Persist(q, x)
    BY <1>23, OutcomesAre DEF Settle
  <2> QED BY <1>0, <2>1, PersistDisk
<1>24. ASSUME NEW p \in Subs \X Keys, Judge(p) PROVE DiskInv'
  BY <1>0, <1>24 DEF Judge, queue, DiskInv, Expired
<1>25. ASSUME NEW p \in Subs \X Keys, Defer(p) PROVE DiskInv'
  BY <1>0, <1>25 DEF Defer, queue, DiskInv, Expired
<1>26. ASSUME NEW p \in Subs \X Keys, TakeUpAlone(p) PROVE DiskInv'
  BY <1>0, <1>26 DEF TakeUpAlone, queue, DiskInv, Expired
<1>27. ASSUME NEW p \in Subs \X Keys, JudgeAlone(p) PROVE DiskInv'
  BY <1>0, <1>27 DEF JudgeAlone, queue, DiskInv, Expired
<1>28. CASE UNCHANGED vars
  BY <1>0, <1>28 DEF vars, queue, DiskInv, Expired
<1> QED
  BY <1>1, <1>2, <1>3, <1>4, <1>5, <1>6, <1>7, <1>8, <1>9, <1>10,
     <1>11, <1>12, <1>13, <1>14, <1>15, <1>16, <1>17, <1>18, <1>19, <1>20,
     <1>21, <1>22, <1>23, <1>24, <1>25, <1>26, <1>27, <1>28
  DEF Next

LEMMA BlankStep == IInv /\ [Next]_vars => BlankInv'
<1> SUFFICES ASSUME IInv, [Next]_vars PROVE BlankInv'
  OBVIOUS
<1>0. TypeOK /\ UsedInv /\ BlankInv /\ TypeOK'
  BY TypeStep DEF IInv
<1>1. ASSUME NEW s \in Subs, NEW j \in Ids, Submitted(s, j) PROVE BlankInv'
  <2>1. \A i \in Ids : of'[i] = IF i = j THEN About(s, 0, who) ELSE of[i]
    BY <1>0, <1>1 DEF Submitted, Written, TypeOK
  <2>2. About(s, 0, who).sub = s
    BY DEF About
  <2>3. \A u \in Subs : form'[u] = IF u = s THEN "kept" ELSE form[u]
    BY <1>0, <1>1 DEF Submitted, TypeOK
  <2>4. \A i \in Ids : of'[i] # Unused => form'[of'[i].sub] # "blank"
    BY <1>0, <2>1, <2>2, <2>3, UsedType DEF BlankInv
  <2> QED BY <1>0, <1>1, <2>3, <2>4 DEF BlankInv, Submitted, Written
<1>2. ASSUME NEW i \in Ids, NEW j \in Ids, NEW k \in Keys, Retried(i, j, k) PROVE BlankInv'
  <2>1. \A x \in Ids : of'[x] = IF x = j THEN About(of[i].sub, k, who) ELSE of[x]
    BY <1>0, <1>2 DEF Retried, Written, TypeOK
  <2>2. About(of[i].sub, k, who).sub = of[i].sub /\ form[of[i].sub] # "blank" /\ form' = form
    BY <1>0, <1>2 DEF About, BlankInv, Retried
  <2>3. \A u \in Subs : minted'[u] = minted[u] \/ u = of[i].sub
    BY <1>0, <1>2 DEF Retried, TypeOK
  <2>4. \A x \in Ids : of'[x] # Unused => form'[of'[x].sub] # "blank"
    BY <1>0, <2>1, <2>2 DEF BlankInv
  <2> QED BY <1>0, <1>2, <2>2, <2>3, <2>4 DEF BlankInv, Retried, Written
<1>3. CASE Kept
  <2>1. \A i \in Ids : of'[i] # Unused => form'[of'[i].sub] # "blank"
    BY <1>0, <1>3, UsedType DEF Kept, BlankInv
  <2>2. ASSUME NEW s \in Subs, form'[s] = "blank" PROVE s \notin gone' /\ minted'[s] = 0
    <3>1. s \notin gone /\ minted'[s] = 0 /\ form[s] = "blank"
      BY <1>0, <1>3, <2>2 DEF Kept, BlankInv
    <3>2. \A i \in Held(memory) : of[i].sub # s
      BY <1>0, <3>1, HeldAre DEF BlankInv, UsedInv
    <3> QED BY <1>3, <3>1, <3>2 DEF Kept
  <2> QED BY <2>1, <2>2 DEF BlankInv
<1> QED
  BY <1>1, <1>2, <1>3, QueueStep

LEMMA GoneStep == IInv /\ [Next]_vars => GoneInv'
<1> SUFFICES ASSUME IInv, [Next]_vars, NEW x \in Ids, memory'[x].status # "none"
             PROVE  of'[x].sub \notin gone'
  BY DEF GoneInv, Held
<1>0. TypeOK /\ GoneInv /\ BlankInv
  BY DEF IInv
<1>1. ASSUME NEW s \in Subs, NEW j \in Ids, Submitted(s, j) PROVE of'[x].sub \notin gone'
  <2>1. of'[x] = IF x = j THEN About(s, 0, who) ELSE of[x]
    BY <1>0, <1>1 DEF Submitted, Written, TypeOK
  <2>2. x # j => x \in Held(memory)
    BY <1>0, <1>1 DEF Submitted, Written, TypeOK, Held
  <2> QED BY <1>0, <1>1, <2>1, <2>2 DEF Submitted, Written, About, BlankInv, GoneInv
<1>2. ASSUME NEW i \in Ids, NEW j \in Ids, NEW k \in Keys, Retried(i, j, k)
      PROVE  of'[x].sub \notin gone'
  <2>1. of'[x] = IF x = j THEN About(of[i].sub, k, who) ELSE of[x]
    BY <1>0, <1>2 DEF Retried, Written, TypeOK
  <2>2. x # j => x \in Held(memory)
    BY <1>0, <1>2 DEF Retried, Written, TypeOK, Held
  <2> QED BY <1>0, <1>2, <2>1, <2>2 DEF Retried, Written, About, GoneInv
<1>3. CASE Kept
  <2>1. x \in Held(memory) /\ memory'[x] # NoItem
    BY <1>3, ItemTypes DEF Kept, Changed, Held
  <2> QED BY <1>0, <1>3, <2>1 DEF Kept, GoneInv
<1> QED
  BY <1>1, <1>2, <1>3, QueueStep

(* Where nothing dies, the last key made is the key of what failed.        *)
LEMMA LastKeyFailed ==
  ASSUME IInv, NEW i \in Held(memory), replaced = {}, memory[i].failure = "script-ran"
  PROVE  /\ of[i].key = minted[of[i].sub] /\ of[i].sub \in Subs
         /\ ledger[of[i].sub][minted[of[i].sub]] = "acted"
<1>1. i \in Ids /\ of[i] # Unused /\ ledger[of[i].sub][of[i].key] = "acted"
  BY HeldAre DEF IInv, FailInv
<1>2. of[i].sub \in Subs /\ of[i].key \in Keys
  BY <1>1, UsedType DEF IInv
<1>3. sound
  BY <1>1, <1>2 DEF IInv, LedgerInv, Calm
<1> QED
  BY <1>1, <1>2, <1>3 DEF IInv, SoundInv

LEMMA SoundStep == IInv /\ [Next]_vars => SoundInv'
<1> SUFFICES ASSUME IInv, [Next]_vars, sound PROVE SoundInv'
  BY SettingKept DEF SoundInv, setting
<1>0. TypeOK /\ UsedInv /\ BlankInv /\ SoundInv
  BY DEF IInv
<1> DEFINE One(x, y) == /\ of'[x].key = minted'[of'[x].sub]
                        /\ of'[x].sub = of'[y].sub => x = y
<1> SUFFICES ASSUME NEW x \in Ids, NEW y \in Ids, memory'[x].status # "none",
                    memory'[y].status # "none", x \notin replaced', y \notin replaced'
             PROVE  One(x, y)
  BY DEF SoundInv, Held
<1>1. ASSUME NEW s \in Subs, NEW j \in Ids, Submitted(s, j) PROVE One(x, y)
  <2>1. \A z \in Ids : of'[z] = IF z = j THEN About(s, 0, who) ELSE of[z]
    BY <1>0, <1>1 DEF Submitted, Written, TypeOK
  <2>2. \A z \in Ids : z # j /\ memory'[z].status # "none" => z \in Held(memory)
    BY <1>0, <1>1 DEF Submitted, Written, TypeOK, Held
  <2>3. \A z \in Held(memory) : of[z].sub # s
    BY <1>0, <1>1, HeldAre DEF UsedInv, BlankInv, Submitted
  <2>4. About(s, 0, who).sub = s /\ About(s, 0, who).key = 0 /\ minted[s] = 0
        /\ minted' = minted /\ replaced' = replaced
    BY <1>0, <1>1 DEF About, BlankInv, Submitted
  <2> QED BY <1>0, <2>1, <2>2, <2>3, <2>4 DEF SoundInv
<1>2. ASSUME NEW i \in Ids, NEW j \in Ids, NEW k \in Keys, Retried(i, j, k) PROVE One(x, y)
  <2>1. \A z \in Ids : of'[z] = IF z = j THEN About(of[i].sub, k, who) ELSE of[z]
    BY <1>0, <1>2 DEF Retried, Written, TypeOK
  <2>2. \A z \in Ids : z # j /\ memory'[z].status # "none" => z \in Held(memory)
    BY <1>0, <1>2 DEF Retried, Written, TypeOK, Held
  <2>3. i \in Held(memory) /\ of[i].sub \in Subs /\ replaced = {} /\ replaced' = {i}
    BY <1>0, <1>2, UsedType DEF Retried
  <2>4. \A z \in Held(memory) : z # i => of[z].sub # of[i].sub /\ of[z].sub \in Subs
    BY <1>0, <2>3, HeldAre, UsedType DEF SoundInv, UsedInv
  <2>5. \A z \in Held(memory) : /\ of[z].key = minted[of[z].sub]
                                /\ \A w \in Held(memory) : of[z].sub = of[w].sub => z = w
    BY <1>0, <2>3 DEF SoundInv
  <2>6. \A u \in Subs : u # of[i].sub => minted'[u] = minted[u]
    BY <1>0, <1>2 DEF Retried, TypeOK
  <2>7. k = minted'[of[i].sub]
    BY <1>0, <1>2, <2>3, <2>5 DEF Retried, TypeOK
  <2>8. About(of[i].sub, k, who).sub = of[i].sub /\ About(of[i].sub, k, who).key = k
    BY DEF About
  <2>9. x # i /\ y # i
    BY <2>3
  <2> QED BY <2>1, <2>2, <2>4, <2>5, <2>6, <2>7, <2>8, <2>9
<1>3. CASE Kept
  <2>1. x \in Held(memory) /\ y \in Held(memory) /\ memory'[x] # NoItem /\ memory'[y] # NoItem
    BY <1>3, ItemTypes DEF Kept, Changed, Held
  <2>2. x \notin replaced /\ y \notin replaced
    BY <1>3, <2>1 DEF Kept
  <2> QED BY <1>0, <1>3, <2>1, <2>2 DEF SoundInv, Kept
<1> QED
  BY <1>1, <1>2, <1>3, QueueStep

(* A key that is worked on is the last one made, and nothing is stored yet. *)
LEMMA BusyIsLast ==
  ASSUME IInv, NEW p \in Subs \X Keys, ledger[p[1]][p[2]] \in {"none", "busy"}, p[2] <= minted[p[1]]
  PROVE  p[2] = minted[p[1]] /\ records[p[1]] = 0
<1>1. p[1] \in Subs /\ p[2] \in Keys /\ p[2] \in Nat /\ minted[p[1]] \in Nat
  BY KeysAreNumbers DEF IInv, TypeOK
<1>2. ~(p[2] < minted[p[1]])
  BY <1>1 DEF IInv, LedgerInv
<1>3. p[2] = minted[p[1]]
  BY <1>1, <1>2
<1> QED
  BY <1>1, <1>3 DEF IInv, RecordInv

LEMMA WroteAt ==
  ASSUME IInv, NEW p \in Subs \X Keys, NEW e, Wrote(p, e)
  PROVE  /\ p[1] \in Subs /\ p[2] = minted[p[1]] /\ records[p[1]] = 0
         /\ \A s \in Subs, k \in Keys :
              ledger'[s][k] = IF s = p[1] /\ k = p[2] THEN e ELSE ledger[s][k]
         /\ \A s \in Subs : records'[s] = IF s = p[1] /\ e = "done" THEN 1 ELSE records[s]
<1>1. p[2] = minted[p[1]] /\ records[p[1]] = 0
  BY BusyIsLast DEF Wrote
<1>2. p[1] \in Subs /\ p[2] \in Keys /\ ledger \in [Subs -> [Keys -> Entries]] /\ records \in [Subs -> Nat]
  BY DEF IInv, TypeOK
<1>3. ledger' = [ledger EXCEPT ![p[1]][p[2]] = e]
      /\ records' = [records EXCEPT ![p[1]] = IF e = "done" THEN @ + 1 ELSE @]
  BY DEF Wrote
<1>4. \A s \in Subs, k \in Keys : ledger'[s][k] = IF s = p[1] /\ k = p[2] THEN e ELSE ledger[s][k]
  BY ONLY <1>2, <1>3
<1>5. \A s \in Subs : records'[s] = IF s = p[1] /\ e = "done" THEN 1 ELSE records[s]
  BY ONLY <1>1, <1>2, <1>3
<1> QED
  BY <1>1, <1>2, <1>4, <1>5

(* What a script has done, and what is stored, stays so.                   *)
LEMMA Lasts ==
  ASSUME IInv, [Next]_vars
  PROVE  /\ \A s \in Subs, k \in Keys : ledger[s][k] = "acted" => ledger'[s][k] = "acted"
         /\ \A s \in Subs : records[s] = 1 => records'[s] = 1
<1>1. ASSUME NEW p \in Subs \X Keys, NEW e \in Entries, Wrote(p, e)
      PROVE  /\ \A s \in Subs, k \in Keys : ledger[s][k] = "acted" => ledger'[s][k] = "acted"
             /\ \A s \in Subs : records[s] = 1 => records'[s] = 1
  <2>1. ledger[p[1]][p[2]] # "acted"
    BY <1>1 DEF Wrote
  <2>2. \A s \in Subs, k \in Keys : ledger'[s][k] = IF s = p[1] /\ k = p[2] THEN e ELSE ledger[s][k]
    BY <1>1, WroteAt
  <2>3. \A s \in Subs : records'[s] = IF s = p[1] /\ e = "done" THEN 1 ELSE records[s]
    BY <1>1, WroteAt
  <2> QED BY <2>1, <2>2, <2>3
<1> QED
  BY <1>1, ServerStep

LEMMA LedgerStep == IInv /\ [Next]_vars => LedgerInv' /\ RecordInv'
<1> SUFFICES ASSUME IInv, [Next]_vars PROVE LedgerInv' /\ RecordInv'
  OBVIOUS
<1>0. TypeOK /\ LedgerInv /\ RecordInv /\ scripted' = scripted
  BY SettingKept DEF IInv, setting
<1>1. ASSUME NEW p \in Subs \X Keys, NEW e \in Entries, Wrote(p, e) PROVE LedgerInv' /\ RecordInv'
  <2>1. /\ p[1] \in Subs /\ p[2] = minted[p[1]] /\ records[p[1]] = 0 /\ minted' = minted
        /\ \A s \in Subs, k \in Keys :
             ledger'[s][k] = IF s = p[1] /\ k = p[2] THEN e ELSE ledger[s][k]
        /\ \A s \in Subs : records'[s] = IF s = p[1] /\ e = "done" THEN 1 ELSE records[s]
    <3>1. minted' = minted
      BY <1>1 DEF Wrote
    <3> QED BY <1>1, <3>1, WroteAt
  <2>2. \A s \in Subs : minted[s] \in Nat /\ minted[s] \in Keys
    BY <1>0, KeysAreNumbers DEF TypeOK
  <2>3. LedgerInv'
    <3>1. e = "acted" => p[1] \in scripted
      BY <1>1 DEF Wrote
    <3>2. \A s \in Subs, k \in Keys : k < minted[s] \/ k > minted[s] => ledger'[s][k] = ledger[s][k]
      BY <2>1, <2>2
    <3> QED BY <1>0, <2>1, <3>1, <3>2 DEF LedgerInv
  <2>4. ASSUME NEW s \in Subs PROVE records'[s] = IF ledger'[s][minted[s]] = "done" THEN 1 ELSE 0
    <3>1. CASE s = p[1]
      <4>1. ledger'[s][minted[s]] = e /\ records'[s] = IF e = "done" THEN 1 ELSE 0
        BY <2>1, <2>2, <3>1
      <4> QED BY <4>1
    <3>2. CASE s # p[1]
      <4>1. ledger'[s][minted[s]] = ledger[s][minted[s]] /\ records'[s] = records[s]
        BY <2>1, <2>2, <3>2
      <4> QED BY <1>0, <4>1 DEF RecordInv
    <3> QED BY <3>1, <3>2
  <2> QED BY <2>1, <2>3, <2>4 DEF RecordInv
<1>2. ASSUME UNCHANGED <<ledger, records>>, minted' = minted PROVE LedgerInv' /\ RecordInv'
  BY <1>0, <1>2 DEF LedgerInv, RecordInv
<1>3. ASSUME NEW i \in Ids, NEW j \in Ids, NEW k \in Keys, Retried(i, j, k)
      PROVE  LedgerInv' /\ RecordInv'
  <2> DEFINE s == of[i].sub
  <2>1. UNCHANGED <<ledger, records>>
    BY <1>3 DEF Retried, Written
  <2>2. CASE minted' = minted
    BY <1>2, <2>1, <2>2
  <2>3. CASE memory[i].failure = "script-ran" /\ k = minted[s] + 1 /\ minted' = [minted EXCEPT ![s] = k]
    <3>1. s \in Subs /\ ledger[s][minted[s]] = "acted" /\ minted[s] \in Nat
      BY <1>0, <1>3, <2>3, LastKeyFailed, KeysAreNumbers DEF Retried, TypeOK
    <3> HIDE DEF s
    <3>2. \A u \in Subs : minted'[u] = IF u = s THEN minted[s] + 1 ELSE minted[u]
      BY <1>0, <2>3 DEF TypeOK
    <3>3. \A n \in Keys : n \in Nat
      BY KeysAreNumbers
    <3>4. ASSUME NEW u \in Subs, NEW n \in Keys
          PROVE  /\ n < minted'[u] => ledger[u][n] = "acted"
                 /\ n > minted'[u] => ledger[u][n] = "none"
      <4>1. CASE u = s
        <5>1. n < minted'[u] => n < minted[s] \/ n = minted[s]
          BY <3>1, <3>2, <3>3, <4>1
        <5>2. n > minted'[u] => n > minted[s]
          BY <3>1, <3>2, <3>3, <4>1
        <5> QED BY <1>0, <3>1, <4>1, <5>1, <5>2 DEF LedgerInv
      <4>2. CASE u # s
        BY <1>0, <3>2, <4>2 DEF LedgerInv
      <4> QED BY <4>1, <4>2
    <3>5. LedgerInv'
      BY <1>0, <2>1, <3>4 DEF LedgerInv
    <3>6. ledger[s][k] = "none"
      <4>1. k > minted[s]
        BY <2>3, <3>1 DEF s
      <4> QED BY <1>0, <3>1, <4>1 DEF LedgerInv
    <3>7. minted'[s] = k
      BY <2>3, <3>1, <3>2 DEF s
    <3>8. RecordInv'
      BY <1>0, <2>1, <3>1, <3>2, <3>6, <3>7 DEF RecordInv
    <3> QED BY <3>5, <3>8
  <2> QED BY <1>3, <2>2, <2>3 DEF Retried
<1>4. (\E p \in Subs \X Keys, e \in Entries : Wrote(p, e)) \/ UNCHANGED <<ledger, records>>
  BY ServerStep
<1>5. minted' = minted \/ \E i, j \in Ids, k \in Keys : Retried(i, j, k)
  BY QueueStep DEF Submitted, Kept
<1> QED
  BY <1>1, <1>2, <1>3, <1>4, <1>5

LEMMA WorkStep == IInv /\ [Next]_vars => WorkInv'
<1> SUFFICES ASSUME IInv, [Next]_vars, NEW x \in call'.taken PROVE ledger'[x[1]][x[2]] = "busy"
  BY DEF WorkInv
<1>1. x \in Subs \X Keys
  BY TypeStep DEF IInv, TypeOK, Call
<1>2. ASSUME NEW p \in Subs \X Keys, NEW e \in Entries, Wrote(p, e) PROVE ledger'[x[1]][x[2]] = "busy"
  <2>1. CASE x = p
    <3>1. e = "busy"
      BY <1>2, <2>1 DEF Wrote
    <3>2. ledger'[p[1]][p[2]] = e
      BY <1>2, WroteAt
    <3> QED BY <2>1, <3>1, <3>2
  <2>2. CASE x # p
    <3>1. ledger[x[1]][x[2]] = "busy"
      BY <1>2, <2>2 DEF Wrote, IInv, WorkInv
    <3>2. x[1] \in Subs /\ x[2] \in Keys /\ ~(x[1] = p[1] /\ x[2] = p[2])
      BY <1>1, <2>2
    <3>3. ledger'[x[1]][x[2]] = ledger[x[1]][x[2]]
      BY <1>2, <3>2, WroteAt
    <3> QED BY <3>1, <3>3
  <2> QED BY <2>1, <2>2
<1>3. CASE UNCHANGED <<ledger, records>> /\ call'.taken \subseteq call.taken
  BY <1>3 DEF IInv, WorkInv
<1> QED
  BY <1>2, <1>3, ServerStep

(* What the server works on, or has still to begin, came in a batch.       *)
LEMMA PairStep ==
  ASSUME TypeOK, [Next]_vars, NEW x \in left' \cup call'.taken
  PROVE  x \in left \cup call.taken \/ \E i \in call.ids : x = PairOf(i)
<1> DEFINE Goal == x \in left \cup call.taken \/ \E i \in call.ids : x = PairOf(i)
<1> SUFFICES Goal
  OBVIOUS
<1>0. Idle.taken = {} /\ (\A b : Post(b).taken = {}) /\ (\A y \in Untaken : \E i \in call.ids : y = PairOf(i))
  BY DEF Idle, Post, Untaken
<1> HIDE DEF Goal
<1>1. ASSUME NEW s \in Subs, Submit(s) PROVE Goal
  BY <1>1 DEF Submit, server, Goal
<1>2. ASSUME NEW i \in Ids, Retry(i) PROVE Goal
  BY <1>2 DEF Retry, server, Goal
<1>3. ASSUME NEW i \in Ids, Discard(i) PROVE Goal
  BY <1>3 DEF Discard, server, Goal
<1>4. ASSUME NEW i \in Ids, Age(i) PROVE Goal
  BY <1>4 DEF Age, server, Goal
<1>5. ASSUME NEW i \in Ids, TakeUp(i) PROVE Goal
  <2>1. call'.taken \subseteq call.taken \cup {PairOf(i)} /\ i \in call.ids /\ left' = left
    <3>1. i \in call.ids /\ left' = left
      BY <1>5 DEF TakeUp, Open
    <3>2. ASSUME NEW r, call' = Answered(PairOf(i), r) PROVE call'.taken \subseteq call.taken
      BY <3>2 DEF Answered, TypeOK, Call
    <3>3. CASE call' = [call EXCEPT !.taken = @ \cup {PairOf(i)}]
      BY <3>1, <3>3 DEF TypeOK, Call
    <3> QED BY <1>5, <3>1, <3>2, <3>3 DEF TakeUp
  <2> QED BY <2>1 DEF Goal
<1>6. ASSUME NEW i \in Ids, HandBack(i) PROVE Goal
  <2>1. call'.taken \subseteq call.taken /\ left' = left
    BY <1>6 DEF HandBack, Answered, TypeOK, Call, server
  <2> QED BY <2>1 DEF Goal
<1>7. CASE RemoveReplaced
  BY <1>7 DEF RemoveReplaced, server, Goal
<1>8. CASE Sweep
  BY <1>8 DEF Sweep, server, Goal
<1>9. CASE SessionExpires
  BY <1>9 DEF SessionExpires, server, Goal
<1>10. CASE SignOut
  BY <1>10 DEF SignOut, server, Goal
<1>11. CASE Purge
  BY <1>11 DEF Purge, server, Goal
<1>12. CASE Crash
  BY <1>0, <1>12 DEF Crash, server, Goal
<1>13. ASSUME NEW a \in Accounts, SignIn(a) PROVE Goal
  BY <1>13 DEF SignIn, server, Goal
<1>14. ASSUME NEW a \in Accounts, LookUp(a) PROVE Goal
  BY <1>14 DEF LookUp, server, Goal
<1>15. CASE StartPass
  BY <1>15 DEF StartPass, server, Goal
<1>16. CASE SendBatch
  BY <1>0, <1>16 DEF SendBatch, server, Goal
<1>17. CASE PassEnds
  BY <1>17 DEF PassEnds, server, Goal
<1>18. CASE Unreached
  BY <1>0, <1>18 DEF Unreached, server, Goal
<1>19. CASE TooLarge
  BY <1>0, <1>19 DEF TooLarge, server, Goal
<1>20. CASE Rejected
  <2>1. call'.taken = {}
    BY <1>0, <1>20, CallTypes DEF Rejected, TypeOK, Call
  <2> QED BY <1>0, <1>20, <2>1 DEF Rejected, Goal
<1>21. CASE BatchEnds
  BY <1>0, <1>21 DEF BatchEnds, server, Goal
<1>22. CASE Reach
  <2>1. call'.taken = call.taken /\ left' = left
    BY <1>22 DEF Reach, TypeOK, Call, server
  <2> QED BY <2>1 DEF Goal
<1>23. ASSUME NEW r \in Results, NEW ok \in Outcomes, Settle(r, ok) PROVE Goal
  <2>1. call'.taken = call.taken /\ left' = left
    BY <1>23 DEF Settle, TypeOK, Call, server
  <2> QED BY <2>1 DEF Goal
<1>24. ASSUME NEW p \in Subs \X Keys, Judge(p) PROVE Goal
  <2>1. call'.taken \subseteq call.taken /\ left' = left
    BY <1>24 DEF Judge, Answered, TypeOK, Call, server
  <2> QED BY <2>1 DEF Goal
<1>25. ASSUME NEW p \in Subs \X Keys, Defer(p) PROVE Goal
  <2>1. call'.taken \subseteq call.taken /\ left' = left
    BY <1>25 DEF Defer, Answered, TypeOK, Call, server
  <2> QED BY <2>1 DEF Goal
<1>26. ASSUME NEW p \in Subs \X Keys, TakeUpAlone(p) PROVE Goal
  BY <1>26 DEF TakeUpAlone, Goal
<1>27. ASSUME NEW p \in Subs \X Keys, JudgeAlone(p) PROVE Goal
  BY <1>27 DEF JudgeAlone, Goal
<1>28. CASE UNCHANGED vars
  BY <1>28 DEF vars, server, Goal
<1> QED
  BY <1>1, <1>2, <1>3, <1>4, <1>5, <1>6, <1>7, <1>8, <1>9, <1>10,
     <1>11, <1>12, <1>13, <1>14, <1>15, <1>16, <1>17, <1>18, <1>19, <1>20,
     <1>21, <1>22, <1>23, <1>24, <1>25, <1>26, <1>27, <1>28
  DEF Next

LEMMA KeyStep == IInv /\ [Next]_vars => KeyInv'
<1> SUFFICES ASSUME IInv, [Next]_vars PROVE KeyInv'
  OBVIOUS
<1>0. TypeOK /\ TypeOK' /\ UsedInv /\ KeyInv
  BY TypeStep DEF IInv
<1>1. \A u \in Subs : minted[u] <= minted'[u] /\ minted[u] \in Nat /\ minted'[u] \in Nat
  <2>1. \A u \in Subs : minted[u] \in Nat /\ minted'[u] \in Nat
    BY <1>0, KeysAreNumbers DEF TypeOK
  <2>2. CASE minted' = minted
    BY <2>1, <2>2
  <2>3. ASSUME NEW i \in Ids, NEW j \in Ids, NEW k \in Keys, Retried(i, j, k),
               k = minted[of[i].sub] + 1, minted' = [minted EXCEPT ![of[i].sub] = k]
        PROVE  \A u \in Subs : minted[u] <= minted'[u]
    BY <1>0, <2>1, <2>3 DEF TypeOK
  <2> QED BY <2>1, <2>2, <2>3, QueueStep DEF Submitted, Retried, Kept
<1>2. ASSUME NEW x \in Ids, of[x] # Unused PROVE of[x].key <= minted'[of[x].sub]
  <2>1. of[x].key \in Nat /\ of[x].sub \in Subs /\ of[x].key <= minted[of[x].sub]
    BY <1>0, <1>2, UsedType, KeysAreNumbers DEF KeyInv
  <2> QED BY <1>1, <2>1
<1>3. ASSUME NEW x \in Ids, of'[x] # Unused PROVE of'[x].key <= minted'[of'[x].sub]
  <2>1. ASSUME NEW s \in Subs, NEW j \in Ids, Submitted(s, j) PROVE of'[x].key <= minted'[of'[x].sub]
    <3>1. of'[x] = IF x = j THEN About(s, 0, who) ELSE of[x]
      BY <1>0, <2>1 DEF Submitted, Written, TypeOK
    <3>2. About(s, 0, who).key = 0 /\ About(s, 0, who).sub = s
      BY DEF About
    <3> QED BY <1>1, <1>2, <1>3, <3>1, <3>2
  <2>2. ASSUME NEW i \in Ids, NEW j \in Ids, NEW k \in Keys, Retried(i, j, k)
        PROVE  of'[x].key <= minted'[of'[x].sub]
    <3>1. of'[x] = IF x = j THEN About(of[i].sub, k, who) ELSE of[x]
      BY <1>0, <2>2 DEF Retried, Written, TypeOK
    <3>2. About(of[i].sub, k, who).key = k /\ About(of[i].sub, k, who).sub = of[i].sub
      BY DEF About
    <3>3. k <= minted'[of[i].sub]
      <4>1. of[i].sub \in Subs /\ of[i].key <= minted'[of[i].sub]
        BY <1>0, <1>2, <2>2, UsedType DEF Retried
      <4>2. k = of[i].key \/ k = minted'[of[i].sub]
        BY <1>0, <2>2, <4>1 DEF Retried, TypeOK
      <4> QED BY <1>1, <4>1, <4>2
    <3> QED BY <1>2, <1>3, <3>1, <3>2, <3>3
  <2>3. CASE Kept
    BY <1>2, <1>3, <2>3 DEF Kept
  <2> QED BY <2>1, <2>2, <2>3, QueueStep
<1>4. ASSUME NEW x \in left' \cup call'.taken PROVE x[2] <= minted'[x[1]]
  <2>1. x \in Subs \X Keys /\ x[1] \in Subs /\ x[2] \in Nat
    BY <1>0, KeysAreNumbers DEF TypeOK, Call
  <2>2. CASE x \in left \cup call.taken
    BY <1>0, <1>1, <2>1, <2>2 DEF KeyInv
  <2>3. ASSUME NEW i \in call.ids, x = PairOf(i) PROVE x[2] <= minted'[x[1]]
    <3>1. i \in Ids /\ of[i] # Unused
      BY <1>0 DEF UsedInv, TypeOK, Call
    <3> QED BY <1>2, <2>3, <3>1 DEF PairOf
  <2> QED BY <1>0, <2>2, <2>3, PairStep
<1> QED
  BY <1>3, <1>4 DEF KeyInv

(* What an id was given to stays so.                                       *)
LEMMA Stays ==
  ASSUME IInv, [Next]_vars, NEW x \in Ids, of[x] # Unused
  PROVE  of'[x] = of[x]
<1>1. of \in [Ids -> {Unused} \cup [sub : Subs, key : Keys, owner : Owners]]
  BY DEF IInv, TypeOK
<1> QED
  BY <1>1, QueueStep DEF Submitted, Retried, Written, Kept

LEMMA FailStep == IInv /\ [Next]_vars => FailInv'
<1> SUFFICES ASSUME IInv, [Next]_vars, NEW x \in Ids, memory'[x].failure = "script-ran"
             PROVE  of'[x] # Unused /\ ledger'[of'[x].sub][of'[x].key] = "acted"
  BY DEF FailInv
<1>0. TypeOK /\ UsedInv /\ FailInv /\ AnswerInv
  BY DEF IInv
<1>1. of[x] # Unused /\ ledger[of[x].sub][of[x].key] = "acted"
  <2>1. CASE memory[x].failure = "script-ran"
    BY <1>0, <2>1 DEF FailInv
  <2>2. CASE memory[x].failure # "script-ran"
    <3>1. memory'[x] # memory[x] /\ memory'[x] # NoItem /\ memory'[x] # FreshItem
      BY <2>2, ItemTypes
    <3>2. Kept
      BY <1>0, <3>1, QueueStep DEF Submitted, Retried, Written, TypeOK
    <3>3. x \in call.ids /\ call.got[x] = "scriptRan"
      BY <2>2, <3>1, <3>2 DEF Kept, Changed
    <3> QED BY <1>0, <3>3 DEF AnswerInv, UsedInv
  <2> QED BY <2>1, <2>2
<1>2. of'[x] = of[x]
  BY <1>1, Stays
<1>3. of[x].sub \in Subs /\ of[x].key \in Keys
  BY <1>0, <1>1, UsedType
<1> QED
  BY <1>1, <1>2, <1>3, Lasts

(* The page is answered what the ledger says.                              *)
LEMMA AnsweredTruly ==
  ASSUME IInv, NEW p, NEW r \in Results, call' = Answered(p, r),
         r = "stored" => records'[p[1]] = 1,
         r = "scriptRan" => ledger'[p[1]][p[2]] = "acted",
         NEW x \in call'.ids
  PROVE  /\ x \in call.ids
         /\ call'.got[x] = "stored" => call.got[x] = "stored" \/ records'[of[x].sub] = 1
         /\ call'.got[x] = "scriptRan" =>
              call.got[x] = "scriptRan" \/ ledger'[of[x].sub][of[x].key] = "acted"
<1>1. x \in call.ids /\ x \in Ids
  BY AnsweredType DEF IInv, TypeOK, Call
<1>2. call'.got[x] = IF PairOf(x) = p THEN r ELSE call.got[x]
  BY <1>1, AnsweredType DEF IInv
<1>3. PairOf(x)[1] = of[x].sub /\ PairOf(x)[2] = of[x].key
  BY DEF PairOf
<1> QED
  BY <1>1, <1>2, <1>3

LEMMA TrulyStep ==
  ASSUME IInv, [Next]_vars, NEW x \in call'.ids
  PROVE  /\ call'.got[x] = "stored" =>
              (x \in call.ids /\ call.got[x] = "stored") \/ records'[of[x].sub] = 1
         /\ call'.got[x] = "scriptRan" =>
              (x \in call.ids /\ call.got[x] = "scriptRan") \/ ledger'[of[x].sub][of[x].key] = "acted"
<1> DEFINE Goal == /\ call'.got[x] = "stored" =>
                        (x \in call.ids /\ call.got[x] = "stored") \/ records'[of[x].sub] = 1
                   /\ call'.got[x] = "scriptRan" =>
                        (x \in call.ids /\ call.got[x] = "scriptRan")
                          \/ ledger'[of[x].sub][of[x].key] = "acted"
<1> SUFFICES Goal
  OBVIOUS
<1>0. TypeOK /\ TypeOK' /\ UsedInv /\ x \in Ids
  BY TypeStep DEF IInv, TypeOK, Call
<1>s. call' = call => Goal
  OBVIOUS
<1>i. call' = Idle => FALSE
  BY CallTypes
<1> HIDE DEF Goal
<1>1. ASSUME NEW s \in Subs, Submit(s) PROVE Goal
  BY <1>s, <1>1 DEF Submit
<1>2. ASSUME NEW i \in Ids, Retry(i) PROVE Goal
  BY <1>s, <1>2 DEF Retry
<1>3. ASSUME NEW i \in Ids, Discard(i) PROVE Goal
  BY <1>s, <1>3 DEF Discard
<1>4. ASSUME NEW i \in Ids, Age(i) PROVE Goal
  BY <1>s, <1>4 DEF Age
<1>5. ASSUME NEW i \in Ids, TakeUp(i) PROVE Goal
  <2> DEFINE p == PairOf(i)
  <2>1. p \in Subs \X Keys /\ p[1] \in Subs /\ p[2] \in Keys /\ p[2] <= minted[p[1]]
    BY <1>0, <1>5, UsedType DEF TakeUp, Open, UsedInv, IInv, KeyInv
  <2>2. CASE call' = [call EXCEPT !.taken = @ \cup {p}]
    BY <1>0, <2>2 DEF TypeOK, Call, Goal
  <2>3. CASE ledger[p[1]][p[2]] # "none" /\ UNCHANGED <<ledger, records>>
             /\ \E r \in Results : /\ call' = Answered(p, r)
                                   /\ r = "stored" => ledger[p[1]][p[2]] = "done"
                                   /\ r = "scriptRan" => ledger[p[1]][p[2]] = "acted"
    <3>1. ledger[p[1]][p[2]] = "done" => records[p[1]] = 1
      <4>1. p[2] \in Nat /\ minted[p[1]] \in Nat
        BY <1>0, <2>1, KeysAreNumbers DEF TypeOK
      <4>2. ledger[p[1]][p[2]] = "done" => ~(p[2] < minted[p[1]])
        BY <2>1 DEF IInv, LedgerInv
      <4>3. ledger[p[1]][p[2]] = "done" => p[2] = minted[p[1]]
        BY <2>1, <4>1, <4>2
      <4> QED BY <2>1, <4>3 DEF IInv, RecordInv
    <3> HIDE DEF p
    <3> QED BY <2>3, <3>1, AnsweredTruly DEF Goal
  <2>4. ledger[p[1]][p[2]] \in Entries
    BY <1>0, <2>1 DEF TypeOK
  <2>5. ledger[p[1]][p[2]] = "none" => call' = [call EXCEPT !.taken = @ \cup {p}]
    BY <1>5 DEF TakeUp
  <2>6. ledger[p[1]][p[2]] # "none" =>
          /\ UNCHANGED <<ledger, records>>
          /\ \E r \in Results : /\ call' = Answered(p, r)
                                /\ r = "stored" => ledger[p[1]][p[2]] = "done"
                                /\ r = "scriptRan" => ledger[p[1]][p[2]] = "acted"
    BY <1>5, <2>4 DEF TakeUp, Entries, Results
  <2> QED BY <2>2, <2>3, <2>5, <2>6
<1>6. ASSUME NEW i \in Ids, HandBack(i) PROVE Goal
  BY <1>6, AnsweredTruly DEF HandBack, Results, Goal
<1>7. CASE RemoveReplaced
  BY <1>s, <1>7 DEF RemoveReplaced
<1>8. CASE Sweep
  BY <1>s, <1>8 DEF Sweep
<1>9. CASE SessionExpires
  BY <1>s, <1>9 DEF SessionExpires
<1>10. CASE SignOut
  BY <1>s, <1>10 DEF SignOut
<1>11. CASE Purge
  BY <1>s, <1>11 DEF Purge
<1>12. CASE Crash
  BY <1>i, <1>12 DEF Crash
<1>13. ASSUME NEW a \in Accounts, SignIn(a) PROVE Goal
  BY <1>s, <1>13 DEF SignIn
<1>14. ASSUME NEW a \in Accounts, LookUp(a) PROVE Goal
  BY <1>s, <1>14 DEF LookUp
<1>15. CASE StartPass
  BY <1>s, <1>15 DEF StartPass
<1>16. CASE SendBatch
  <2>1. PICK b \in SUBSET Ids : call' = Post(b)
    BY <1>0, <1>16 DEF SendBatch, TypeOK, Pass
  <2> QED BY <1>0, <2>1, CallTypes DEF Goal
<1>17. CASE PassEnds
  BY <1>s, <1>17 DEF PassEnds
<1>18. CASE Unreached
  BY <1>i, <1>18 DEF Unreached
<1>19. CASE TooLarge
  BY <1>i, <1>19 DEF TooLarge
<1>20. CASE Rejected
  <2>1. call'.got[x] \in {"refused", "-"}
    BY <1>0, <1>20 DEF Rejected, TypeOK, Call
  <2> QED BY <2>1 DEF Goal
<1>21. CASE BatchEnds
  BY <1>i, <1>21 DEF BatchEnds
<1>22. CASE Reach
  <2>1. call'.ids = call.ids /\ call'.got = call.got
    BY <1>0, <1>22 DEF Reach, TypeOK, Call
  <2> QED BY <2>1 DEF Goal
<1>23. ASSUME NEW r \in Results, NEW ok \in Outcomes, Settle(r, ok) PROVE Goal
  <2>1. call'.ids \subseteq call.ids /\ call'.got = call.got
    BY <1>0, <1>23 DEF Settle, TypeOK, Call
  <2> QED BY <2>1 DEF Goal
<1>24. ASSUME NEW p \in Subs \X Keys, Judge(p) PROVE Goal
  <2>1. PICK r \in Judgements(p[1]) : Ends(p, r) /\ call' = Answered(p, r)
    BY <1>24 DEF Judge
  <2>2. r \in Results
    BY DEF Judgements, Results
  <2>3. ledger[p[1]][p[2]] = "busy" /\ p[2] <= minted[p[1]]
    BY <1>24 DEF Judge, IInv, WorkInv, KeyInv
  <2>4. p[1] \in Subs /\ p[2] \in Keys /\ records[p[1]] = 0
    BY <2>3, BusyIsLast
  <2>5. r = "stored" => records'[p[1]] = 1
    BY <1>0, <2>1, <2>4 DEF Ends, TypeOK
  <2>6. r = "scriptRan" => ledger'[p[1]][p[2]] = "acted"
    BY <1>0, <2>1, <2>4 DEF Ends, TypeOK
  <2> QED BY <2>1, <2>2, <2>5, <2>6, AnsweredTruly DEF Goal
<1>25. ASSUME NEW p \in Subs \X Keys, Defer(p) PROVE Goal
  BY <1>25, AnsweredTruly DEF Defer, Results, Goal
<1>26. ASSUME NEW p \in Subs \X Keys, TakeUpAlone(p) PROVE Goal
  BY <1>s, <1>26 DEF TakeUpAlone
<1>27. ASSUME NEW p \in Subs \X Keys, JudgeAlone(p) PROVE Goal
  BY <1>s, <1>27 DEF JudgeAlone
<1>28. CASE UNCHANGED vars
  BY <1>s, <1>28 DEF vars
<1> QED
  BY <1>1, <1>2, <1>3, <1>4, <1>5, <1>6, <1>7, <1>8, <1>9, <1>10,
     <1>11, <1>12, <1>13, <1>14, <1>15, <1>16, <1>17, <1>18, <1>19, <1>20,
     <1>21, <1>22, <1>23, <1>24, <1>25, <1>26, <1>27, <1>28
  DEF Next

LEMMA AnswerStep == IInv /\ [Next]_vars => AnswerInv'
<1> SUFFICES ASSUME IInv, [Next]_vars, NEW x \in call'.ids
             PROVE  /\ call'.got[x] = "stored" => records'[of'[x].sub] = 1
                    /\ call'.got[x] = "scriptRan" => ledger'[of'[x].sub][of'[x].key] = "acted"
  BY DEF AnswerInv
<1>0. TypeOK /\ UsedInv /\ AnswerInv /\ TypeOK' /\ UsedInv'
  BY TypeStep, UsedStep DEF IInv
<1>1. x \in Ids
  BY <1>0 DEF TypeOK, Call
<1>2. of[x] # Unused /\ of'[x] = of[x]
  <2>1. of'[x] # Unused
    BY <1>0, <1>1 DEF UsedInv
  <2>2. of' = of \/ call' = call
    BY QueueStep DEF Submitted, Retried, Written, Kept
  <2>3. of[x] # Unused
    BY <1>0, <1>1, <2>1, <2>2 DEF UsedInv
  <2> QED BY <1>1, <2>3, Stays
<1>3. of[x].sub \in Subs /\ of[x].key \in Keys
  BY <1>0, <1>1, <1>2, UsedType
<1>4. /\ call'.got[x] = "stored" => records'[of[x].sub] = 1
      /\ call'.got[x] = "scriptRan" => ledger'[of[x].sub][of[x].key] = "acted"
  BY <1>0, <1>3, TrulyStep, Lasts DEF AnswerInv
<1> QED
  BY <1>2, <1>4

(* The invariant holds at first, is kept, and so always holds.             *)
LEMMA IInvInit == Init /\ Calm => IInv
<1> SUFFICES ASSUME Init, Calm PROVE IInv
  OBVIOUS
<1>1. TypeOK /\ UsedInv
  BY PassingInit
<1>2. call.ids = {} /\ call.taken = {} /\ left = {}
  BY CallTypes DEF Init
<1>3. DiskInv /\ BlankInv /\ GoneInv /\ WorkInv /\ AnswerInv /\ FailInv /\ SoundInv
  BY <1>2, ItemTypes DEF Init, DiskInv, BlankInv, GoneInv, WorkInv, AnswerInv, FailInv, SoundInv, Held
<1>4. KeyInv
  BY <1>2 DEF Init, KeyInv
<1>5. \A s \in Subs : ledger[s] = [k \in Keys |-> "none"]
                       \/ ledger[s] = [k \in Keys |-> IF k = 0 THEN "other" ELSE "none"]
  BY DEF Init
<1>6. LedgerInv /\ RecordInv
  BY <1>5, KeysAreNumbers DEF Init, LedgerInv, RecordInv, Keys
<1> QED
  BY <1>1, <1>3, <1>4, <1>6 DEF IInv

LEMMA IInvStep == IInv /\ [Next]_vars => IInv'
  BY TypeStep, UsedStep, CalmStep, DiskStep, BlankStep, GoneStep, KeyStep, LedgerStep, WorkStep,
     AnswerStep, FailStep, SoundStep DEF IInv

LEMMA IInvHolds == CalmSpec => []IInv
  BY IInvInit, IInvStep, PTL DEF CalmSpec, CalmInit

-----------------------------------------------------------------------------
(* The queue implements Outbox                                             *)

held == {of[i].sub : i \in Held(memory)}

LEMMA InHeld == \A s : s \in held <=> \E i \in Ids : memory[i].status # "none" /\ of[i].sub = s
  BY DEF held, Held

LEMMA InHeldNext ==
  \A s : s \in held' <=> \E i \in Ids : memory'[i].status # "none" /\ of'[i].sub = s
  BY DEF held, Held

LEMMA TakeStep ==
  ASSUME IInv, NEW s \in Subs, NEW j \in Ids, Submitted(s, j)
  PROVE  [Runtime!Next]_(Runtime!vars)
<1>0. TypeOK /\ UsedInv /\ BlankInv
  BY DEF IInv
<1>1. \A i \in Ids : of'[i] = IF i = j THEN About(s, 0, who) ELSE of[i]
  BY <1>0 DEF Submitted, Written, TypeOK
<1>2. \A i \in Ids : memory'[i] = IF i = j THEN FreshItem ELSE memory[i]
  BY <1>0 DEF Submitted, Written, TypeOK
<1>3. About(s, 0, who).sub = s /\ j \notin Held(memory)
  BY <1>0 DEF About, UsedInv, Submitted, Written
<1>4. held' = held \cup {s}
  BY <1>1, <1>2, <1>3, ItemTypes, InHeld, InHeldNext DEF Held
<1>5. s \notin held /\ s \notin gone
  BY <1>0, HeldAre DEF held, UsedInv, BlankInv, Submitted
<1>6. Runtime!Take(s)
  BY <1>4, <1>5 DEF Runtime!Take, held, Submitted, Written
<1> QED
  BY <1>6 DEF Runtime!Next

LEMMA SameStep ==
  ASSUME UNCHANGED <<held, records, gone>>
  PROVE  [Runtime!Next]_(Runtime!vars)
  BY DEF Runtime!vars, held

LEMMA RetryStep ==
  ASSUME IInv, NEW i \in Ids, NEW j \in Ids, NEW k \in Keys, Retried(i, j, k)
  PROVE  [Runtime!Next]_(Runtime!vars)
<1>0. TypeOK /\ UsedInv
  BY DEF IInv
<1>1. \A x \in Ids : of'[x] = IF x = j THEN About(of[i].sub, k, who) ELSE of[x]
  BY <1>0 DEF Retried, Written, TypeOK
<1>2. \A x \in Ids : memory'[x] = IF x = j THEN FreshItem ELSE memory[x]
  BY <1>0 DEF Retried, Written, TypeOK
<1>3. /\ About(of[i].sub, k, who).sub = of[i].sub
      /\ i \in Held(memory) /\ j \notin Held(memory) /\ UNCHANGED <<records, gone>>
  BY <1>0 DEF About, UsedInv, Retried, Written
<1>4. ASSUME NEW s \in held PROVE s \in held'
  <2>1. PICK x \in Ids : memory[x].status # "none" /\ of[x].sub = s
    BY InHeld
  <2>2. x # j
    BY <1>3, <2>1 DEF Held
  <2> QED BY <1>1, <1>2, <2>1, <2>2, InHeldNext
<1>5. ASSUME NEW s \in held' PROVE s \in held
  <2>1. PICK x \in Ids : memory'[x].status # "none" /\ of'[x].sub = s
    BY InHeldNext
  <2>2. CASE x = j
    BY <1>1, <1>3, <2>1, <2>2 DEF held
  <2>3. CASE x # j
    BY <1>1, <1>2, <2>1, <2>3, InHeld
  <2> QED BY <2>2, <2>3
<1>6. held' = held
  BY <1>4, <1>5
<1> QED
  BY <1>3, <1>6, SameStep

(* A record is stored when none was.                                       *)
LEMMA StoreStep ==
  ASSUME IInv, NEW p \in Subs \X Keys, NEW e \in Entries, Wrote(p, e)
  PROVE  [Runtime!Next]_(Runtime!vars)
<1>1. held' = held /\ gone' = gone
  BY DEF Wrote, held, Held
<1>2. p[1] \in Subs /\ records[p[1]] = 0
  BY WroteAt
<1>3. records \in [Subs -> Nat]
      /\ records' = [records EXCEPT ![p[1]] = IF e = "done" THEN @ + 1 ELSE @]
  BY DEF IInv, TypeOK, Wrote
<1>4. CASE e = "done"
  <2>1. records' = [records EXCEPT ![p[1]] = 1]
    BY <1>2, <1>3, <1>4
  <2>2. Runtime!Store(p[1])
    BY <1>1, <1>2, <2>1 DEF Runtime!Store, held
  <2> QED BY <1>2, <2>2 DEF Runtime!Next
<1>5. CASE e # "done"
  <2>1. records' = records
    BY <1>3, <1>5
  <2> QED BY <1>1, <2>1, SameStep
<1> QED
  BY <1>4, <1>5

LEMMA ReleaseStep ==
  ASSUME NEW D \in SUBSET held, held' = held \ D, \A s \in D : records[s] = 1,
         UNCHANGED <<records, gone>>
  PROVE  [Runtime!Next]_(Runtime!vars)
  BY DEF Runtime!Next, Runtime!Release, held

LEMMA DropStep ==
  ASSUME NEW D \in SUBSET held, held' = held \ D, gone' = gone \cup D, UNCHANGED records
  PROVE  [Runtime!Next]_(Runtime!vars)
  BY DEF Runtime!Next, Runtime!Drop, held

(* What a step removes is stored, or let go.                               *)
LEMMA RemoveStep ==
  ASSUME IInv, Kept, UNCHANGED records
  PROVE  [Runtime!Next]_(Runtime!vars)
<1> DEFINE S == held \ held'
<1>1. held' \subseteq held
  <2>1. \A i \in Ids : memory'[i].status # "none" => memory[i].status # "none"
    BY ItemTypes DEF Kept, Changed, Held
  <2> QED BY <2>1, InHeld, InHeldNext DEF Kept
<1>2. S \in SUBSET held /\ held' = held \ S
  BY <1>1
<1>3. ASSUME NEW s \in S PROVE s \in gone' \/ (records[s] = 1 /\ gone' = gone)
  <2>1. PICK i \in Ids : memory[i].status # "none" /\ of[i].sub = s
    BY InHeld
  <2>2. \A j \in Ids : of[j].sub = s => memory'[j].status = "none"
    BY InHeldNext DEF Kept
  <2>3. AccountedFor(s)
    BY <2>1, <2>2 DEF Kept, Held
  <2> QED BY <2>2, <2>3 DEF AccountedFor, Held
<1>4. \A s \in S : s \notin gone
  BY DEF IInv, GoneInv, held
<1>5. gone \subseteq gone' /\ \A s \in gone' \ gone : s \in S
  <2>1. ASSUME NEW s \in gone' \ gone PROVE s \in S
    <3>1. s \in held /\ \A i \in Held(memory) : of[i].sub = s => memory'[i].status = "none"
      BY ItemTypes DEF Kept, held
    <3>2. \A i \in Ids : memory'[i].status # "none" => i \in Held(memory)
      BY ItemTypes DEF Kept, Changed, Held
    <3>3. s \notin held'
      BY <3>1, <3>2, InHeldNext DEF Kept
    <3> QED BY <3>1, <3>3
  <2> QED BY <2>1 DEF Kept
<1> HIDE DEF S
<1>6. CASE gone' = gone
  <2>1. \A s \in S : records[s] = 1
    BY <1>3, <1>4, <1>6
  <2> QED BY <1>2, <1>6, <2>1, ReleaseStep
<1>7. CASE gone' # gone
  <2>1. gone' = gone \cup S
    BY <1>3, <1>5, <1>7
  <2> QED BY <1>2, <2>1, DropStep
<1> QED
  BY <1>6, <1>7

(* Every step is a step of Outbox, or leaves what it sees as it was.       *)
LEMMA OutboxStep == IInv /\ [Next]_vars => [Runtime!Next]_(Runtime!vars)
<1> SUFFICES ASSUME IInv, [Next]_vars PROVE [Runtime!Next]_(Runtime!vars)
  OBVIOUS
<1>1. CASE Kept
  BY <1>1, ServerStep, StoreStep, RemoveStep
<1> QED
  BY <1>1, QueueStep, TakeStep, RetryStep

(* What the runtime keeps stays until the server has stored it, the person *)
(* discards it, its account is signed out or the retention period is over; *)
(* what was let go does not come back; and the server stores it once       *)
(* (sync_queue.rs, nativeOfflineQueue.ts), whatever dies or is not written *)
(* where no script acts, and whatever scripts do where nothing dies.       *)
THEOREM KeepsThePromiseHolds == CalmSpec => KeepsThePromise
<1>1. Init => Runtime!Init
  BY HeldAre DEF Init, Runtime!Init, Held, NoItem
<1>2. IInv /\ [Next]_vars => [Runtime!Next]_(Runtime!vars)
  BY OutboxStep
<1> QED
  BY <1>1, <1>2, IInvHolds, PTL DEF CalmSpec, CalmInit, KeepsThePromise, Runtime!Spec
=============================================================================
