---------------------------- MODULE NativeQueue ----------------------------
(***************************************************************************)
(* The queue of submissions that the native runtime keeps for a page: the  *)
(* runtime's list in memory and its file, the page's pass that sends the   *)
(* waiting ones in batches and settles each answer with a call of its own, *)
(* the person who retries or discards one that failed, signing in and out, *)
(* and the server, which works through a batch and may go on with it when  *)
(* nobody waits for the answer any more.  The process may die between any  *)
(* two steps, and the file may not take a write.                           *)
(*                                                                         *)
(* What a submission asks of the queue is what it asks of the browser's:   *)
(* see Outbox.  A definition that no action uses, just above one of the    *)
(* same shape, is a faulty variant of it.                                  *)
(***************************************************************************)
EXTENDS Naturals, FiniteSets

CONSTANTS
  Subs,         \* submissions
  Ids,          \* ids the runtime can give to items, each once
  Accounts,     \* accounts that use the device
  Nobody,       \* who is signed in when nobody is
  MaxAttempts,  \* MAX_SYNC_ATTEMPTS
  MaxItems,     \* MAX_ITEMS_PER_PARTITION
  LastKey,      \* a submission is given the keys 0 .. LastKey at most
  Hazards       \* what may go wrong in a run, a subset of AllHazards

AllHazards ==
  {"crash",  \* the process dies
   "disk",   \* the file does not take a write
   "aged"}   \* a failed item outlives FAILED_RETENTION_SECS

Keys == 0 .. LastKey
Owners == Accounts \cup {Nobody}

ASSUME NativeAssumption ==
  /\ MaxAttempts \in Nat \ {0} /\ MaxItems \in Nat /\ LastKey \in Nat
  /\ Hazards \subseteq AllHazards
  /\ Nobody \notin Accounts /\ "-" \notin Subs
  /\ IsFiniteSet(Ids)

VARIABLES
  scripted, \* submissions to a form whose script may act
  sound,    \* whether the process and the file hold in this behaviour
  form,     \* form[s]: "blank"; "kept" by the runtime; "passed" to the browser's queue
  minted,   \* minted[s]: the last key made for it
  who,      \* the account the page is signed in as
  of,       \* of[i]: what the item with that id was made of
  memory,   \* memory[i]: the item in the runtime's list
  disk,     \* disk[i]: the same item in its file
  pass,     \* the pass under way, or NoPass
  call,     \* the pass's batch, out or being settled
  replaced, \* the failed item a retry has queued afresh and not yet removed
  leaving,  \* accounts signed out whose items are still to be looked up
  purging,  \* and the items of theirs still to be removed
  ledger,   \* ledger[s][k]: what the server knows of a key
  left,     \* what it has still to begin of a batch whose client has gone
  records,  \* records[s]: the records it has stored of a submission
  gone      \* submissions that were let go

setting == <<scripted, sound>>
person == <<form, minted, who, replaced, leaving, purging>>
queue == <<of, memory, disk, gone>>
server == <<ledger, left, records>>
vars == <<scripted, sound, form, minted, who, of, memory, disk, pass, call,
          replaced, leaving, purging, ledger, left, records, gone>>

(***************************************************************************)
(* Items.                                                                  *)
(***************************************************************************)
Item == [status : {"none", "pending", "failed"}, attempts : 0 .. MaxAttempts,
         failure : {"-", "conflict", "script-ran", "gave-up"}, old : BOOLEAN]
NoItem == [status |-> "none", attempts |-> 0, failure |-> "-", old |-> FALSE]
FreshItem == [NoItem EXCEPT !.status = "pending"]

Unused == [sub |-> "-", key |-> 0, owner |-> Nobody]
About(s, k, a) == [sub |-> s, key |-> k, owner |-> a]

Held(q) == {i \in Ids : q[i].status # "none"}
PairOf(i) == <<of[i].sub, of[i].key>>

\* Items of the list alone: their removal lets go of these submissions.
LetGo(I) == {s \in Subs : /\ \E i \in Held(memory) : of[i].sub = s
                          /\ \A i \in Held(memory) : of[i].sub = s => i \in I}

Without(q, I) == [i \in Ids |-> IF i \in I THEN NoItem ELSE q[i]]

(* sweep: a failed item is removed once its retention period is over.      *)
Expired(q) == {i \in Ids : q[i].status = "failed" /\ q[i].old}

(* A change of the list is written to the file or taken back.              *)
Outcomes == IF "disk" \in Hazards /\ ~sound THEN BOOLEAN ELSE {TRUE}

\* A fault: the list is left as it was meant to be.
NotRolledBack(q) == q

RolledBack(q) == memory

Persist(q, ok) ==
  /\ memory' = IF ok THEN q ELSE RolledBack(q)
  /\ disk' = IF ok THEN q ELSE disk

(***************************************************************************)
(* The pass.                                                               *)
(***************************************************************************)
NoPass == [on |-> FALSE, current |-> FALSE, batches |-> {}]
Pass == [on : BOOLEAN, current : BOOLEAN, batches : SUBSET SUBSET Ids]

Results ==
  {"-",
   "stored",      \* stored now, or a replay of what is stored
   "processing",  \* or over the account's limit
   "later",       \* 503
   "conflict", "scriptRan",
   "refused"}     \* judged, or failed in any other way

Idle == [at |-> "idle", ids |-> {}, got |-> [i \in Ids |-> "-"], taken |-> {}]
Call == [at : {"idle", "sent", "held", "settling"}, ids : SUBSET Ids,
         got : [Ids -> Results], taken : SUBSET (Subs \X Keys)]
Post(b) == [Idle EXCEPT !.at = "sent", !.ids = b]

Entries == {"none", "busy", "done", "acted", "other"}

Init ==
  /\ scripted \in SUBSET Subs
  /\ sound \in BOOLEAN
  /\ form = [s \in Subs |-> "blank"]
  /\ minted = [s \in Subs |-> 0]
  /\ who \in Owners
  /\ of = [i \in Ids |-> Unused]
  /\ memory = [i \in Ids |-> NoItem] /\ disk = memory
  /\ pass = NoPass
  /\ call = Idle
  /\ replaced = {} /\ leaving = {} /\ purging = {}
  /\ ledger \in [Subs -> {[k \in Keys |-> "none"],
                          [k \in Keys |-> IF k = 0 THEN "other" ELSE "none"]}]
  /\ left = {}
  /\ records = [s \in Subs |-> 0]
  /\ gone = {}

(***************************************************************************)
(* What a page asks of the runtime's queue besides its passes.             *)
(***************************************************************************)
\* enqueue, under the quota: the id is given once the file holds the item.
Enqueue(s, k, ok) ==
  /\ Cardinality(Held(memory)) < MaxItems
  /\ \E i \in Ids :
       /\ of[i] = Unused
       /\ of' = IF ok THEN [of EXCEPT ![i] = About(s, k, who)] ELSE of
       /\ Persist([memory EXCEPT ![i] = FreshItem], ok)

Submit(s) ==
  /\ form[s] = "blank"
  /\ \/ /\ Enqueue(s, 0, TRUE)
        /\ form' = [form EXCEPT ![s] = "kept"]
     \/ /\ FALSE \in Outcomes /\ Enqueue(s, 0, FALSE)
        /\ form' = [form EXCEPT ![s] = "passed"]
     \/ /\ Cardinality(Held(memory)) >= MaxItems
        /\ form' = [form EXCEPT ![s] = "passed"]
        /\ UNCHANGED <<of, memory, disk>>
  /\ UNCHANGED <<setting, minted, who, pass, call, replaced, leaving, purging, server, gone>>

\* A failed item the screen offers; one retry at a time.
Offered(i) ==
  /\ memory[i].status = "failed" /\ ~memory[i].old
  /\ of[i].owner = who
  /\ replaced = {}

\* Queued afresh under the same key, or under a new one once its script acted.
Retry(i) ==
  /\ Offered(i)
  /\ memory[i].failure # "conflict"
  /\ \E ok \in Outcomes :
       /\ replaced' = IF ok THEN {i} ELSE {}
       /\ \/ /\ memory[i].failure = "script-ran"
             /\ minted[of[i].sub] < LastKey
             /\ minted' = [minted EXCEPT ![of[i].sub] = @ + 1]
             /\ Enqueue(of[i].sub, minted[of[i].sub] + 1, ok)
          \/ /\ memory[i].failure # "script-ran"
             /\ Enqueue(of[i].sub, of[i].key, ok)
             /\ UNCHANGED minted
  /\ UNCHANGED <<setting, form, who, pass, call, leaving, purging, server, gone>>

\* ack: the items go from the file, or stay in the list.
Ack(I, ok) ==
  /\ Persist(Without(memory, I), ok)
  /\ gone' = IF ok THEN gone \cup LetGo(I) ELSE gone

\* The failed item goes once the fresh one is in; if it can't, it stays.
RemoveReplaced ==
  /\ replaced # {}
  /\ \E ok \in Outcomes : Ack(replaced, ok)
  /\ replaced' = {}
  /\ UNCHANGED <<setting, form, minted, who, of, pass, call, leaving, purging, server>>

Discard(i) ==
  /\ Offered(i)
  /\ \E ok \in Outcomes : Ack({i}, ok)
  /\ UNCHANGED <<setting, person, of, pass, call, server>>

\* getQueue and flush remove what has expired, from the file as well if they can.
Sweep ==
  /\ Expired(memory) # {}
  /\ memory' = Without(memory, Expired(memory))
  /\ \E ok \in Outcomes : disk' = IF ok THEN memory' ELSE disk
  /\ gone' = gone \cup LetGo(Expired(memory))
  /\ UNCHANGED <<setting, person, of, pass, call, server>>

Age(i) ==
  /\ "aged" \in Hazards
  /\ memory[i].status = "failed" /\ ~memory[i].old
  /\ memory' = [memory EXCEPT ![i].old = TRUE]
  /\ disk' = [disk EXCEPT ![i].old = TRUE]
  /\ UNCHANGED <<setting, person, of, pass, call, server, gone>>

(***************************************************************************)
(* Signing in and out.  Each is a boundary: a pass that began before it    *)
(* sends nothing more.                                                     *)
(***************************************************************************)
Boundary == pass' = [pass EXCEPT !.current = FALSE]

SignIn(a) ==
  /\ who = Nobody
  /\ who' = a
  /\ Boundary
  /\ UNCHANGED <<setting, form, minted, call, replaced, leaving, purging, queue, server>>

\* A session that ends by itself leaves its items, for its account.
SessionExpires ==
  /\ who # Nobody
  /\ who' = Nobody
  /\ Boundary
  /\ UNCHANGED <<setting, form, minted, call, replaced, leaving, purging, queue, server>>

SignOut ==
  /\ who # Nobody
  /\ who' = Nobody
  /\ leaving' = leaving \cup {who}
  /\ Boundary
  /\ UNCHANGED <<setting, form, minted, call, replaced, purging, queue, server>>

\* purgeNativeQueue looks up the items to remove, and asks for that.
LookUp(a) ==
  /\ a \in leaving /\ purging = {}
  /\ leaving' = leaving \ {a}
  /\ purging' = {i \in Held(memory) : of[i].owner = a}
  /\ UNCHANGED <<setting, form, minted, who, pass, call, replaced, queue, server>>

Purge ==
  /\ purging # {}
  /\ \E ok \in Outcomes : Ack(purging, ok)
  /\ purging' = {}
  /\ UNCHANGED <<setting, form, minted, who, of, pass, call, replaced, leaving, server>>

(***************************************************************************)
(* A pass.                                                                 *)
(***************************************************************************)
\* However the sizes of the items split them into requests.
Splits(S) == {P \in SUBSET (SUBSET S \ {{}}) :
                UNION P = S /\ \A x, y \in P : x # y => x \cap y = {}}

StartPass ==
  /\ ~pass.on
  /\ LET mine == {i \in Held(memory) : memory[i].status = "pending" /\ of[i].owner = who} IN
       /\ mine # {}
       /\ \E P \in Splits(mine) : pass' = [on |-> TRUE, current |-> TRUE, batches |-> P]
  /\ UNCHANGED <<setting, person, queue, call, server>>

\* A fault: the boundary is not looked at again.
WhoeverIsSignedIn == TRUE

StillThisSession == pass.current

SendBatch ==
  /\ pass.on /\ call = Idle
  /\ StillThisSession
  /\ \E b \in pass.batches :
       /\ pass' = [pass EXCEPT !.batches = @ \ {b}]
       /\ call' = Post(b)
  /\ UNCHANGED <<setting, person, queue, server>>

PassEnds ==
  /\ pass.on /\ call = Idle
  /\ pass.batches = {} \/ ~StillThisSession
  /\ pass' = NoPass
  /\ UNCHANGED <<setting, person, queue, call, server>>

\* No answer, 401, 408, 429, 502, 503 or 504: the pass ends, nothing is judged.
\* What the server had not begun it may still begin.
Untaken == IF call.at = "held"
             THEN {PairOf(i) : i \in {j \in call.ids : call.got[j] = "-"}} \ call.taken
             ELSE {}
Unreached ==
  /\ call.at \in {"sent", "held"}
  /\ pass' = NoPass
  /\ call' = Idle
  /\ left' = left \cup Untaken
  /\ UNCHANGED <<setting, person, queue, ledger, records>>

\* Refused as a whole for its size: the halves go on their own.
TooLarge ==
  /\ call.at = "sent" /\ Cardinality(call.ids) > 1
  /\ \E P \in Splits(call.ids) :
       /\ Cardinality(P) = 2
       /\ pass' = [pass EXCEPT !.batches = @ \cup P]
  /\ call' = Idle
  /\ UNCHANGED <<setting, person, queue, server>>

\* A 2xx that is not the server's, or any other error: an attempt of each.
Rejected ==
  /\ call.at \in {"sent", "held"}
  /\ call' = [call EXCEPT !.at = "settling", !.taken = {},
                          !.got = [i \in Ids |-> IF i \in call.ids THEN "refused" ELSE "-"]]
  /\ left' = left \cup Untaken
  /\ UNCHANGED <<setting, person, queue, pass, ledger, records>>

With(r) == {i \in call.ids : call.got[i] = r}
Failed(i, f) == [memory[i] EXCEPT !.status = "failed", !.failure = f]

\* A fault: the last attempt is like the others.
TriedUncapped(i) == [memory[i] EXCEPT !.attempts = @ + 1]

\* A fault: it is never the last attempt.
TriedForever(i) ==
  IF memory[i].attempts + 1 >= MaxAttempts THEN memory[i] ELSE [memory[i] EXCEPT !.attempts = @ + 1]

Tried(i) ==
  IF memory[i].attempts + 1 >= MaxAttempts
    THEN [Failed(i, "gave-up") EXCEPT !.attempts = MaxAttempts]
    ELSE [memory[i] EXCEPT !.attempts = @ + 1]

\* failTerminal, and fail, which uses an attempt.
Marked(r) ==
  [i \in Ids |->
     IF i \notin With(r) \cap Held(memory) THEN memory[i]
     ELSE CASE r = "conflict" -> Failed(i, "conflict")
            [] r = "scriptRan" -> Failed(i, "script-ran")
            [] OTHER -> Tried(i)]

\* One call of the runtime, for the items that were given one result.
Settle(r, ok) ==
  /\ call.at = "settling" /\ With(r) # {}
  /\ \/ /\ r = "stored"
        /\ Persist(Without(memory, With(r)), ok)
     \/ /\ r \in {"conflict", "scriptRan", "refused"}
        /\ r = "conflict" => With("stored") = {}
        /\ r = "scriptRan" => With("stored") \cup With("conflict") = {}
        /\ r = "refused" => With("stored") \cup With("conflict") \cup With("scriptRan") = {}
        /\ Persist(Marked(r), ok)
  /\ call' = [call EXCEPT !.ids = @ \ With(r)]
  /\ UNCHANGED <<setting, person, of, gone, pass, server>>

\* The rest stays as it is, for a later pass.
BatchEnds ==
  /\ call.at = "settling"
  /\ call.ids \subseteq With("processing") \cup With("later")
  /\ call' = Idle
  /\ UNCHANGED <<setting, person, queue, pass, server>>

(***************************************************************************)
(* The server, which answers for each key of a batch.                      *)
(***************************************************************************)
Reach ==
  /\ call.at = "sent" /\ who # Nobody
  /\ call' = [call EXCEPT !.at = "held"]
  /\ UNCHANGED <<setting, person, queue, pass, server>>

\* With the last result the answer is on its way.
Answered(p, r) ==
  LET got == [i \in Ids |-> IF i \in call.ids /\ PairOf(i) = p THEN r ELSE call.got[i]]
  IN  [call EXCEPT !.got = got, !.taken = @ \ {p},
         !.at = IF \A i \in call.ids : got[i] # "-" THEN "settling" ELSE "held"]

Open(i) == call.at = "held" /\ i \in call.ids /\ call.got[i] = "-"

TakeUp(i) ==
  LET p == PairOf(i)
      e == ledger[p[1]][p[2]] IN
  /\ Open(i) /\ p \notin call.taken
  /\ \/ /\ e = "none"
        /\ ledger' = [ledger EXCEPT ![p[1]][p[2]] = "busy"]
        /\ call' = [call EXCEPT !.taken = @ \cup {p}]
     \/ /\ e # "none"
        /\ call' = Answered(p, CASE e = "busy" -> "processing"
                                 [] e = "done" -> "stored"
                                 [] e = "acted" -> "scriptRan"
                                 [] e = "other" -> "conflict")
        /\ UNCHANGED ledger
  /\ UNCHANGED <<setting, person, queue, pass, left, records>>

\* Over the limit, or out of the time of a batch: handed back as still to do.
HandBack(i) ==
  /\ Open(i) /\ PairOf(i) \notin call.taken
  /\ call' = Answered(PairOf(i), "processing")
  /\ UNCHANGED <<setting, person, queue, pass, server>>

\* How the work on a key ends.
Ends(p, r) ==
  /\ ledger' = [ledger EXCEPT ![p[1]][p[2]] =
       CASE r = "stored" -> "done" [] r = "scriptRan" -> "acted" [] OTHER -> "none"]
  /\ records' = [records EXCEPT ![p[1]] = IF r = "stored" THEN @ + 1 ELSE @]

Judgements(s) ==
  {"stored", "refused"} \cup IF s \in scripted THEN {"scriptRan"} ELSE {}

Judge(p) ==
  /\ call.at = "held" /\ p \in call.taken
  /\ \E r \in Judgements(p[1]) : Ends(p, r) /\ call' = Answered(p, r)
  /\ UNCHANGED <<setting, person, queue, pass, left>>

Defer(p) ==
  /\ call.at = "held" /\ p \in call.taken
  /\ Ends(p, "later") /\ call' = Answered(p, "later")
  /\ UNCHANGED <<setting, person, queue, pass, left>>

TakeUpAlone(p) ==
  /\ p \in left
  /\ left' = left \ {p}
  /\ ledger' = IF ledger[p[1]][p[2]] = "none"
                 THEN [ledger EXCEPT ![p[1]][p[2]] = "busy"] ELSE ledger
  /\ UNCHANGED <<setting, person, queue, pass, call, records>>

JudgeAlone(p) ==
  /\ ledger[p[1]][p[2]] = "busy" /\ p \notin call.taken
  /\ \E r \in Judgements(p[1]) : Ends(p, r)
  /\ UNCHANGED <<setting, person, queue, pass, call, left>>

(***************************************************************************)
(* The process dies and is started again: load.                            *)
(***************************************************************************)
Crash ==
  /\ "crash" \in Hazards /\ ~sound
  /\ memory' = Without(disk, Expired(disk))
  /\ \E ok \in Outcomes : disk' = IF ok THEN memory' ELSE disk
  /\ gone' = gone \cup LetGo(Expired(disk))
  /\ pass' = NoPass /\ call' = Idle
  /\ replaced' = {} /\ leaving' = {} /\ purging' = {}
  /\ left' = left \cup Untaken
  /\ UNCHANGED <<setting, form, minted, who, of, ledger, records>>

Next ==
  \/ \E s \in Subs : Submit(s)
  \/ \E i \in Ids : Retry(i) \/ Discard(i) \/ Age(i) \/ TakeUp(i) \/ HandBack(i)
  \/ RemoveReplaced \/ Sweep \/ SessionExpires \/ SignOut \/ Purge \/ Crash
  \/ \E a \in Accounts : SignIn(a) \/ LookUp(a)
  \/ StartPass \/ SendBatch \/ PassEnds
  \/ Unreached \/ TooLarge \/ Rejected \/ BatchEnds \/ Reach
  \/ \E r \in Results, ok \in Outcomes : Settle(r, ok)
  \/ \E p \in Subs \X Keys : Judge(p) \/ Defer(p) \/ TakeUpAlone(p) \/ JudgeAlone(p)

Spec == Init /\ [][Next]_vars

(* Either scripts act or the process and the file fail, never both: a      *)
(* retry that dies between its two calls leaves the old item to be retried *)
(* under one more key.                                                     *)
Calm == sound <=> scripted # {}

CalmInit == Init /\ Calm

CalmSpec == CalmInit /\ [][Next]_vars

(* Someone always starts a pass again (the network comes back, the person  *)
(* comes back to the page, the account's minute is over), an outage ends,  *)
(* the file takes writes again and the process is not killed for ever.     *)
Fairness ==
  /\ WF_vars(StartPass \/ SendBatch \/ PassEnds \/ BatchEnds \/ Reach)
  /\ SF_vars(\E i \in Ids : TakeUp(i))
  /\ SF_vars(\E p \in Subs \X Keys : Judge(p))
  /\ \A p \in Subs \X Keys : WF_vars(JudgeAlone(p))
  /\ SF_vars(\E r \in Results : Settle(r, TRUE))
  /\ <>[][~Unreached]_vars /\ <>[][~Crash]_vars

FairSpec == CalmSpec /\ Fairness

-----------------------------------------------------------------------------
TypeOK ==
  /\ scripted \subseteq Subs /\ sound \in BOOLEAN
  /\ form \in [Subs -> {"blank", "kept", "passed"}]
  /\ minted \in [Subs -> Keys]
  /\ who \in Owners
  /\ of \in [Ids -> {Unused} \cup [sub : Subs, key : Keys, owner : Owners]]
  /\ memory \in [Ids -> Item] /\ disk \in [Ids -> Item]
  /\ pass \in Pass
  /\ call \in Call
  /\ replaced \subseteq Ids /\ purging \subseteq Ids /\ leaving \subseteq Accounts
  /\ ledger \in [Subs -> [Keys -> Entries]]
  /\ left \subseteq Subs \X Keys
  /\ records \in [Subs -> Nat]
  /\ gone \subseteq Subs

(* The runtime keeps what Outbox promises.                                 *)
Runtime == INSTANCE Outbox WITH
  held <- {of[i].sub : i \in Held(memory)}, stored <- records, dropped <- gone
KeepsThePromise == Runtime!Spec

(* Nothing is sent under another account than the one that queued it.      *)
SentUnderItsOwner ==
  [][call.at = "idle" /\ call'.at = "sent" => \A i \in call'.ids : of[i].owner = who]_vars

(* What waits is sent, or set aside for the person, while its account      *)
(* stays signed in.                                                        *)
QueueDrains ==
  \A i \in Ids :
    memory[i].status = "pending" /\ of[i].owner \in Accounts
      ~> memory[i].status # "pending" \/ who # of[i].owner
=============================================================================
