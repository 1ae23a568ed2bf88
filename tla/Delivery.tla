-------------------------------- MODULE Delivery --------------------------------
(***************************************************************************)
(* The life of one reply after the agent hands it to envelope.respond: the *)
(* live send, the pending_deliveries row written when that fails, and the  *)
(* periodic sweeps of DeliveryRecoveryWorker over those rows.              *)
(*                                                                         *)
(* setInterval starts a sweep every minute whether or not the previous one *)
(* has finished, so sweeps overlap; each works on the snapshot of due rows *)
(* it selected at its start.  A request may fail after the provider        *)
(* accepted the text (a timeout, a lost response): the sender cannot tell, *)
(* and the executor around it may well send the text again.                *)
(*                                                                         *)
(* Time is one bit of a row: due says whether nextAttemptAt has passed.    *)
(***************************************************************************)
EXTENDS Integers, FiniteSets

CONSTANTS
  Replies,
  Sweeps,         \* runOnce calls that may be in progress at one time
  GitHub,         \* replies to GitHub events
  Undeliverable,  \* replies whose provider has no deliverer configured
  MaxAttempts,    \* options.maxAttempts
  MaxRequests,    \* retryPolicy.maxAttempts: requests of one send
  MaxDbFailures,  \* bound: database calls that throw
  MaxCrashes      \* bound: process crashes

ASSUME DeliveryAssumption ==
  /\ GitHub \subseteq Replies
  /\ Undeliverable \subseteq Replies
  /\ MaxAttempts \in Nat \ {0}
  /\ MaxRequests \in Nat \ {0}
  /\ MaxDbFailures \in Nat /\ MaxCrashes \in Nat

VARIABLES
  live,      \* where the live send of each reply is
  errors,    \* requests of a live send in progress that ended in an error
  row,       \* the pending_deliveries row of each reply
  sweep,     \* the sweeps in progress
  posted,    \* external: copies of the reply in the channel
  tries,     \* history: times a deliverer was called for the reply
  doubtful,  \* history: replies that may legitimately be posted twice
  failures, crashes

vars == <<live, errors, row, sweep, posted, tries, doubtful, failures, crashes>>
counters == <<failures, crashes>>

Status == {"absent", "pending", "delivered", "failed"}
Row == [status: Status, attempts: 0 .. MaxAttempts - 1, due: BOOLEAN]

(* batch[r]: the attempts count of r's row when the sweep selected it, for
   the records not yet finished.  pc names the call the sweep is waiting
   for, on behalf of record; errors counts the requests of that delivery
   that ended in an error. *)
SweepPC == {"idle", "next", "deliver", "markDelivered", "markOutcome", "markUnsupported"}
Idle == [pc |-> "idle", batch |-> {}, record |-> <<>>, errors |-> 0]

Snapshot == [reply: Replies, attempts: 0 .. MaxAttempts - 1]
SweepRecord == [pc: SweepPC, batch: SUBSET Snapshot, record: Snapshot \cup {<<>>},
                errors: 0 .. MaxRequests - 1]

TypeOK ==
  /\ live \in [Replies -> {"new", "enqueue", "sent", "queued", "skipped", "lost"}]
  /\ errors \in [Replies -> 0 .. MaxRequests - 1]
  /\ row \in [Replies -> Row]
  /\ sweep \in [Sweeps -> SweepRecord]
  /\ \A s \in Sweeps : sweep[s].pc \notin {"idle", "next"} => sweep[s].record \in Snapshot
  /\ posted \in [Replies -> Nat]
  /\ tries \in [Replies -> Nat]
  /\ doubtful \subseteq Replies
  /\ failures \in 0 .. MaxDbFailures
  /\ crashes \in 0 .. MaxCrashes

Init ==
  /\ live = [r \in Replies |-> "new"]
  /\ errors = [r \in Replies |-> 0]
  /\ row = [r \in Replies |-> [status |-> "absent", attempts |-> 0, due |-> FALSE]]
  /\ sweep = [s \in Sweeps |-> Idle]
  /\ posted = [r \in Replies |-> 0]
  /\ tries = [r \in Replies |-> 0]
  /\ doubtful = {}
  /\ failures = 0 /\ crashes = 0

(* A sweep still has r ahead of it, or is in the middle of it. *)
Holds(s, r) ==
  \/ \E x \in sweep[s].batch : x.reply = r
  \/ /\ sweep[s].pc \in {"deliver", "markDelivered", "markOutcome"}
     /\ sweep[s].record.reply = r

-----------------------------------------------------------------------------
(* How a request for r ends.  An error may follow although the text was
   accepted: then the reply is in doubt. *)
Accepted(r) == posted' = [posted EXCEPT ![r] = @ + 1] /\ UNCHANGED doubtful
Errs(r) ==
  \/ UNCHANGED <<posted, doubtful>>
  \/ /\ posted' = [posted EXCEPT ![r] = @ + 1]
     /\ doubtful' = doubtful \cup {r}

(* envelope.respond: a request of the live send.  After an error the
   executor sends another, unless it was the last, the error is not
   retryable, or the breaker was open: then the reply is to be queued. *)
Send(r) ==
  /\ live[r] = "new"
  /\ \/ /\ Accepted(r) /\ live' = [live EXCEPT ![r] = "sent"]
        /\ errors' = [errors EXCEPT ![r] = 0]
     \/ /\ Errs(r) /\ live' = [live EXCEPT ![r] = "enqueue"]
        /\ errors' = [errors EXCEPT ![r] = 0]
     \/ /\ errors[r] + 1 < MaxRequests
        /\ Errs(r)
        /\ errors' = [errors EXCEPT ![r] = @ + 1]
        /\ UNCHANGED live
  /\ UNCHANGED <<row, sweep, tries, counters>>

(* The event's metadata lacks owner, repository or number: a warning is
   logged and respond returns normally. *)
Skip(r) ==
  /\ live[r] = "new" /\ errors[r] = 0
  /\ r \in GitHub
  /\ live' = [live EXCEPT ![r] = "skipped"]
  /\ UNCHANGED <<errors, row, sweep, posted, tries, doubtful, counters>>

(* pendingDeliveryStore.enqueue: due at once. *)
Enqueue(r) ==
  /\ live[r] = "enqueue"
  /\ live' = [live EXCEPT ![r] = "queued"]
  /\ row' = [row EXCEPT ![r] = [status |-> "pending", attempts |-> 0, due |-> TRUE]]
  /\ UNCHANGED <<errors, sweep, posted, tries, doubtful, counters>>

(* nextAttemptAt passes. *)
BackoffElapses(r) ==
  /\ row[r].status = "pending"
  /\ ~ row[r].due
  /\ row' = [row EXCEPT ![r].due = TRUE]
  /\ UNCHANGED <<live, errors, sweep, posted, tries, doubtful, counters>>

-----------------------------------------------------------------------------
Due == {r \in Replies : row[r].status = "pending" /\ row[r].due}
SnapshotOf(r) == [reply |-> r, attempts |-> row[r].attempts]

(* Mutant of DueForRetry: the status filter is forgotten. *)
DueForRetryAnyStatus == {SnapshotOf(r) : r \in {x \in Replies : row[x].due}}

(* Mutant of DueForRetry: the last attempt is never due. *)
DueForRetryShort == {SnapshotOf(r) : r \in {x \in Due : row[x].attempts + 1 < MaxAttempts}}

DueForRetry == {SnapshotOf(r) : r \in Due}

(* runOnce begins: store.dueForRetry.  A reply that another sweep still
   holds may now be delivered by both. *)
StartSweep(s) ==
  /\ sweep[s].pc = "idle"
  /\ DueForRetry # {}
  /\ sweep' = [sweep EXCEPT ![s] = [Idle EXCEPT !.pc = "next", !.batch = DueForRetry]]
  /\ doubtful' = doubtful \cup
       {x.reply : x \in {y \in DueForRetry : \E z \in Sweeps \ {s} : Holds(z, y.reply)}}
  /\ UNCHANGED <<live, errors, row, posted, tries, counters>>

(* The sweep turns to record x and waits for call pc on its behalf. *)
Take(s, x, pc) ==
  sweep' = [sweep EXCEPT ![s].pc = pc, ![s].batch = @ \ {x}, ![s].record = x]

(* Without a deliverer the row is given up, nothing being sent. *)
FindNoDeliverer(s, x) ==
  /\ sweep[s].pc = "next"
  /\ x \in sweep[s].batch
  /\ x.reply \in Undeliverable
  /\ Take(s, x, "markUnsupported")
  /\ UNCHANGED <<live, errors, row, posted, tries, doubtful, counters>>

(* The record's deliverer is called. *)
Deliver(s, x) ==
  /\ sweep[s].pc = "next"
  /\ x \in sweep[s].batch
  /\ x.reply \notin Undeliverable
  /\ tries' = [tries EXCEPT ![x.reply] = @ + 1]
  /\ Take(s, x, "deliver")
  /\ UNCHANGED <<live, errors, row, posted, doubtful, counters>>

(* Mutant of Request: an error is swallowed and the row marked delivered. *)
RequestSwallows(s) ==
  LET r == sweep[s].record.reply IN
  /\ sweep[s].pc = "deliver"
  /\ Accepted(r) \/ Errs(r)
  /\ sweep' = [sweep EXCEPT ![s].pc = "markDelivered", ![s].errors = 0]
  /\ UNCHANGED <<live, errors, row, tries, counters>>

(* A request of the deliverer, with the outcomes of a live one.  Only
   GitHub's deliverer runs in an executor; those of Slack and Discord send
   one request. *)
Request(s) ==
  LET r == sweep[s].record.reply IN
  /\ sweep[s].pc = "deliver"
  /\ \/ /\ Accepted(r)
        /\ sweep' = [sweep EXCEPT ![s].pc = "markDelivered", ![s].errors = 0]
     \/ /\ Errs(r)
        /\ sweep' = [sweep EXCEPT ![s].pc = "markOutcome", ![s].errors = 0]
     \/ /\ r \in GitHub /\ sweep[s].errors + 1 < MaxRequests
        /\ Errs(r)
        /\ sweep' = [sweep EXCEPT ![s].errors = @ + 1]
  /\ UNCHANGED <<live, errors, row, tries, counters>>

Proceed(s) ==
  sweep' = [sweep EXCEPT ![s] = IF @.batch = {} THEN Idle
                                ELSE [@ EXCEPT !.pc = "next", !.record = <<>>]]

(* markDelivered, markFailed and markRetried write the row whatever its
   status has become since the snapshot. *)
MarkDelivered(s) ==
  /\ sweep[s].pc = "markDelivered"
  /\ row' = [row EXCEPT ![sweep[s].record.reply].status = "delivered"]
  /\ Proceed(s)
  /\ UNCHANGED <<live, errors, posted, tries, doubtful, counters>>

MarkUnsupported(s) ==
  /\ sweep[s].pc = "markUnsupported"
  /\ row' = [row EXCEPT ![sweep[s].record.reply].status = "failed"]
  /\ Proceed(s)
  /\ UNCHANGED <<live, errors, posted, tries, doubtful, counters>>

(* Mutant of MarkOutcome: gives up one attempt early. *)
MarkOutcomeHasty(s) ==
  LET x == sweep[s].record IN
  /\ sweep[s].pc = "markOutcome"
  /\ row' = IF x.attempts + 2 >= MaxAttempts
              THEN [row EXCEPT ![x.reply].status = "failed"]
              ELSE [row EXCEPT ![x.reply].attempts = x.attempts + 1, ![x.reply].due = FALSE]
  /\ Proceed(s)
  /\ UNCHANGED <<live, errors, posted, tries, doubtful, counters>>

(* Mutant of MarkOutcome: gives up one attempt late. *)
MarkOutcomeLate(s) ==
  LET x == sweep[s].record IN
  /\ sweep[s].pc = "markOutcome"
  /\ row' = IF x.attempts >= MaxAttempts
              THEN [row EXCEPT ![x.reply].status = "failed"]
              ELSE [row EXCEPT ![x.reply].attempts = x.attempts + 1, ![x.reply].due = FALSE]
  /\ Proceed(s)
  /\ UNCHANGED <<live, errors, posted, tries, doubtful, counters>>

(* Mutant of MarkOutcome: a row that is to be retried is pending again. *)
MarkOutcomeReopens(s) ==
  LET x == sweep[s].record
      retried == [status |-> "pending", attempts |-> x.attempts + 1, due |-> FALSE]
  IN
  /\ sweep[s].pc = "markOutcome"
  /\ row' = IF x.attempts + 1 >= MaxAttempts
              THEN [row EXCEPT ![x.reply].status = "failed"]
              ELSE [row EXCEPT ![x.reply] = retried]
  /\ Proceed(s)
  /\ UNCHANGED <<live, errors, posted, tries, doubtful, counters>>

(* The catch clause: the count is the snapshot's plus one, not the row's. *)
MarkOutcome(s) ==
  LET x == sweep[s].record IN
  /\ sweep[s].pc = "markOutcome"
  /\ row' = IF x.attempts + 1 >= MaxAttempts
              THEN [row EXCEPT ![x.reply].status = "failed"]
              ELSE [row EXCEPT ![x.reply].attempts = x.attempts + 1, ![x.reply].due = FALSE]
  /\ Proceed(s)
  /\ UNCHANGED <<live, errors, posted, tries, doubtful, counters>>

-----------------------------------------------------------------------------
DbFails == failures < MaxDbFailures /\ failures' = failures + 1

(* The insert throws out of respond: nothing remembers the reply. *)
EnqueueFails(r) ==
  /\ live[r] = "enqueue"
  /\ DbFails
  /\ live' = [live EXCEPT ![r] = "lost"]
  /\ UNCHANGED <<errors, row, sweep, posted, tries, doubtful, crashes>>

(* markDelivered is inside the try of deliver: when it throws, a delivered
   reply is treated as a failed one. *)
MarkDeliveredFails(s) ==
  /\ sweep[s].pc = "markDelivered"
  /\ DbFails
  /\ sweep' = [sweep EXCEPT ![s].pc = "markOutcome"]
  /\ doubtful' = doubtful \cup {sweep[s].record.reply}
  /\ UNCHANGED <<live, errors, row, posted, tries, crashes>>

(* markFailed or markRetried throws out of runOnce: the rest of the batch
   is left to the next sweep. *)
SweepFails(s) ==
  /\ sweep[s].pc \in {"markOutcome", "markUnsupported"}
  /\ DbFails
  /\ sweep' = [sweep EXCEPT ![s] = Idle]
  /\ UNCHANGED <<live, errors, row, posted, tries, doubtful, crashes>>

(* The process dies: a failed send not yet queued is lost, and a sweep that
   has delivered and not marked leaves the row pending. *)
Crash ==
  /\ crashes < MaxCrashes
  /\ crashes' = crashes + 1
  /\ live' = [r \in Replies |-> IF live[r] \in {"new", "enqueue"} THEN "lost" ELSE live[r]]
  /\ sweep' = [s \in Sweeps |-> Idle]
  /\ doubtful' = doubtful \cup
       {r \in Replies : \E s \in Sweeps : /\ sweep[s].pc = "markDelivered"
                                          /\ sweep[s].record.reply = r}
  /\ errors' = [r \in Replies |-> 0]
  /\ UNCHANGED <<row, posted, tries, failures>>

Mark(s) == MarkDelivered(s) \/ MarkUnsupported(s) \/ MarkOutcome(s)
WorkOn(s) == \E x \in sweep[s].batch : FindNoDeliverer(s, x) \/ Deliver(s, x)

Next ==
  \/ \E r \in Replies : \/ Send(r) \/ Skip(r) \/ Enqueue(r)
                        \/ BackoffElapses(r) \/ EnqueueFails(r)
  \/ \E s \in Sweeps : \/ StartSweep(s) \/ WorkOn(s) \/ Request(s) \/ Mark(s)
                       \/ MarkDeliveredFails(s) \/ SweepFails(s)
  \/ Crash

(* The interval timer keeps firing, backoffs elapse, and the calls a sweep
   awaits settle. *)
Fairness ==
  /\ \A r \in Replies : WF_vars(BackoffElapses(r))
  /\ \A s \in Sweeps : /\ WF_vars(StartSweep(s)) /\ WF_vars(WorkOn(s))
                       /\ WF_vars(Request(s)) /\ WF_vars(Mark(s))

Spec == Init /\ [][Next]_vars
FairSpec == Spec /\ Fairness

-----------------------------------------------------------------------------
(* A reply that is not in the channel is never taken for sent: its row is
   not marked delivered, a reply said to be queued has a row, and it is lost
   only when the insertion of the row failed or the process died. *)
NoSilentLoss ==
  \A r \in Replies : posted[r] = 0 =>
    /\ live[r] # "sent"
    /\ row[r].status # "delivered"
    /\ live[r] = "queued" => row[r].status # "absent"
    /\ live[r] = "lost" => failures + crashes > 0

(* A reply is given up only after MaxAttempts genuine deliveries (or for
   want of a deliverer), although a failing sweep writes back the count of
   its own, possibly stale, snapshot. *)
FailureEarned ==
  \A r \in Replies :
    /\ row[r].attempts <= tries[r]
    /\ row[r].status = "failed" => r \in Undeliverable \/ tries[r] >= MaxAttempts

(* A second copy of a reply has a reason: a request ended in an error though
   its text had arrived, so that the executor or a later sweep repeated it;
   two sweeps held the row at once; or a delivery could not be recorded. *)
DuplicatesExplained ==
  \A r \in Replies : posted[r] > 1 => r \in doubtful

(* The queue drains: every row is delivered or given up, overlapping sweeps
   that set its count back notwithstanding. *)
QueueDrains == \A r \in Replies : row[r].status = "pending" ~> row[r].status # "pending"

(* "Bounded backoff, then permanently marked failed": a row is delivered
   more often than MaxAttempts only if two sweeps held it at once, its
   sender could not know that a copy had arrived, or the database failed or
   the process died between an attempt and the count of it. *)
BudgetExplained ==
  \A r \in Replies :
    tries[r] > MaxAttempts => r \in doubtful \/ failures + crashes > 0

-----------------------------------------------------------------------------
(* What a row and the live send say has become of a reply. *)
Fate(r) ==
  IF live[r] = "sent" \/ row[r].status = "delivered" THEN "delivered"
  ELSE IF live[r] \in {"skipped", "lost"} \/ row[r].status = "failed" THEN "given up"
  ELSE "owed"

Promise == INSTANCE ReplyQueue WITH
  fate <- [r \in Replies |-> Fate(r)], copies <- posted, doubt <- doubtful

(* The live send, the queue and the sweeps keep the promise of ReplyQueue: a
   reply is settled once and posted once, and settled for good, by whichever
   of them, unless it came in doubt before it was settled. *)
ImplementsReplyQueue == Promise!Spec
=================================================================================
