----------------------------- MODULE Delivery_proofs -----------------------------
(***************************************************************************)
(* Proofs about Delivery, for any number of replies and of overlapping     *)
(* sweeps, any maxAttempts, failures and crashes.                          *)
(***************************************************************************)
EXTENDS Delivery, TLAPS

(* A sweep whose next database call is about r. *)
At(s, pc, r) == sweep[s].pc = pc /\ sweep[s].record.reply = r
InBatch(s, r) == \E x \in sweep[s].batch : x.reply = r

LEMMA TypeInit == Init => TypeOK
BY DeliveryAssumption DEF Init, TypeOK, Idle, Row, Status, SweepPC, SweepRecord

LEMMA ProceedType ==
  ASSUME TypeOK, NEW s \in Sweeps, Proceed(s)
  PROVE  /\ sweep' \in [Sweeps -> SweepRecord]
         /\ sweep'[s].pc \in {"idle", "next"}
         /\ \A z \in Sweeps \ {s} : sweep'[z] = sweep[z]
<1>1. sweep[s] \in SweepRecord
  BY DEF TypeOK, SweepRecord
<1>2. CASE sweep[s].batch = {}
  <2>1. Idle \in SweepRecord /\ Idle.pc = "idle"
    BY DeliveryAssumption DEF SweepRecord, SweepPC, Idle
  <2>2. sweep' = [sweep EXCEPT ![s] = Idle]
    BY <1>2 DEF Proceed
  <2> QED
    BY <2>1, <2>2 DEF TypeOK, SweepRecord
<1>3. CASE sweep[s].batch # {}
  <2> DEFINE next == [sweep[s] EXCEPT !.pc = "next", !.record = <<>>]
  <2>1. next \in SweepRecord /\ next.pc = "next"
    BY <1>1 DEF SweepRecord, SweepPC
  <2>2. sweep' = [sweep EXCEPT ![s] = next]
    BY <1>3 DEF Proceed
  <2> HIDE DEF next
  <2> QED
    BY <2>1, <2>2 DEF TypeOK, SweepRecord
<1> QED
  BY <1>2, <1>3

LEMMA TakeType ==
  ASSUME TypeOK, NEW s \in Sweeps, NEW x \in sweep[s].batch,
         NEW pc \in SweepPC, Take(s, x, pc)
  PROVE  /\ sweep' \in [Sweeps -> SweepRecord]
         /\ sweep'[s].pc = pc /\ sweep'[s].record = x
         /\ sweep'[s].batch = sweep[s].batch \ {x}
         /\ x \in Snapshot
         /\ \A z \in Sweeps \ {s} : sweep'[z] = sweep[z]
<1> DEFINE w == [sweep[s] EXCEPT !.pc = pc, !.batch = sweep[s].batch \ {x}, !.record = x]
<1>1. sweep[s] \in SweepRecord /\ sweep[s].batch \subseteq Snapshot /\ x \in Snapshot
  BY DEF TypeOK, SweepRecord
<1>2. w \in SweepRecord /\ w.pc = pc /\ w.record = x /\ w.batch = sweep[s].batch \ {x}
  BY <1>1 DEF SweepRecord
<1>3. sweep' = [sweep EXCEPT ![s] = w]
  BY DEF Take, TypeOK
<1> HIDE DEF w
<1> QED
  BY <1>1, <1>2, <1>3 DEF TypeOK

(* A request of a deliverer: where the sweep is afterwards, and what became
   of the text. *)
LEMMA RequestType ==
  ASSUME TypeOK, NEW s \in Sweeps, Request(s)
  PROVE  /\ sweep' \in [Sweeps -> SweepRecord]
         /\ sweep[s].pc = "deliver"
         /\ sweep'[s].pc \in {"deliver", "markDelivered", "markOutcome"}
         /\ sweep'[s].record = sweep[s].record /\ sweep'[s].batch = sweep[s].batch
         /\ sweep[s].record \in Snapshot
         /\ \A z \in Sweeps \ {s} : sweep'[z] = sweep[z]
<1>1. sweep[s] \in SweepRecord /\ sweep[s].pc = "deliver" /\ sweep[s].record \in Snapshot
      /\ sweep[s].errors \in 0 .. MaxRequests - 1
  BY DEF TypeOK, Request, SweepRecord
<1>2. ASSUME NEW pc \in {"markDelivered", "markOutcome"},
             sweep' = [sweep EXCEPT ![s].pc = pc, ![s].errors = 0]
      PROVE  /\ sweep' \in [Sweeps -> SweepRecord]
             /\ sweep'[s].pc = pc /\ sweep'[s].record = sweep[s].record
             /\ sweep'[s].batch = sweep[s].batch
             /\ \A z \in Sweeps \ {s} : sweep'[z] = sweep[z]
  <2> DEFINE w == [sweep[s] EXCEPT !.pc = pc, !.errors = 0]
  <2>1. w \in SweepRecord /\ w.pc = pc /\ w.record = sweep[s].record /\ w.batch = sweep[s].batch
    <3>1. pc \in SweepPC /\ 0 \in 0 .. MaxRequests - 1
      BY DeliveryAssumption DEF SweepPC
    <3> QED
      BY <1>1, <3>1 DEF SweepRecord
  <2>2. sweep' = [sweep EXCEPT ![s] = w]
    BY <1>2 DEF TypeOK
  <2> HIDE DEF w
  <2> QED
    BY <2>1, <2>2 DEF TypeOK
<1>3. ASSUME sweep[s].errors + 1 < MaxRequests, sweep' = [sweep EXCEPT ![s].errors = @ + 1]
      PROVE  /\ sweep' \in [Sweeps -> SweepRecord]
             /\ sweep'[s].pc = "deliver" /\ sweep'[s].record = sweep[s].record
             /\ sweep'[s].batch = sweep[s].batch
             /\ \A z \in Sweeps \ {s} : sweep'[z] = sweep[z]
  <2> DEFINE w == [sweep[s] EXCEPT !.errors = sweep[s].errors + 1]
  <2>0. sweep[s].errors + 1 \in 0 .. MaxRequests - 1
    BY <1>1, <1>3, DeliveryAssumption
  <2>1. w \in SweepRecord /\ w.pc = "deliver" /\ w.record = sweep[s].record /\ w.batch = sweep[s].batch
    BY <1>1, <2>0 DEF SweepRecord
  <2>2. sweep' = [sweep EXCEPT ![s] = w]
    BY <1>3 DEF TypeOK
  <2> HIDE DEF w
  <2> QED
    BY <2>1, <2>2 DEF TypeOK
<1> QED
  BY <1>1, <1>2, <1>3 DEF Request

LEMMA RequestPosts ==
  ASSUME TypeOK, NEW s \in Sweeps, Request(s), NEW x, x = sweep[s].record.reply
  PROVE  /\ x \in Replies
         /\ UNCHANGED <<live, errors, row, tries, failures, crashes>>
         /\ posted' \in [Replies -> Nat]
         /\ posted' = posted \/ posted' = [posted EXCEPT ![x] = @ + 1]
         /\ doubtful' = doubtful \/ doubtful' = doubtful \cup {x}
         /\ sweep'[s].pc = "markDelivered" => posted'[x] = posted[x] + 1
         /\ sweep'[s].pc # "markDelivered" => posted' = posted \/ x \in doubtful'
         /\ posted' = posted => doubtful' = doubtful
<1>1. x \in Replies /\ posted \in [Replies -> Nat]
  BY RequestType DEF TypeOK, Snapshot
<1>2. \/ Accepted(x) /\ sweep'[s].pc = "markDelivered"
      \/ Errs(x) /\ sweep'[s].pc # "markDelivered"
  <2>1. sweep[s] \in SweepRecord
    BY DEF TypeOK
  <2>2. [sweep[s] EXCEPT !.pc = "markDelivered", !.errors = 0].pc = "markDelivered"
        /\ [sweep[s] EXCEPT !.pc = "markOutcome", !.errors = 0].pc = "markOutcome"
        /\ [sweep[s] EXCEPT !.errors = sweep[s].errors + 1].pc = sweep[s].pc
    BY <2>1 DEF SweepRecord
  <2>3. \/ Accepted(x) /\ sweep' = [sweep EXCEPT ![s] = [sweep[s] EXCEPT !.pc = "markDelivered", !.errors = 0]]
        \/ Errs(x) /\ sweep' = [sweep EXCEPT ![s] = [sweep[s] EXCEPT !.pc = "markOutcome", !.errors = 0]]
        \/ Errs(x) /\ sweep' = [sweep EXCEPT ![s] = [sweep[s] EXCEPT !.errors = sweep[s].errors + 1]]
    BY DEF Request, TypeOK
  <2>4. sweep[s].pc = "deliver"
    BY DEF Request
  <2> QED
    BY <2>2, <2>3, <2>4 DEF TypeOK
<1>3. UNCHANGED <<live, errors, row, tries, failures, crashes>>
  BY DEF Request, counters
<1> QED
  BY <1>1, <1>2, <1>3 DEF Accepted, Errs

LEMMA SnapshotType ==
  ASSUME TypeOK
  PROVE  \A y \in DueForRetry : /\ y \in Snapshot
                                /\ row[y.reply].status = "pending"
                                /\ row[y.reply].attempts = y.attempts
BY DEF TypeOK, DueForRetry, Due, SnapshotOf, Snapshot, Row

(* The row written by a failed attempt. *)
LEMMA OutcomeRow ==
  ASSUME TypeOK, NEW s \in Sweeps, MarkOutcome(s)
  PROVE  LET x == sweep[s].record IN
         /\ x \in Snapshot /\ x.reply \in Replies
         /\ row' \in [Replies -> Row]
         /\ \A r \in Replies \ {x.reply} : row'[r] = row[r]
         /\ \/ /\ x.attempts + 1 >= MaxAttempts
               /\ row'[x.reply].status = "failed"
               /\ row'[x.reply].attempts = row[x.reply].attempts
            \/ /\ row'[x.reply].status = row[x.reply].status
               /\ row'[x.reply].attempts = x.attempts + 1
<1> DEFINE x == sweep[s].record
<1>1. x \in Snapshot
  BY DEF TypeOK, MarkOutcome
<1>2. x.reply \in Replies /\ x.attempts \in 0 .. MaxAttempts - 1
  BY <1>1 DEF Snapshot
<1>3. row[x.reply] \in Row
  BY <1>2 DEF TypeOK
<1>4. CASE x.attempts + 1 >= MaxAttempts
  <2>1. row' = [row EXCEPT ![x.reply].status = "failed"]
    BY <1>4 DEF MarkOutcome
  <2> HIDE DEF x
  <2> QED
    BY <1>1, <1>2, <1>3, <1>4, <2>1 DEF TypeOK, Row, Status, x
<1>5. CASE ~ (x.attempts + 1 >= MaxAttempts)
  <2>1. row' = [row EXCEPT ![x.reply].attempts = x.attempts + 1, ![x.reply].due = FALSE]
    BY <1>5 DEF MarkOutcome
  <2>2. x.attempts + 1 \in 0 .. MaxAttempts - 1
    BY <1>2, <1>5, DeliveryAssumption
  <2> HIDE DEF x
  <2>3. row' \in [Replies -> Row]
    BY <1>2, <1>3, <2>1, <2>2 DEF TypeOK, Row
  <2>4. /\ \A r \in Replies \ {x.reply} : row'[r] = row[r]
        /\ row'[x.reply].status = row[x.reply].status
        /\ row'[x.reply].attempts = x.attempts + 1
    BY <1>2, <1>3, <2>1 DEF TypeOK, Row
  <2> QED
    BY <1>1, <1>2, <2>3, <2>4 DEF x
<1> QED
  BY <1>4, <1>5

LEMMA TypeStep == TypeOK /\ [Next]_vars => TypeOK'
<1> SUFFICES ASSUME TypeOK, [Next]_vars PROVE TypeOK'
  OBVIOUS
<1> USE DeliveryAssumption
<1>1. ASSUME NEW r \in Replies,
             Send(r) \/ Skip(r) \/ Enqueue(r) \/ BackoffElapses(r) \/ EnqueueFails(r)
      PROVE  TypeOK'
  <2>1. CASE Send(r)
    BY <2>1 DEF TypeOK, Send, Accepted, Errs, counters
  <2>2. CASE Skip(r)
    BY <2>2 DEF TypeOK, Skip, counters
  <2>3. CASE Enqueue(r)
    <3>1. [status |-> "pending", attempts |-> 0, due |-> TRUE] \in Row
      BY DEF Row, Status
    <3> QED
      BY <2>3, <3>1 DEF TypeOK, Enqueue, counters
  <2>4. CASE BackoffElapses(r)
    BY <2>4 DEF TypeOK, BackoffElapses, counters, Row
  <2>5. CASE EnqueueFails(r)
    BY <2>5 DEF TypeOK, EnqueueFails, DbFails
  <2> QED
    BY <1>1, <2>1, <2>2, <2>3, <2>4, <2>5
<1>2. ASSUME NEW s \in Sweeps, StartSweep(s) PROVE TypeOK'
  <2>0. DueForRetry \in SUBSET Snapshot /\ 0 \in 0 .. MaxRequests - 1
    BY SnapshotType, DeliveryAssumption
  <2>1. [Idle EXCEPT !.pc = "next", !.batch = DueForRetry] \in SweepRecord
    BY <2>0 DEF SweepRecord, SweepPC, Idle
  <2>2. [Idle EXCEPT !.pc = "next", !.batch = DueForRetry].pc = "next"
    BY DEF Idle
  <2>3. sweep' \in [Sweeps -> SweepRecord]
    BY <1>2, <2>1 DEF TypeOK, StartSweep
  <2>4. \A z \in Sweeps : sweep'[z].pc \notin {"idle", "next"} => sweep'[z].record \in Snapshot
    BY <1>2, <2>2 DEF TypeOK, StartSweep
  <2>5. doubtful' \subseteq Replies
    BY <1>2, SnapshotType DEF TypeOK, StartSweep, Snapshot
  <2> QED
    BY <1>2, <2>3, <2>4, <2>5 DEF TypeOK, StartSweep, counters
<1>3. ASSUME NEW s \in Sweeps, WorkOn(s) PROVE TypeOK'
  <2>1. PICK x \in sweep[s].batch : FindNoDeliverer(s, x) \/ Deliver(s, x)
    BY <1>3 DEF WorkOn
  <2>2. PICK pc \in SweepPC : Take(s, x, pc)
    BY <2>1 DEF FindNoDeliverer, Deliver, SweepPC
  <2>3. /\ sweep' \in [Sweeps -> SweepRecord] /\ x \in Snapshot
        /\ \A z \in Sweeps : sweep'[z].pc \notin {"idle", "next"} => sweep'[z].record \in Snapshot
    <3>1. sweep'[s].record = x /\ x \in Snapshot
      BY <2>1, <2>2, TakeType
    <3>2. sweep'[s].record \in Snapshot
      BY <3>1
    <3> QED
      BY <2>1, <2>2, <3>1, <3>2, TakeType DEF TypeOK
  <2>4. x.reply \in Replies
    BY <2>3 DEF Snapshot
  <2>5. CASE FindNoDeliverer(s, x)
    BY <2>3, <2>5 DEF TypeOK, FindNoDeliverer, counters
  <2>6. CASE Deliver(s, x)
    <3>1. /\ posted' \in [Replies -> Nat] /\ tries' \in [Replies -> Nat]
          /\ doubtful' \subseteq Replies
      BY <2>4, <2>6 DEF TypeOK, Deliver
    <3> QED
      BY <2>3, <2>6, <3>1 DEF TypeOK, Deliver, counters
  <2> QED
    BY <2>1, <2>5, <2>6
<1>4. ASSUME NEW s \in Sweeps, Mark(s) PROVE TypeOK'
  <2>1. Proceed(s)
    BY <1>4 DEF Mark, MarkDelivered, MarkUnsupported, MarkOutcome
  <2>2. /\ sweep' \in [Sweeps -> SweepRecord]
        /\ \A z \in Sweeps : sweep'[z].pc \notin {"idle", "next"} => sweep'[z].record \in Snapshot
    BY <2>1, ProceedType DEF TypeOK
  <2>3. row' \in [Replies -> Row]
    <3>1. CASE MarkDelivered(s) \/ MarkUnsupported(s)
      <4>1. PICK status \in Status : row' = [row EXCEPT ![sweep[s].record.reply].status = status]
        BY <3>1 DEF MarkDelivered, MarkUnsupported, Status
      <4> QED
        BY <4>1 DEF TypeOK, Row
    <3> QED
      BY <1>4, <3>1, OutcomeRow DEF Mark
  <2> QED
    BY <1>4, <2>2, <2>3
       DEF TypeOK, Mark, MarkDelivered, MarkUnsupported, MarkOutcome, counters
<1>5. ASSUME NEW s \in Sweeps, MarkDeliveredFails(s) PROVE TypeOK'
  <2>1. sweep[s] \in SweepRecord /\ sweep[s].record \in Snapshot
    BY <1>5 DEF TypeOK, MarkDeliveredFails, SweepRecord
  <2>2. [sweep[s] EXCEPT !.pc = "markOutcome"] \in SweepRecord
    BY <2>1 DEF SweepRecord, SweepPC
  <2>3. [sweep[s] EXCEPT !.pc = "markOutcome"].record = sweep[s].record
    BY <2>1 DEF SweepRecord
  <2>4. sweep' = [sweep EXCEPT ![s] = [sweep[s] EXCEPT !.pc = "markOutcome"]]
    BY <1>5 DEF MarkDeliveredFails
  <2>5. sweep' \in [Sweeps -> SweepRecord]
    BY <2>2, <2>4 DEF TypeOK
  <2>6. \A z \in Sweeps : sweep'[z].pc \notin {"idle", "next"} => sweep'[z].record \in Snapshot
    BY <2>1, <2>3, <2>4 DEF TypeOK
  <2>7. doubtful' \subseteq Replies
    BY <1>5, <2>1 DEF TypeOK, MarkDeliveredFails, Snapshot
  <2> QED
    BY <1>5, <2>5, <2>6, <2>7 DEF TypeOK, MarkDeliveredFails, DbFails
<1>6. ASSUME NEW s \in Sweeps, SweepFails(s) PROVE TypeOK'
  <2>1. Idle \in SweepRecord /\ Idle.pc = "idle"
    BY DeliveryAssumption DEF Idle, SweepRecord, SweepPC
  <2> QED
    BY <1>6, <2>1 DEF TypeOK, SweepFails, DbFails
<1>7. CASE Crash
  <2>1. Idle \in SweepRecord /\ Idle.pc = "idle"
    BY DeliveryAssumption DEF Idle, SweepRecord, SweepPC
  <2> QED
    BY <1>7, <2>1 DEF TypeOK, Crash
<1>8. ASSUME NEW s \in Sweeps, Request(s) PROVE TypeOK'
  <2>1. \A z \in Sweeps : sweep'[z].pc \notin {"idle", "next"} => sweep'[z].record \in Snapshot
    BY <1>8, RequestType DEF TypeOK
  <2>2. doubtful' \subseteq Replies
    BY <1>8, RequestPosts DEF TypeOK
  <2> QED
    BY <1>8, <2>1, <2>2, RequestType, RequestPosts DEF TypeOK
<1>9. CASE UNCHANGED vars
  BY <1>9 DEF TypeOK, vars
<1> QED
  BY <1>1, <1>2, <1>3, <1>4, <1>5, <1>6, <1>7, <1>8, <1>9 DEF Next

(* Every variable keeps its type: the stored count stays below maxAttempts. *)
THEOREM TypeCorrect == Spec => []TypeOK
BY TypeInit, TypeStep, PTL DEF Spec

-----------------------------------------------------------------------------
(* How the steps of a sweep change what it holds. *)

LEMMA TakeHolds ==
  ASSUME TypeOK, NEW s \in Sweeps, NEW x \in sweep[s].batch,
         NEW pc \in SweepPC, Take(s, x, pc)
  PROVE  /\ sweep'[s].pc = pc /\ sweep'[s].record = x
         /\ sweep'[s].batch = sweep[s].batch \ {x}
         /\ \A z \in Sweeps \ {s} : sweep'[z] = sweep[z]
BY TakeType

LEMMA ProceedHolds ==
  ASSUME TypeOK, NEW s \in Sweeps, Proceed(s)
  PROVE  /\ sweep'[s].pc \in {"idle", "next"}
         /\ sweep'[s].pc = "idle" => sweep[s].batch = {}
         /\ sweep'[s].batch = sweep[s].batch
         /\ \A z \in Sweeps \ {s} : sweep'[z] = sweep[z]
<1>1. CASE sweep[s].batch = {}
  BY <1>1 DEF TypeOK, Proceed, Idle
<1>2. CASE sweep[s].batch # {}
  <2>1. sweep' = [sweep EXCEPT ![s] = [sweep[s] EXCEPT !.pc = "next", !.record = <<>>]]
    BY <1>2 DEF Proceed
  <2>2. sweep[s] \in SweepRecord
    BY DEF TypeOK
  <2>3. LET n == [sweep[s] EXCEPT !.pc = "next", !.record = <<>>]
        IN  n.pc = "next" /\ n.batch = sweep[s].batch
    BY <2>2 DEF SweepRecord
  <2>4. sweep'[s] = [sweep[s] EXCEPT !.pc = "next", !.record = <<>>]
    BY <2>1 DEF TypeOK
  <2> QED
    BY <1>2, <2>1, <2>3, <2>4 DEF TypeOK
<1> QED
  BY <1>1, <1>2

LEMMA StartHolds ==
  ASSUME TypeOK, NEW s \in Sweeps, StartSweep(s)
  PROVE  /\ sweep[s].pc = "idle" /\ sweep'[s].pc = "next"
         /\ sweep'[s].batch = DueForRetry
         /\ \A z \in Sweeps \ {s} : sweep'[z] = sweep[z]
BY DEF TypeOK, StartSweep, Idle

(* Giving up a sweep, and turning a delivered record into a failed one. *)
LEMMA FailHolds ==
  ASSUME TypeOK, NEW s \in Sweeps
  PROVE  /\ SweepFails(s) => /\ sweep'[s].pc = "idle" /\ sweep'[s].batch = {}
                             /\ \A z \in Sweeps \ {s} : sweep'[z] = sweep[z]
         /\ MarkDeliveredFails(s) => /\ sweep'[s].pc = "markOutcome"
                                     /\ sweep'[s].batch = sweep[s].batch
                                     /\ sweep'[s].record = sweep[s].record
                                     /\ \A z \in Sweeps \ {s} : sweep'[z] = sweep[z]
<1>1. sweep[s] \in SweepRecord
  BY DEF TypeOK
<1> QED
  BY <1>1 DEF TypeOK, SweepRecord, SweepFails, MarkDeliveredFails, Idle

LEMMA MarkRow ==
  ASSUME TypeOK, NEW s \in Sweeps, MarkDelivered(s) \/ MarkUnsupported(s),
         NEW r \in Replies
  PROVE  /\ row'[r].attempts = row[r].attempts
         /\ row'[r].status = IF sweep[s].record.reply # r THEN row[r].status
                             ELSE IF MarkDelivered(s) THEN "delivered" ELSE "failed"
<1>1. row[r] \in Row
  BY DEF TypeOK
<1>2. CASE MarkDelivered(s)
  BY <1>1, <1>2 DEF TypeOK, Row, MarkDelivered
<1>3. CASE MarkUnsupported(s) /\ ~ MarkDelivered(s)
  BY <1>1, <1>3 DEF TypeOK, Row, MarkUnsupported
<1> QED
  BY <1>2, <1>3

LEMMA EnqueueRow ==
  ASSUME TypeOK, NEW x \in Replies, Enqueue(x), NEW r \in Replies
  PROVE  IF r = x THEN row'[r].status = "pending" /\ row'[r].attempts = 0
                  ELSE row'[r] = row[r]
<1>1. row' = [row EXCEPT ![x] = [status |-> "pending", attempts |-> 0, due |-> TRUE]]
  BY DEF Enqueue
<1> QED
  BY <1>1 DEF TypeOK

LEMMA BackoffRow ==
  ASSUME TypeOK, NEW x \in Replies, BackoffElapses(x), NEW r \in Replies
  PROVE  row'[r].status = row[r].status /\ row'[r].attempts = row[r].attempts
<1>1. row[r] \in Row
  BY DEF TypeOK
<1>2. row' = [row EXCEPT ![x].due = TRUE]
  BY DEF BackoffElapses
<1>3. CASE r = x
  BY <1>1, <1>2, <1>3 DEF TypeOK, Row
<1>4. CASE r # x
  BY <1>2, <1>4 DEF TypeOK
<1> QED
  BY <1>3, <1>4

-----------------------------------------------------------------------------
(* FailureEarned.  A sweep's snapshot counts deliveries that were made, and
   once it has delivered, one more was made than its snapshot counts. *)
SnapshotInv ==
  \A s \in Sweeps :
    /\ \A x \in sweep[s].batch : x.attempts <= tries[x.reply]
    /\ sweep[s].pc \in {"deliver", "markDelivered", "markOutcome"}
         => sweep[s].record.attempts + 1 <= tries[sweep[s].record.reply]
    /\ sweep[s].pc = "markUnsupported" => sweep[s].record.reply \in Undeliverable

EarnedInv == FailureEarned /\ SnapshotInv

LEMMA EarnedInit == Init => EarnedInv
BY DeliveryAssumption DEF Init, EarnedInv, FailureEarned, SnapshotInv, Idle

(* tries only grows. *)
LEMMA TriesGrow ==
  ASSUME TypeOK, [Next]_vars
  PROVE  \A r \in Replies : tries[r] \in Nat /\ tries'[r] \in Nat /\ tries[r] <= tries'[r]
<1>1. ASSUME NEW s \in Sweeps, WorkOn(s)
      PROVE  \A r \in Replies : tries'[r] \in {tries[r], tries[r] + 1}
  BY <1>1 DEF TypeOK, WorkOn, FindNoDeliverer, Deliver
<1>2. (\E s \in Sweeps : WorkOn(s)) \/ tries' = tries
  BY DEF Next, Send, Skip, Enqueue, BackoffElapses, EnqueueFails, StartSweep, Request, Mark,
     MarkDelivered, MarkUnsupported, MarkOutcome, MarkDeliveredFails, SweepFails, Crash, vars
<1>3. \A r \in Replies : tries[r] \in Nat
  BY DEF TypeOK
<1> QED
  BY <1>1, <1>2, <1>3

LEMMA SnapshotStep == TypeOK /\ EarnedInv /\ [Next]_vars => SnapshotInv'
<1> SUFFICES ASSUME TypeOK, EarnedInv, [Next]_vars, NEW z \in Sweeps
             PROVE  /\ \A x \in sweep'[z].batch : x.attempts <= tries'[x.reply]
                    /\ sweep'[z].pc \in {"deliver", "markDelivered", "markOutcome"}
                         => sweep'[z].record.attempts + 1 <= tries'[sweep'[z].record.reply]
                    /\ sweep'[z].pc = "markUnsupported"
                         => sweep'[z].record.reply \in Undeliverable
  BY DEF SnapshotInv
<1> DEFINE OK(w) == /\ \A x \in w.batch : x.attempts <= tries'[x.reply]
                    /\ w.pc \in {"deliver", "markDelivered", "markOutcome"}
                         => w.record.attempts + 1 <= tries'[w.record.reply]
                    /\ w.pc = "markUnsupported" => w.record.reply \in Undeliverable
<1>1. sweep[z].batch \subseteq Snapshot
  BY DEF TypeOK, SweepRecord
<1>2. OK(sweep[z])
  <2>1. \A x \in Snapshot : x.reply \in Replies /\ x.attempts \in Nat
    BY DeliveryAssumption DEF Snapshot
  <2>2. ASSUME NEW x \in sweep[z].batch PROVE x.attempts <= tries'[x.reply]
    BY <1>1, <2>1, TriesGrow DEF EarnedInv, SnapshotInv
  <2>3. ASSUME sweep[z].pc \in {"deliver", "markDelivered", "markOutcome"}
        PROVE  sweep[z].record.attempts + 1 <= tries'[sweep[z].record.reply]
    <3>1. sweep[z].record \in Snapshot
      BY <2>3 DEF TypeOK
    <3> QED
      BY <2>1, <2>3, <3>1, TriesGrow DEF EarnedInv, SnapshotInv
  <2> QED
    BY <2>2, <2>3 DEF EarnedInv, SnapshotInv
<1>3. SUFFICES OK(sweep'[z])
  OBVIOUS
<1>4. CASE sweep'[z] = sweep[z]
  BY <1>2, <1>4
<1>5. CASE StartSweep(z)
  <2>1. ASSUME NEW x \in DueForRetry PROVE x.attempts <= tries'[x.reply]
    <3>1. x.reply \in Replies /\ x.attempts = row[x.reply].attempts
      BY <2>1, SnapshotType DEF Snapshot
    <3>2. row[x.reply].attempts \in Nat
      BY <3>1, DeliveryAssumption DEF TypeOK, Row
    <3> QED
      BY <3>1, <3>2, TriesGrow DEF EarnedInv, FailureEarned
  <2> QED
    BY <1>5, <2>1, StartHolds
<1>6. CASE WorkOn(z)
  <2>1. PICK x \in sweep[z].batch : FindNoDeliverer(z, x) \/ Deliver(z, x)
    BY <1>6 DEF WorkOn
  <2>2. x \in Snapshot /\ x.reply \in Replies /\ x.attempts \in Nat
    BY <1>1, <2>1, DeliveryAssumption DEF Snapshot
  <2>3. \A y \in sweep[z].batch \ {x} : y.attempts <= tries'[y.reply]
    BY <1>2
  <2>4. CASE FindNoDeliverer(z, x)
    <3>1. Take(z, x, "markUnsupported") /\ x.reply \in Undeliverable /\ "markUnsupported" \in SweepPC
      BY <2>4 DEF FindNoDeliverer, SweepPC
    <3>2. sweep'[z].pc = "markUnsupported" /\ sweep'[z].record = x
          /\ sweep'[z].batch = sweep[z].batch \ {x}
      BY <2>1, <3>1, TakeHolds
    <3> QED
      BY <2>3, <3>1, <3>2
  <2>5. CASE Deliver(z, x)
    <3>1. Take(z, x, "deliver")
      BY <2>5 DEF Deliver
    <3>2. sweep'[z].pc = "deliver" /\ sweep'[z].record = x
          /\ sweep'[z].batch = sweep[z].batch \ {x}
      BY <2>1, <3>1, TakeHolds DEF SweepPC
    <3>3. tries'[x.reply] = tries[x.reply] + 1 /\ tries[x.reply] \in Nat
      BY <2>2, <2>5 DEF Deliver, TypeOK
    <3>4. x.attempts <= tries[x.reply]
      BY <2>1 DEF EarnedInv, SnapshotInv
    <3>5. x.attempts + 1 <= tries'[x.reply]
      BY <2>2, <3>3, <3>4
    <3> QED
      BY <2>3, <3>1, <3>2, <3>5
  <2> QED
    BY <2>1, <2>4, <2>5
<1>7. CASE Mark(z)
  <2>1. sweep'[z].pc \in {"idle", "next"} /\ sweep'[z].batch = sweep[z].batch
    BY <1>7, ProceedHolds DEF Mark, MarkDelivered, MarkUnsupported, MarkOutcome
  <2> QED
    BY <1>2, <2>1
<1>8. CASE SweepFails(z) \/ MarkDeliveredFails(z)
  BY <1>2, <1>8, FailHolds DEF MarkDeliveredFails
<1>9. CASE Crash
  <2>1. sweep'[z].pc = "idle" /\ sweep'[z].batch = {}
    BY <1>9 DEF Crash, Idle
  <2> QED
    BY <2>1
<1>10. ASSUME NEW s \in Sweeps, s # z,
              \/ StartSweep(s) \/ WorkOn(s) \/ Request(s) \/ Mark(s)
              \/ SweepFails(s) \/ MarkDeliveredFails(s)
       PROVE  sweep'[z] = sweep[z]
  <2>1. CASE WorkOn(s)
    BY <1>10, <2>1 DEF WorkOn, FindNoDeliverer, Deliver, Take, TypeOK
  <2>2. CASE Mark(s)
    BY <1>10, <2>2, ProceedHolds DEF Mark, MarkDelivered, MarkUnsupported, MarkOutcome
  <2> QED
    BY <1>10, <2>1, <2>2, StartHolds, FailHolds, RequestType
<1>11. CASE Request(z)
  BY <1>2, <1>11, RequestType
<1> QED
  BY <1>4, <1>5, <1>6, <1>7, <1>8, <1>9, <1>10, <1>11
     DEF Next, Send, Skip, Enqueue, BackoffElapses, EnqueueFails, vars

LEMMA EarnedStep == TypeOK /\ EarnedInv /\ [Next]_vars => EarnedInv'
<1> SUFFICES ASSUME TypeOK, EarnedInv, [Next]_vars PROVE FailureEarned'
  BY SnapshotStep DEF EarnedInv
<1> SUFFICES ASSUME NEW r \in Replies
             PROVE  /\ row'[r].attempts <= tries'[r]
                    /\ row'[r].status = "failed"
                         => r \in Undeliverable \/ tries'[r] >= MaxAttempts
  BY DEF FailureEarned
<1> USE DeliveryAssumption
<1>0. /\ tries[r] \in Nat /\ tries'[r] \in Nat /\ tries[r] <= tries'[r]
      /\ row[r] \in Row /\ row[r].attempts \in Nat
      /\ row[r].attempts <= tries[r]
      /\ row[r].status = "failed" => r \in Undeliverable \/ tries[r] >= MaxAttempts
  BY TriesGrow DEF TypeOK, Row, EarnedInv, FailureEarned
<1>1. CASE row'[r].attempts = row[r].attempts /\ row'[r].status = row[r].status
  BY <1>0, <1>1
<1>2. ASSUME NEW x \in Replies, Enqueue(x) \/ BackoffElapses(x)
      PROVE  \/ row'[r].attempts = row[r].attempts /\ row'[r].status = row[r].status
             \/ row'[r].attempts = 0 /\ row'[r].status = "pending"
  BY <1>2, EnqueueRow, BackoffRow
<1>3. ASSUME NEW s \in Sweeps, MarkDelivered(s) \/ MarkUnsupported(s)
      PROVE  /\ row'[r].attempts = row[r].attempts
             /\ row'[r].status = "failed" => row[r].status = "failed" \/ r \in Undeliverable
  BY <1>3, MarkRow DEF EarnedInv, SnapshotInv, MarkUnsupported, MarkDelivered
<1>4. ASSUME NEW s \in Sweeps, MarkOutcome(s), sweep[s].record.reply = r
      PROVE  /\ row'[r].attempts <= tries'[r]
             /\ row'[r].status = "failed" => r \in Undeliverable \/ tries'[r] >= MaxAttempts
  <2>0. sweep[s].pc = "markOutcome" /\ sweep[s].record \in Snapshot
    BY <1>4 DEF TypeOK, MarkOutcome
  <2>1. sweep[s].record.attempts + 1 <= tries[r] /\ sweep[s].record.attempts \in Nat
    BY <1>4, <2>0 DEF EarnedInv, SnapshotInv, Snapshot
  <2> QED
    BY <1>0, <1>4, <2>1, OutcomeRow
<1>5. ASSUME NEW s \in Sweeps, MarkOutcome(s), sweep[s].record.reply # r
      PROVE  row'[r] = row[r]
  BY <1>5, OutcomeRow
<1>6. CASE row' = row
  BY <1>0, <1>6
<1>7. ASSUME NEW s \in Sweeps, Request(s) PROVE row' = row
  BY <1>7 DEF Request
<1> QED
  BY <1>0, <1>1, <1>2, <1>3, <1>4, <1>5, <1>6, <1>7
     DEF Next, Send, Skip, EnqueueFails, StartSweep, WorkOn, FindNoDeliverer, Deliver, Mark,
         MarkDeliveredFails, SweepFails, Crash, vars

(* A reply is given up only after MaxAttempts genuine deliveries, however
   many sweeps overlap and write back stale counts. *)
THEOREM FailuresAreEarned == Spec => []FailureEarned
<1>1. EarnedInv => FailureEarned
  BY DEF EarnedInv
<1> QED
  BY <1>1, TypeInit, TypeStep, EarnedInit, EarnedStep, PTL DEF Spec

-----------------------------------------------------------------------------
(* NoSilentLoss and DuplicatesExplained.  Where a copy of r can come from:
   a sweep holds r only while it has a row; unless r is doubtful one sweep
   at most holds it, and one that is yet to deliver it, or has failed to,
   knows that nothing is in the channel. *)
BatchInv(s) ==
  /\ sweep[s].pc = "idle" => sweep[s].batch = {}
  /\ \A x, y \in sweep[s].batch : x.reply = y.reply => x = y
  /\ \A r \in Replies :
       (\E pc \in SweepPC \ {"idle", "next"} : At(s, pc, r)) => ~ InBatch(s, r)

Sound(r) ==
  /\ posted[r] <= 1
  /\ live[r] \in {"new", "enqueue"} => posted[r] = 0
  /\ \A s, z \in Sweeps : Holds(s, r) /\ Holds(z, r) => s = z
  /\ posted[r] > 0 /\ live[r] = "queued" =>
       /\ \A s \in Sweeps : /\ ~ InBatch(s, r)
                            /\ ~ At(s, "deliver", r) /\ ~ At(s, "markOutcome", r)
       /\ row[r].status = "pending" => \E s \in Sweeps : At(s, "markDelivered", r)

ChannelInv(r) ==
  /\ live[r] = "queued" <=> row[r].status # "absent"
  /\ live[r] = "sent" => posted[r] > 0
  /\ live[r] = "lost" => failures + crashes > 0
  /\ row[r].status = "delivered" => posted[r] > 0
  /\ \A s \in Sweeps : At(s, "markDelivered", r) => posted[r] > 0
  /\ \A s \in Sweeps : \A pc \in SweepPC \ {"idle", "next"} :
       InBatch(s, r) \/ At(s, pc, r) => row[r].status # "absent"
  /\ r \notin doubtful => Sound(r)

CopyInv == /\ \A s \in Sweeps : BatchInv(s)
           /\ \A r \in Replies : ChannelInv(r)

LEMMA CopyInit == Init => CopyInv
BY DEF Init, CopyInv, BatchInv, ChannelInv, Sound, Holds, At, InBatch, Idle, SweepPC

LEMMA HoldsParts ==
  \A s \in Sweeps, r \in Replies :
    Holds(s, r) <=> \/ InBatch(s, r) \/ At(s, "deliver", r)
                    \/ At(s, "markDelivered", r) \/ At(s, "markOutcome", r)
BY DEF Holds, InBatch, At

LEMMA BatchStep == TypeOK /\ CopyInv /\ [Next]_vars => \A s \in Sweeps : BatchInv(s)'
<1> SUFFICES ASSUME TypeOK, CopyInv, [Next]_vars, NEW z \in Sweeps PROVE BatchInv(z)'
  OBVIOUS
<1>0. BatchInv(z)
  BY DEF CopyInv
<1>1. CASE sweep'[z] = sweep[z]
  BY <1>0, <1>1 DEF BatchInv, At, InBatch
<1>2. CASE StartSweep(z)
  <2>1. \A x, y \in DueForRetry : x.reply = y.reply => x = y
    BY DEF DueForRetry, SnapshotOf
  <2> QED
    BY <1>2, <2>1, StartHolds DEF BatchInv, At, InBatch
<1>3. CASE WorkOn(z)
  <2>1. PICK x \in sweep[z].batch : \E pc \in SweepPC \ {"idle", "next"} : Take(z, x, pc)
    BY <1>3 DEF WorkOn, FindNoDeliverer, Deliver, SweepPC
  <2>2. sweep'[z].pc # "idle" /\ sweep'[z].record = x /\ sweep'[z].batch = sweep[z].batch \ {x}
    BY <2>1, TakeHolds
  <2> QED
    BY <1>0, <2>1, <2>2 DEF BatchInv, At, InBatch
<1>4. CASE Mark(z)
  BY <1>0, <1>4, ProceedHolds
     DEF BatchInv, At, InBatch, Mark, MarkDelivered, MarkUnsupported, MarkOutcome
<1>5. CASE SweepFails(z)
  BY <1>5, FailHolds DEF BatchInv, At, InBatch
<1>6. CASE MarkDeliveredFails(z)
  <2>1. sweep[z].pc = "markDelivered" /\ "markDelivered" \in SweepPC
    BY <1>6 DEF MarkDeliveredFails, SweepPC
  <2> QED
    BY <1>0, <1>6, <2>1, FailHolds DEF BatchInv, At, InBatch
<1>7. CASE Crash
  BY <1>7 DEF Crash, BatchInv, At, InBatch, Idle
<1>8. ASSUME NEW s \in Sweeps, s # z,
             \/ StartSweep(s) \/ WorkOn(s) \/ Request(s) \/ Mark(s)
             \/ SweepFails(s) \/ MarkDeliveredFails(s)
      PROVE  sweep'[z] = sweep[z]
  <2>1. CASE WorkOn(s)
    BY <1>8, <2>1 DEF WorkOn, FindNoDeliverer, Deliver, Take, TypeOK
  <2>2. CASE Mark(s)
    BY <1>8, <2>2, ProceedHolds DEF Mark, MarkDelivered, MarkUnsupported, MarkOutcome
  <2> QED
    BY <1>8, <2>1, <2>2, StartHolds, FailHolds, RequestType
<1>9. CASE Request(z)
  <2>1. sweep[z].pc = "deliver" /\ "deliver" \in SweepPC
    BY <1>9 DEF Request, SweepPC
  <2> QED
    BY <1>0, <1>9, <2>1, RequestType DEF BatchInv, At, InBatch
<1> QED
  BY <1>1, <1>2, <1>3, <1>4, <1>5, <1>6, <1>7, <1>8, <1>9
     DEF Next, Send, Skip, Enqueue, BackoffElapses, EnqueueFails, vars

(* Steps outside the sweeps: the live send, the enqueuing, the clock. *)
LEMMA ChannelLive ==
  ASSUME TypeOK, CopyInv, NEW x \in Replies,
         Send(x) \/ Skip(x) \/ Enqueue(x) \/ BackoffElapses(x) \/ EnqueueFails(x),
         NEW r \in Replies
  PROVE  ChannelInv(r)'
<1>0. ChannelInv(r) /\ posted[r] \in Nat /\ failures \in Nat /\ crashes \in Nat
  BY DeliveryAssumption DEF CopyInv, TypeOK
<1>1. sweep' = sweep
  BY DEF Send, Skip, Enqueue, BackoffElapses, EnqueueFails
<1>2. \A s \in Sweeps, pc \in SweepPC :
        /\ At(s, pc, r)' <=> At(s, pc, r)
        /\ InBatch(s, r)' <=> InBatch(s, r)
        /\ Holds(s, r)' <=> Holds(s, r)
  BY <1>1 DEF At, InBatch, Holds
<1>3. "markDelivered" \in SweepPC \ {"idle", "next"} /\ "markOutcome" \in SweepPC \ {"idle", "next"}
      /\ "deliver" \in SweepPC \ {"idle", "next"}
  BY DEF SweepPC
<1>4. CASE x # r
  <2>1. /\ live'[r] = live[r] /\ posted'[r] = posted[r]
        /\ r \in doubtful' <=> r \in doubtful
        /\ failures' \in Nat /\ crashes' \in Nat
        /\ failures + crashes > 0 => failures' + crashes' > 0
    BY <1>0, <1>4
       DEF TypeOK, Send, Accepted, Errs, Skip, Enqueue, BackoffElapses, EnqueueFails, DbFails, counters
  <2>2. row'[r].status = row[r].status
    BY <1>4, EnqueueRow, BackoffRow DEF Send, Skip, EnqueueFails
  <2> QED
    BY <1>0, <1>2, <1>3, <2>1, <2>2 DEF ChannelInv, Sound
<1>5. CASE x = r /\ (Send(r) \/ Skip(r) \/ EnqueueFails(r))
  <2>1. /\ row' = row /\ row[r].status = "absent"
        /\ posted'[r] \in {posted[r], posted[r] + 1}
        /\ r \notin doubtful' => r \notin doubtful
        /\ failures' \in Nat /\ crashes' = crashes
    BY <1>0, <1>5 DEF TypeOK, ChannelInv, Send, Accepted, Errs, Skip, EnqueueFails, DbFails, counters
  <2>2. \A s \in Sweeps : /\ ~ InBatch(s, r)
                          /\ \A pc \in SweepPC \ {"idle", "next"} : ~ At(s, pc, r)
    BY <1>0, <1>3, <2>1 DEF ChannelInv
  <2>3. \A s \in Sweeps : ~ Holds(s, r)
    BY <1>3, <2>2, HoldsParts
  <2>4. live[r] \in {"new", "enqueue"} /\ (r \notin doubtful => posted[r] = 0)
    BY <1>0, <1>5 DEF ChannelInv, Sound, Send, Skip, EnqueueFails
  <2>5. /\ live'[r] \in {"new", "sent", "enqueue", "skipped", "lost"}
        /\ live'[r] = "sent" => posted'[r] = posted[r] + 1
        /\ live'[r] = "lost" => failures' = failures + 1
        /\ live'[r] \in {"new", "enqueue"} /\ r \notin doubtful' => posted'[r] = posted[r]
    BY <1>5 DEF TypeOK, Send, Accepted, Errs, Skip, EnqueueFails, DbFails
  <2>6. ASSUME r \notin doubtful' PROVE Sound(r)'
    <3>1. posted'[r] <= 1 /\ (live'[r] \in {"new", "enqueue"} => posted'[r] = 0)
      BY <1>0, <2>1, <2>4, <2>5, <2>6
    <3> QED
      BY <1>2, <1>3, <2>2, <2>3, <2>5, <3>1 DEF Sound
  <2>7. /\ live'[r] = "sent" => posted'[r] > 0
        /\ live'[r] = "lost" => failures' + crashes' > 0
    <3>1. posted[r] + 1 > 0 /\ failures + 1 + crashes > 0
      BY <1>0
    <3>2. live'[r] = "sent" => posted'[r] = posted[r] + 1
      BY <2>5
    <3>3. live'[r] = "lost" => failures' = failures + 1 /\ crashes' = crashes
      BY <2>1, <2>5
    <3> QED
      BY <3>1, <3>2, <3>3
  <2>8. row'[r].status = "absent" /\ live'[r] # "queued"
    BY <2>1, <2>5
  <2> QED
    BY <1>2, <1>3, <2>2, <2>6, <2>7, <2>8 DEF ChannelInv
<1>6. CASE x = r /\ Enqueue(r)
  <2>1. /\ row'[r].status = "pending" /\ row[r].status = "absent"
        /\ live[r] = "enqueue" /\ live'[r] = "queued" /\ posted' = posted /\ doubtful' = doubtful
    BY <1>0, <1>6, EnqueueRow DEF TypeOK, ChannelInv, Enqueue
  <2>2. \A s \in Sweeps : /\ ~ InBatch(s, r)
                          /\ \A pc \in SweepPC \ {"idle", "next"} : ~ At(s, pc, r)
    BY <1>0, <1>3, <2>1 DEF ChannelInv
  <2> QED
    BY <1>0, <1>2, <1>3, <2>1, <2>2 DEF ChannelInv, Sound
<1>7. CASE x = r /\ BackoffElapses(r)
  <2>1. row'[r].status = row[r].status
    BY <1>7, BackoffRow
  <2>2. UNCHANGED <<live, posted, doubtful, failures, crashes>>
    BY <1>7 DEF BackoffElapses, counters
  <2> QED
    BY <1>0, <1>2, <1>3, <2>1, <2>2 DEF ChannelInv, Sound
<1> QED
  BY <1>4, <1>5, <1>6, <1>7

(* A sweep that begins: a reply some other sweep holds becomes doubtful, and
   any other that is due is not in the channel. *)
LEMMA ChannelStart ==
  ASSUME TypeOK, CopyInv, NEW s \in Sweeps, StartSweep(s), NEW r \in Replies
  PROVE  ChannelInv(r)'
<1>0. ChannelInv(r) /\ posted[r] \in Nat
  BY DEF CopyInv, TypeOK
<1>1. UNCHANGED <<live, row, posted, failures, crashes>> /\ doubtful \subseteq doubtful'
  BY DEF StartSweep, counters
<1>2. \A z \in Sweeps \ {s}, pc \in SweepPC :
        /\ At(z, pc, r)' <=> At(z, pc, r)
        /\ InBatch(z, r)' <=> InBatch(z, r)
        /\ Holds(z, r)' <=> Holds(z, r)
  BY StartHolds DEF At, InBatch, Holds
<1>3. \A pc \in SweepPC \ {"idle", "next"} : ~ At(s, pc, r) /\ ~ At(s, pc, r)'
  BY StartHolds DEF At
<1>4. InBatch(s, r)' => /\ row[r].status = "pending"
                        /\ r \notin doubtful' => \A z \in Sweeps \ {s} : ~ Holds(z, r)
  <2> SUFFICES ASSUME InBatch(s, r)'
               PROVE  /\ row[r].status = "pending"
                      /\ r \notin doubtful' => \A z \in Sweeps \ {s} : ~ Holds(z, r)
    OBVIOUS
  <2>1. PICK y \in DueForRetry : y.reply = r
    BY StartHolds DEF InBatch
  <2>2. row[r].status = "pending"
    BY <2>1, SnapshotType
  <2>3. (\E z \in Sweeps \ {s} : Holds(z, r)) => r \in doubtful'
    BY <2>1 DEF StartSweep
  <2> QED
    BY <2>2, <2>3
<1>5. "markDelivered" \in SweepPC \ {"idle", "next"} /\ "markOutcome" \in SweepPC \ {"idle", "next"}
      /\ "deliver" \in SweepPC \ {"idle", "next"}
  BY DEF SweepPC
<1>6. Holds(s, r)' => InBatch(s, r)'
  BY <1>3, <1>5 DEF Holds, At, InBatch
<1>7. ASSUME r \notin doubtful' PROVE Sound(r)'
  <2>1. Sound(r)
    BY <1>0, <1>1, <1>7 DEF ChannelInv
  <2>2. ASSUME NEW a \in Sweeps, NEW b \in Sweeps, Holds(a, r)', Holds(b, r)' PROVE a = b
    BY <1>2, <1>4, <1>6, <1>7, <2>1, <2>2, <1>5 DEF Sound
  <2>3. ASSUME posted[r] > 0, live[r] = "queued" PROVE ~ InBatch(s, r)'
    <3> SUFFICES ASSUME InBatch(s, r)' PROVE FALSE
      OBVIOUS
    <3>1. PICK z \in Sweeps : At(z, "markDelivered", r)
      BY <1>4, <2>1, <2>3 DEF Sound
    <3> QED
      BY <1>3, <1>4, <1>5, <1>7, <3>1, HoldsParts
  <2> QED
    BY <1>1, <1>2, <1>3, <1>5, <2>1, <2>2, <2>3 DEF Sound
<1> QED
  BY <1>0, <1>1, <1>2, <1>3, <1>4, <1>5, <1>7 DEF ChannelInv

(* A sweep turns to a record: nothing is in the channel yet if it is to be
   delivered, unless the reply is doubtful. *)
LEMMA ChannelWork ==
  ASSUME TypeOK, CopyInv, NEW s \in Sweeps, WorkOn(s), NEW r \in Replies
  PROVE  ChannelInv(r)'
<1>0. ChannelInv(r) /\ posted[r] \in Nat /\ BatchInv(s)
  BY DEF CopyInv, TypeOK
<1>1. PICK x \in sweep[s].batch : FindNoDeliverer(s, x) \/ Deliver(s, x)
  BY DEF WorkOn
<1>2. PICK pc \in SweepPC \ {"idle", "next"} :
        /\ Take(s, x, pc)
        /\ pc \in {"markUnsupported", "deliver"}
  BY <1>1 DEF FindNoDeliverer, Deliver, SweepPC
<1>3. /\ sweep'[s].pc = pc /\ sweep'[s].record = x
      /\ sweep'[s].batch = sweep[s].batch \ {x}
      /\ \A z \in Sweeps \ {s} : sweep'[z] = sweep[z]
      /\ sweep[s].pc = "next" /\ x \in Snapshot /\ x.reply \in Replies
  <2>1. /\ sweep'[s].pc = pc /\ sweep'[s].record = x
        /\ sweep'[s].batch = sweep[s].batch \ {x}
        /\ \A z \in Sweeps \ {s} : sweep'[z] = sweep[z]
    BY <1>1, <1>2, TakeHolds
  <2>2. x \in Snapshot
    BY <1>1 DEF TypeOK, SweepRecord
  <2>3. sweep[s].pc = "next"
    BY <1>1 DEF FindNoDeliverer, Deliver
  <2> QED
    BY <2>1, <2>2, <2>3 DEF Snapshot
<1>4. \A z \in Sweeps \ {s}, p \in SweepPC :
        /\ At(z, p, r)' <=> At(z, p, r)
        /\ InBatch(z, r)' <=> InBatch(z, r)
        /\ Holds(z, r)' <=> Holds(z, r)
  BY <1>3 DEF At, InBatch, Holds
<1>5. UNCHANGED <<live, row, posted, doubtful, failures, crashes>>
  BY <1>1 DEF FindNoDeliverer, Deliver, counters
<1>6. "markDelivered" \in SweepPC \ {"idle", "next"} /\ "markOutcome" \in SweepPC \ {"idle", "next"}
      /\ "deliver" \in SweepPC \ {"idle", "next"}
  BY DEF SweepPC
<1>7. \A p \in SweepPC \ {"idle", "next"} : ~ At(s, p, r)
  BY <1>3 DEF At
<1>8. CASE x.reply # r
  <2>1. InBatch(s, r)' <=> InBatch(s, r)
    BY <1>3, <1>8 DEF InBatch
  <2>2. \A p \in SweepPC \ {"idle", "next"} : ~ At(s, p, r)'
    BY <1>3, <1>8 DEF At
  <2>3. Holds(s, r)' <=> Holds(s, r)
    BY <1>6, <1>7, <2>1, <2>2 DEF Holds, At, InBatch
  <2>4. r \notin doubtful' => r \notin doubtful
    BY <1>5
  <2>5. Sound(r) => Sound(r)'
    BY <1>4, <1>5, <1>6, <1>7, <1>8, <2>1, <2>2, <2>3 DEF Sound
  <2> QED
    BY <1>0, <1>4, <1>5, <1>6, <1>7, <1>8, <2>1, <2>2, <2>4, <2>5 DEF ChannelInv
<1>9. CASE x.reply = r
  <2>1. InBatch(s, r) /\ row[r].status # "absent" /\ live[r] = "queued"
    BY <1>0, <1>6, <1>9 DEF InBatch, ChannelInv
  <2>2. ~ InBatch(s, r)'
    BY <1>0, <1>3, <1>9 DEF InBatch, BatchInv
  <2>3. \A p \in SweepPC : At(s, p, r)' <=> p = pc
    BY <1>3, <1>9 DEF At
  <2>4. Holds(s, r)
    BY <2>1, HoldsParts
  <2>5. \A p \in SweepPC : At(s, p, r)' => p \in {"markUnsupported", "deliver"}
    BY <1>2, <2>3
  <2>6. ASSUME r \notin doubtful' PROVE Sound(r)'
    <3>1. Sound(r) /\ posted[r] = 0
      BY <1>0, <1>5, <2>1, <2>6 DEF ChannelInv, Sound
    <3>2. \A z \in Sweeps : Holds(z, r) => z = s
      BY <2>4, <3>1 DEF Sound
    <3>3. \A z \in Sweeps : Holds(z, r)' => z = s
      BY <1>4, <1>6, <3>2
    <3> QED
      BY <1>0, <1>5, <3>1, <3>3 DEF Sound
  <2> QED
    BY <1>0, <1>4, <1>5, <1>6, <2>1, <2>2, <2>3, <2>5, <2>6 DEF ChannelInv
<1> QED
  BY <1>8, <1>9

(* A request of a deliverer: the channel had no copy, unless the reply is
   doubtful, and has none after an error, unless it becomes so. *)
LEMMA ChannelRequest ==
  ASSUME TypeOK, CopyInv, NEW s \in Sweeps, Request(s), NEW r \in Replies
  PROVE  ChannelInv(r)'
<1>0. ChannelInv(r) /\ posted[r] \in Nat /\ BatchInv(s)
  BY DEF CopyInv, TypeOK
<1>1. PICK x \in Replies : x = sweep[s].record.reply
  BY RequestType DEF Snapshot
<1>2. /\ sweep[s].pc = "deliver" /\ sweep'[s].pc \in {"deliver", "markDelivered", "markOutcome"}
      /\ sweep'[s].record = sweep[s].record /\ sweep'[s].batch = sweep[s].batch
      /\ \A z \in Sweeps \ {s} : sweep'[z] = sweep[z]
  BY RequestType
<1>3. /\ UNCHANGED <<live, row, failures, crashes>>
      /\ posted'[r] \in {posted[r], posted[r] + 1}
      /\ x # r => posted'[r] = posted[r]
      /\ doubtful \subseteq doubtful'
      /\ sweep'[s].pc = "markDelivered" => posted'[x] = posted[x] + 1
      /\ sweep'[s].pc # "markDelivered" => posted' = posted \/ x \in doubtful'
  <2>1. posted' = posted \/ posted' = [posted EXCEPT ![x] = @ + 1]
    BY <1>1, RequestPosts
  <2> QED
    BY <1>1, <2>1, RequestPosts DEF TypeOK
<1>4. \A z \in Sweeps \ {s}, p \in SweepPC :
        /\ At(z, p, r)' <=> At(z, p, r)
        /\ InBatch(z, r)' <=> InBatch(z, r)
        /\ Holds(z, r)' <=> Holds(z, r)
  BY <1>2 DEF At, InBatch, Holds
<1>5. InBatch(s, r)' <=> InBatch(s, r)
  BY <1>2 DEF InBatch
<1>6. /\ "markDelivered" \in SweepPC \ {"idle", "next"} /\ "markOutcome" \in SweepPC \ {"idle", "next"}
      /\ "deliver" \in SweepPC \ {"idle", "next"}
  BY DEF SweepPC
<1>7. Holds(s, r)' <=> Holds(s, r)
  BY <1>2 DEF Holds
<1>8. CASE x # r
  <2>1. \A p \in SweepPC : ~ At(s, p, r) /\ ~ At(s, p, r)'
    BY <1>1, <1>2, <1>8 DEF At
  <2>2. Sound(r) => Sound(r)'
    BY <1>3, <1>4, <1>5, <1>6, <1>7, <1>8, <2>1 DEF Sound
  <2> QED
    BY <1>0, <1>3, <1>4, <1>5, <1>6, <1>8, <2>1, <2>2 DEF ChannelInv
<1>9. CASE x = r
  <2>1. At(s, "deliver", r) /\ row[r].status # "absent" /\ live[r] = "queued"
    BY <1>0, <1>1, <1>2, <1>6, <1>9 DEF At, ChannelInv
  <2>2. ~ InBatch(s, r) /\ Holds(s, r)
    BY <1>0, <1>6, <2>1, HoldsParts DEF BatchInv
  <2>3. \A p \in SweepPC : At(s, p, r)' <=> p = sweep'[s].pc
    BY <1>1, <1>2, <1>9 DEF At
  <2>4. ASSUME r \notin doubtful' PROVE Sound(r)'
    <3>1. Sound(r) /\ posted[r] = 0
      BY <1>0, <1>3, <2>1, <2>4 DEF ChannelInv, Sound
    <3>2. \A z \in Sweeps \ {s} : ~ Holds(z, r) /\ ~ Holds(z, r)'
      BY <1>4, <1>6, <2>2, <3>1 DEF Sound
    <3>3. \A z \in Sweeps \ {s} : /\ ~ InBatch(z, r)'
                                  /\ ~ At(z, "deliver", r)' /\ ~ At(z, "markOutcome", r)'
      BY <1>4, <1>6, <3>2, HoldsParts
    <3>4. posted'[r] \in {0, 1} /\ (posted'[r] > 0 => sweep'[s].pc = "markDelivered")
      BY <1>0, <1>3, <1>9, <2>4, <3>1
    <3>5. \A a, b \in Sweeps : Holds(a, r)' /\ Holds(b, r)' => a = b
      BY <3>2
    <3>6. posted'[r] > 0 => /\ ~ InBatch(s, r)' /\ ~ At(s, "deliver", r)' /\ ~ At(s, "markOutcome", r)'
                            /\ At(s, "markDelivered", r)'
      BY <1>5, <1>6, <2>2, <2>3, <3>4
    <3> QED
      BY <1>3, <2>1, <3>3, <3>4, <3>5, <3>6 DEF Sound
  <2>5. \A z \in Sweeps : At(z, "markDelivered", r)' => posted'[r] > 0
    BY <1>0, <1>3, <1>4, <1>6, <1>9, <2>3 DEF ChannelInv
  <2> QED
    BY <1>0, <1>3, <2>1, <2>4, <2>5 DEF ChannelInv
<1> QED
  BY <1>8, <1>9

(* A sweep writes a row and is done with its record. *)
LEMMA ChannelMark ==
  ASSUME TypeOK, CopyInv, NEW s \in Sweeps, Mark(s), NEW r \in Replies
  PROVE  ChannelInv(r)'
<1>0. ChannelInv(r) /\ posted[r] \in Nat /\ BatchInv(s)
  BY DEF CopyInv, TypeOK
<1>1. /\ Proceed(s) /\ UNCHANGED <<live, posted, doubtful, failures, crashes>>
      /\ sweep[s].pc \in SweepPC \ {"idle", "next"}
  BY DEF Mark, MarkDelivered, MarkUnsupported, MarkOutcome, counters, SweepPC
<1>2. /\ sweep'[s].pc \in {"idle", "next"} /\ sweep'[s].batch = sweep[s].batch
      /\ \A z \in Sweeps \ {s} : sweep'[z] = sweep[z]
  BY <1>1, ProceedHolds
<1>3. \A z \in Sweeps \ {s}, p \in SweepPC :
        /\ At(z, p, r)' <=> At(z, p, r)
        /\ InBatch(z, r)' <=> InBatch(z, r)
        /\ Holds(z, r)' <=> Holds(z, r)
  BY <1>2 DEF At, InBatch, Holds
<1>4. /\ InBatch(s, r)' <=> InBatch(s, r)
      /\ \A p \in SweepPC \ {"idle", "next"} : ~ At(s, p, r)'
      /\ Holds(s, r)' => Holds(s, r)
  BY <1>2 DEF At, InBatch, Holds
<1>5. "markDelivered" \in SweepPC \ {"idle", "next"} /\ "markOutcome" \in SweepPC \ {"idle", "next"}
      /\ "deliver" \in SweepPC \ {"idle", "next"}
  BY DEF SweepPC
<1>6. CASE sweep[s].record.reply # r
  <2>1. row'[r].status = row[r].status
    BY <1>6, MarkRow, OutcomeRow DEF Mark
  <2>2. \A p \in SweepPC : ~ At(s, p, r)
    BY <1>6 DEF At
  <2>3. Sound(r) => Sound(r)'
    BY <1>1, <1>3, <1>4, <1>5, <2>1, <2>2 DEF Sound
  <2> QED
    BY <1>0, <1>1, <1>3, <1>4, <1>5, <2>1, <2>2, <2>3 DEF ChannelInv
<1>7. CASE sweep[s].record.reply = r
  <2>1. At(s, sweep[s].pc, r) /\ row[r].status # "absent" /\ live[r] = "queued"
    BY <1>0, <1>1, <1>7 DEF At, ChannelInv
  <2>2. /\ row'[r].status # "absent"
        /\ row'[r].status = "delivered" => posted[r] > 0
        /\ sweep[s].pc = "markOutcome" \/ row'[r].status # "pending"
    <3>1. CASE MarkDelivered(s)
      <4>1. row'[r].status = "delivered"
        BY <1>7, <3>1, MarkRow
      <4>2. sweep[s].pc = "markDelivered"
        BY <3>1 DEF MarkDelivered
      <4> QED
        BY <1>0, <2>1, <4>1, <4>2 DEF ChannelInv
    <3>2. CASE MarkUnsupported(s)
      <4>1. ~ MarkDelivered(s)
        BY <3>2 DEF MarkDelivered, MarkUnsupported
      <4>2. row'[r].status = "failed"
        BY <1>7, <3>2, <4>1, MarkRow
      <4> QED
        BY <4>2
    <3>3. CASE MarkOutcome(s)
      <4>1. row'[r].status \in {"failed", row[r].status} /\ sweep[s].pc = "markOutcome"
        BY <1>7, <3>3, OutcomeRow DEF MarkOutcome
      <4> QED
        BY <1>0, <2>1, <4>1 DEF ChannelInv
    <3> QED
      BY <3>1, <3>2, <3>3 DEF Mark
  <2>3. ~ InBatch(s, r)
    BY <1>0, <1>1, <2>1 DEF BatchInv
  <2>4. ASSUME r \notin doubtful PROVE Sound(r)'
    <3>1. Sound(r)
      BY <1>0, <2>4 DEF ChannelInv
    <3>2. sweep[s].pc = "markOutcome" => posted[r] = 0
      BY <1>0, <2>1, <3>1 DEF Sound
    <3> QED
      BY <1>0, <1>1, <1>3, <1>4, <1>5, <2>1, <2>2, <2>3, <3>1, <3>2 DEF Sound
  <2> QED
    BY <1>0, <1>1, <1>3, <1>4, <1>5, <2>1, <2>2, <2>4 DEF ChannelInv
<1> QED
  BY <1>6, <1>7

(* A failing database call, or a crash: whoever had delivered and not yet
   marked makes its reply doubtful. *)
LEMMA ChannelFault ==
  ASSUME TypeOK, CopyInv, NEW r \in Replies,
         (\E s \in Sweeps : MarkDeliveredFails(s) \/ SweepFails(s)) \/ Crash
  PROVE  ChannelInv(r)'
<1>0. ChannelInv(r) /\ posted[r] \in Nat /\ failures \in Nat /\ crashes \in Nat
  BY DeliveryAssumption DEF CopyInv, TypeOK
<1>5. "markDelivered" \in SweepPC \ {"idle", "next"} /\ "markOutcome" \in SweepPC \ {"idle", "next"}
      /\ "deliver" \in SweepPC \ {"idle", "next"}
  BY DEF SweepPC
<1>1. ASSUME NEW s \in Sweeps, MarkDeliveredFails(s) PROVE ChannelInv(r)'
  <2>1. /\ sweep[s].pc = "markDelivered" /\ sweep'[s].pc = "markOutcome"
        /\ sweep'[s].batch = sweep[s].batch /\ sweep'[s].record = sweep[s].record
        /\ \A z \in Sweeps \ {s} : sweep'[z] = sweep[z]
    BY <1>1, FailHolds DEF MarkDeliveredFails
  <2>2. /\ UNCHANGED <<live, row, posted>> /\ failures' + crashes' > 0
        /\ doubtful' = doubtful \cup {sweep[s].record.reply}
    BY <1>0, <1>1 DEF MarkDeliveredFails, DbFails
  <2>3. \A z \in Sweeps : /\ InBatch(z, r)' <=> InBatch(z, r)
                          /\ Holds(z, r)' <=> Holds(z, r)
                          /\ At(z, "markDelivered", r)' => At(z, "markDelivered", r)
    BY <2>1 DEF InBatch, Holds, At
  <2>4. \A z \in Sweeps : \A p \in SweepPC \ {"idle", "next"} :
          At(z, p, r)' => \E q \in SweepPC \ {"idle", "next"} : At(z, q, r)
    BY <1>5, <2>1 DEF At
  <2>5. r # sweep[s].record.reply =>
          \A z \in Sweeps, p \in SweepPC \ {"idle", "next"} : At(z, p, r)' <=> At(z, p, r)
    BY <2>1 DEF At
  <2>6. r \notin doubtful' => Sound(r)'
    BY <1>0, <1>5, <2>2, <2>3, <2>5 DEF ChannelInv, Sound
  <2> QED
    BY <1>0, <2>2, <2>3, <2>4, <2>6 DEF ChannelInv
<1>2. ASSUME NEW s \in Sweeps, SweepFails(s) PROVE ChannelInv(r)'
  <2>1. /\ sweep[s].pc # "markDelivered" /\ sweep'[s].pc = "idle" /\ sweep'[s].batch = {}
        /\ \A z \in Sweeps \ {s} : sweep'[z] = sweep[z]
    BY <1>2, FailHolds DEF SweepFails
  <2>2. UNCHANGED <<live, row, posted, doubtful>> /\ failures' + crashes' > 0
    BY <1>0, <1>2 DEF SweepFails, DbFails
  <2>3. \A z \in Sweeps : /\ InBatch(z, r)' => InBatch(z, r)
                          /\ Holds(z, r)' => Holds(z, r)
                          /\ \A p \in SweepPC \ {"idle", "next"} : At(z, p, r)' => At(z, p, r)
                          /\ At(z, "markDelivered", r) => At(z, "markDelivered", r)'
    BY <2>1 DEF InBatch, Holds, At
  <2>4. Sound(r) => Sound(r)'
    BY <1>5, <2>2, <2>3 DEF Sound
  <2> QED
    BY <1>0, <1>5, <2>2, <2>3, <2>4 DEF ChannelInv
<1>3. CASE Crash
  <2>1. \A z \in Sweeps : sweep'[z].pc = "idle" /\ sweep'[z].batch = {}
    BY <1>3 DEF Crash, Idle
  <2>2. \A z \in Sweeps : /\ ~ InBatch(z, r)' /\ ~ Holds(z, r)'
                          /\ \A p \in SweepPC \ {"idle", "next"} : ~ At(z, p, r)'
    BY <2>1 DEF InBatch, Holds, At
  <2>3. /\ UNCHANGED <<row, posted>> /\ failures' + crashes' > 0
        /\ live'[r] \in {live[r], "lost"}
        /\ live[r] = "queued" <=> live'[r] = "queued"
        /\ live'[r] \in {"new", "enqueue"} => FALSE
        /\ live'[r] = "sent" => live[r] = "sent"
    BY <1>0, <1>3 DEF Crash, TypeOK
  <2>4. /\ doubtful \subseteq doubtful'
        /\ (\E z \in Sweeps : At(z, "markDelivered", r)) => r \in doubtful'
    BY <1>3 DEF Crash, At
  <2>5. r \notin doubtful' => Sound(r)'
    BY <1>0, <1>5, <2>2, <2>3, <2>4 DEF ChannelInv, Sound
  <2> QED
    BY <1>0, <1>5, <2>2, <2>3, <2>5 DEF ChannelInv
<1> QED
  BY <1>1, <1>2, <1>3

LEMMA CopyStep == TypeOK /\ CopyInv /\ [Next]_vars => CopyInv'
<1> SUFFICES ASSUME TypeOK, CopyInv, [Next]_vars, NEW r \in Replies PROVE ChannelInv(r)'
  BY BatchStep DEF CopyInv
<1>1. CASE UNCHANGED vars
  <2>1. ChannelInv(r)
    BY DEF CopyInv
  <2> QED
    BY <1>1, <2>1 DEF vars, ChannelInv, Sound, At, InBatch, Holds
<1> QED
  BY <1>1, ChannelLive, ChannelStart, ChannelWork, ChannelRequest, ChannelMark, ChannelFault DEF Next

LEMMA CopyImplies == TypeOK /\ CopyInv => NoSilentLoss /\ DuplicatesExplained
BY DEF TypeOK, CopyInv, ChannelInv, Sound, NoSilentLoss, DuplicatesExplained

(* A reply that is not in the channel is never recorded as sent, and is
   forgotten only by a failed insertion or a crash. *)
THEOREM NothingIsSilentlyLost == Spec => []NoSilentLoss
BY TypeInit, TypeStep, CopyInit, CopyStep, CopyImplies, PTL DEF Spec

(* A reply is posted twice, by whichever request of whichever send, only if
   a sender could not know that the first copy had arrived, or two sweeps
   held its row at once. *)
THEOREM DuplicatesAreExplained == Spec => []DuplicatesExplained
BY TypeInit, TypeStep, CopyInit, CopyStep, CopyImplies, PTL DEF Spec

-----------------------------------------------------------------------------
(* BudgetExplained.  Without doubt or failure the counts are those of the
   deliveries made: the row's while no sweep has delivered and not yet
   marked it, the snapshot's of the sweep that is yet to deliver it, and one
   less than them once it has. *)
Delivering(s, r) == At(s, "deliver", r) \/ At(s, "markDelivered", r) \/ At(s, "markOutcome", r)

Counted(r) ==
  /\ tries[r] <= MaxAttempts
  /\ row[r].status = "absent" => tries[r] = 0
  /\ row[r].status = "pending" /\ (\A s \in Sweeps : ~ Delivering(s, r)) => row[r].attempts = tries[r]
  /\ \A s \in Sweeps : \A x \in sweep[s].batch : x.reply = r => x.attempts = tries[r]
  /\ \A s \in Sweeps : Delivering(s, r) => sweep[s].record.attempts + 1 = tries[r]

BudgetInv == \A r \in Replies : r \notin doubtful /\ failures + crashes = 0 => Counted(r)

LEMMA BudgetInit == Init => BudgetInv
BY DeliveryAssumption DEF Init, BudgetInv, Counted, Delivering, At, Idle

LEMMA BudgetStep == TypeOK /\ CopyInv /\ BudgetInv /\ [Next]_vars => BudgetInv'
<1> SUFFICES ASSUME TypeOK, CopyInv, BudgetInv, [Next]_vars, NEW r \in Replies,
                    r \notin doubtful', failures' + crashes' = 0
             PROVE  Counted(r)'
  BY DEF BudgetInv
<1>0. /\ failures \in Nat /\ crashes \in Nat /\ tries[r] \in Nat /\ row[r] \in Row
      /\ ChannelInv(r) /\ TypeOK'
      /\ failures' \in Nat /\ crashes' \in Nat
  BY TypeStep, DeliveryAssumption DEF TypeOK, CopyInv
<1>1. /\ \A x \in Replies : ~ EnqueueFails(x)
      /\ \A s \in Sweeps : ~ MarkDeliveredFails(s) /\ ~ SweepFails(s)
      /\ ~ Crash
  BY <1>0 DEF EnqueueFails, MarkDeliveredFails, SweepFails, DbFails, Crash
<1>2. failures + crashes = 0 /\ r \notin doubtful
  <2>1. ASSUME NEW s \in Sweeps, Request(s)
        PROVE  UNCHANGED counters /\ doubtful \subseteq doubtful'
    BY <2>1 DEF Request, Accepted, Errs
  <2> QED
    BY <1>1, <2>1 DEF Next, Send, Accepted, Errs, Skip, Enqueue, BackoffElapses, StartSweep, WorkOn,
       FindNoDeliverer, Deliver, Mark, MarkDelivered, MarkUnsupported, MarkOutcome, vars, counters
<1>3. Counted(r) /\ Sound(r)
  BY <1>0, <1>2 DEF BudgetInv, ChannelInv
<1>4. ASSUME NEW x \in Replies, Send(x) \/ Skip(x) \/ Enqueue(x) \/ BackoffElapses(x)
      PROVE  Counted(r)'
  <2>1. UNCHANGED <<sweep, tries>>
    BY <1>4 DEF Send, Skip, Enqueue, BackoffElapses
  <2>2. \/ row'[r].status = row[r].status /\ row'[r].attempts = row[r].attempts
        \/ row[r].status = "absent" /\ row'[r].status = "pending" /\ row'[r].attempts = 0
    <3>1. CASE Enqueue(x) /\ x = r
      BY <1>0, <3>1, EnqueueRow DEF Enqueue, ChannelInv, TypeOK, Row, Status
    <3> QED
      BY <1>4, <3>1, EnqueueRow, BackoffRow DEF Send, Skip
  <2> QED
    BY <1>3, <2>1, <2>2 DEF Counted, Delivering, At
<1>5. ASSUME NEW s \in Sweeps, StartSweep(s) PROVE Counted(r)'
  <2>1. /\ UNCHANGED <<row, tries>>
        /\ sweep[s].pc = "idle" /\ sweep'[s].pc = "next" /\ sweep'[s].batch = DueForRetry
        /\ \A z \in Sweeps \ {s} : sweep'[z] = sweep[z]
    BY <1>5, StartHolds DEF StartSweep
  <2>2. \A z \in Sweeps : Delivering(z, r)' <=> Delivering(z, r)
    BY <2>1 DEF Delivering, At
  <2>3. ASSUME NEW y \in DueForRetry, y.reply = r PROVE y.attempts = tries[r]
    <3>1. row[r].status = "pending" /\ row[r].attempts = y.attempts
      BY <2>3, SnapshotType
    <3>2. \A z \in Sweeps \ {s} : ~ Holds(z, r)
      BY <1>5, <2>3 DEF StartSweep
    <3>3. \A z \in Sweeps : ~ Delivering(z, r)
      BY <2>1, <3>2, HoldsParts DEF Delivering, At
    <3> QED
      BY <1>3, <3>1, <3>3 DEF Counted
  <2> QED
    BY <1>3, <2>1, <2>2, <2>3 DEF Counted, Delivering, At
<1>6. ASSUME NEW s \in Sweeps, WorkOn(s) PROVE Counted(r)'
  <2>1. PICK x \in sweep[s].batch : FindNoDeliverer(s, x) \/ Deliver(s, x)
    BY <1>6 DEF WorkOn
  <2>2. PICK pc \in SweepPC :
          /\ Take(s, x, pc)
          /\ FindNoDeliverer(s, x) => pc = "markUnsupported"
          /\ Deliver(s, x) => pc = "deliver"
          /\ FindNoDeliverer(s, x) \/ Deliver(s, x)
    <3>1. "markUnsupported" \in SweepPC /\ "deliver" \in SweepPC
      BY DEF SweepPC
    <3>2. CASE FindNoDeliverer(s, x)
      BY <3>1, <3>2 DEF FindNoDeliverer, Deliver
    <3>3. CASE Deliver(s, x)
      BY <3>1, <3>3 DEF FindNoDeliverer, Deliver
    <3> QED
      BY <2>1, <3>2, <3>3
  <2>3. /\ sweep'[s].pc = pc /\ sweep'[s].record = x /\ sweep'[s].batch = sweep[s].batch \ {x}
        /\ \A z \in Sweeps \ {s} : sweep'[z] = sweep[z]
        /\ x \in Snapshot /\ sweep[s].pc = "next" /\ row' = row
    BY <2>1, <2>2, TakeHolds, TakeType DEF FindNoDeliverer, Deliver
  <2>4. CASE x.reply # r
    <3>1. tries'[r] = tries[r]
      BY <2>1, <2>4 DEF FindNoDeliverer, Deliver, TypeOK
    <3>2. \A z \in Sweeps : Delivering(z, r)' <=> Delivering(z, r)
      BY <2>3, <2>4 DEF Delivering, At
    <3> QED
      BY <1>3, <2>3, <2>4, <3>1, <3>2 DEF Counted, Delivering, At
  <2>5. CASE x.reply = r
    <3>1. /\ Holds(s, r) /\ row[r].status # "absent"
          /\ x.attempts = tries[r] /\ x.attempts + 1 <= MaxAttempts
      <4>1. x.attempts \in 0 .. MaxAttempts - 1 /\ x.attempts = tries[r]
        BY <1>3, <2>3, <2>5 DEF Snapshot, Counted
      <4>2. InBatch(s, r) /\ "next" \in SweepPC /\ "markOutcome" \in SweepPC \ {"idle", "next"}
        BY <2>5 DEF InBatch, SweepPC
      <4> QED
        BY <1>0, <4>1, <4>2, HoldsParts, DeliveryAssumption DEF ChannelInv
    <3>2. /\ \A z \in Sweeps \ {s} : ~ InBatch(z, r) /\ ~ Delivering(z, r)
          /\ ~ Delivering(s, r)
      BY <1>3, <2>3, <3>1, HoldsParts DEF Sound, Delivering, At
    <3>3. \A z \in Sweeps : \A y \in sweep'[z].batch : y.reply # r
      BY <2>3, <2>5, <3>2 DEF InBatch, CopyInv, BatchInv
    <3>4. \A z \in Sweeps \ {s} : ~ Delivering(z, r)'
      BY <2>3, <3>2 DEF Delivering, At
    <3>5. CASE FindNoDeliverer(s, x)
      <4>1. tries' = tries /\ ~ Delivering(s, r)'
        BY <2>2, <2>3, <3>5 DEF FindNoDeliverer, Delivering, At
      <4> QED
        BY <1>3, <2>3, <3>2, <3>3, <3>4, <4>1 DEF Counted
    <3>6. CASE Deliver(s, x)
      <4>1. tries'[r] = tries[r] + 1
        BY <2>5, <3>6 DEF Deliver, TypeOK
      <4>2. Delivering(s, r)'
        BY <2>2, <2>3, <2>5, <3>6 DEF Delivering, At
      <4> QED
        BY <1>0, <2>3, <3>1, <3>3, <3>4, <4>1, <4>2 DEF Counted
    <3> QED
      BY <2>1, <3>5, <3>6
  <2> QED
    BY <2>4, <2>5
<1>7. ASSUME NEW s \in Sweeps, Mark(s) PROVE Counted(r)'
  <2>1. Proceed(s) /\ tries' = tries /\ sweep[s].record \in Snapshot
    BY <1>7 DEF Mark, MarkDelivered, MarkUnsupported, MarkOutcome, TypeOK
  <2>2. /\ sweep'[s].pc \in {"idle", "next"} /\ sweep'[s].batch = sweep[s].batch
        /\ \A z \in Sweeps \ {s} : sweep'[z] = sweep[z]
    BY <2>1, ProceedHolds
  <2>3. /\ ~ Delivering(s, r)'
        /\ \A z \in Sweeps \ {s} : Delivering(z, r)' <=> Delivering(z, r)
    BY <2>2 DEF Delivering, At
  <2>4. \/ row'[r].status = "pending" /\ row'[r].attempts = tries[r]
        \/ row'[r].status \in {"delivered", "failed"}
        \/ /\ ~ Delivering(s, r)
           /\ row'[r].status = row[r].status /\ row'[r].attempts = row[r].attempts
    <3>1. CASE MarkDelivered(s) \/ MarkUnsupported(s)
      BY <3>1, MarkRow DEF Delivering, At
    <3>2. CASE MarkOutcome(s) /\ sweep[s].record.reply # r
      BY <3>2, OutcomeRow DEF Delivering, At
    <3>3. CASE MarkOutcome(s) /\ sweep[s].record.reply = r
      <4>1. Delivering(s, r)
        BY <3>3 DEF MarkOutcome, Delivering, At
      <4>2. sweep[s].record.attempts + 1 = tries[r]
        BY <1>3, <4>1 DEF Counted
      <4>3. "markOutcome" \in SweepPC \ {"idle", "next"} /\ At(s, "markOutcome", r)
        BY <3>3 DEF MarkOutcome, At, SweepPC
      <4>4. row[r].status # "absent"
        BY <1>0, <4>3 DEF ChannelInv
      <4> QED
        BY <1>0, <3>3, <4>2, <4>4, OutcomeRow DEF Row, Status
    <3> QED
      BY <1>7, <3>1, <3>2, <3>3 DEF Mark
  <2> QED
    BY <1>3, <2>1, <2>2, <2>3, <2>4 DEF Counted, Delivering, At
<1>8. ASSUME NEW s \in Sweeps, Request(s) PROVE Counted(r)'
  <2>1. /\ UNCHANGED <<row, tries>> /\ \A z \in Sweeps : sweep'[z].batch = sweep[z].batch
        /\ \A z \in Sweeps : sweep'[z].record = sweep[z].record
    BY <1>8, RequestType, RequestPosts
  <2>2. \A z \in Sweeps : Delivering(z, r)' <=> Delivering(z, r)
    BY <1>8, RequestType DEF Delivering, At
  <2> QED
    BY <1>3, <2>1, <2>2 DEF Counted
<1>9. CASE UNCHANGED vars
  BY <1>3, <1>9 DEF vars, Counted, Delivering, At
<1> QED
  BY <1>1, <1>4, <1>5, <1>6, <1>7, <1>8, <1>9 DEF Next

(* A row is delivered more often than MaxAttempts only where two sweeps held
   it, a copy may have arrived unnoticed, or the database failed or the
   process died. *)
THEOREM BudgetIsExplained == Spec => []BudgetExplained
<1>1. TypeOK /\ BudgetInv => BudgetExplained
  <2> SUFFICES ASSUME TypeOK, BudgetInv, NEW r \in Replies, tries[r] > MaxAttempts, r \notin doubtful
               PROVE  failures + crashes > 0
    BY DEF BudgetExplained
  <2>1. failures \in Nat /\ crashes \in Nat /\ tries[r] \in Nat
    BY DeliveryAssumption DEF TypeOK
  <2> QED
    BY <2>1, DeliveryAssumption DEF BudgetInv, Counted
<1> QED
  BY <1>1, TypeInit, TypeStep, CopyInit, CopyStep, BudgetInit, BudgetStep, PTL DEF Spec

-----------------------------------------------------------------------------
(* The promise of ReplyQueue.  Unless r is doubtful, whoever holds it finds
   it pending: it has not been settled yet.  A row without a deliverer may be
   given up twice, but is never delivered. *)
SettledOnce(r) ==
  /\ r \in Undeliverable =>
       /\ row[r].status # "delivered"
       /\ \A s \in Sweeps : /\ ~ At(s, "deliver", r)
                            /\ ~ At(s, "markDelivered", r) /\ ~ At(s, "markOutcome", r)
  /\ r \notin Undeliverable /\ r \notin doubtful =>
       \A s \in Sweeps : Holds(s, r) => row[r].status = "pending"

SettledInv == \A r \in Replies : SettledOnce(r)

QueueInv == TypeOK /\ EarnedInv /\ CopyInv /\ SettledInv

LEMMA SettledInit == Init => SettledInv
BY DEF Init, SettledInv, SettledOnce, Holds, At, Idle

(* Where nothing about r changes but what a sweep has ahead of it. *)
LEMMA SettledKept ==
  ASSUME NEW r \in Replies, SettledOnce(r), row'[r].status = row[r].status,
         r \in doubtful => r \in doubtful',
         \A s \in Sweeps : /\ At(s, "deliver", r)' => Holds(s, r) /\ r \notin Undeliverable
                           /\ At(s, "markDelivered", r)' => Holds(s, r) /\ r \notin Undeliverable
                           /\ At(s, "markOutcome", r)' => Holds(s, r) /\ r \notin Undeliverable
                           /\ InBatch(s, r)' => InBatch(s, r) \/ row[r].status = "pending"
  PROVE  SettledOnce(r)'
BY DEF SettledOnce, Holds, At, InBatch

LEMMA SettledStep == QueueInv /\ [Next]_vars => SettledInv'
<1> SUFFICES ASSUME QueueInv, [Next]_vars, NEW r \in Replies PROVE SettledOnce(r)'
  BY DEF SettledInv
<1>1. /\ TypeOK /\ SettledOnce(r) /\ ChannelInv(r)
      /\ \A s \in Sweeps : BatchInv(s)
      /\ \A s \in Sweeps : sweep[s].pc = "markUnsupported" => sweep[s].record.reply \in Undeliverable
  BY DEF QueueInv, SettledInv, CopyInv, EarnedInv, SnapshotInv
<1> DEFINE Same(s) == sweep'[s] = sweep[s]
<1>2. ASSUME NEW s \in Sweeps, Same(s)
      PROVE  /\ At(s, "deliver", r)' => Holds(s, r) /\ r \notin Undeliverable
             /\ At(s, "markDelivered", r)' => Holds(s, r) /\ r \notin Undeliverable
             /\ At(s, "markOutcome", r)' => Holds(s, r) /\ r \notin Undeliverable
             /\ InBatch(s, r)' => InBatch(s, r)
  BY <1>1, <1>2, HoldsParts DEF At, InBatch, SettledOnce
<1>3. ASSUME NEW x \in Replies, Send(x) \/ Skip(x) \/ BackoffElapses(x) \/ EnqueueFails(x)
      PROVE  SettledOnce(r)'
  <2>1. /\ UNCHANGED sweep /\ doubtful \subseteq doubtful'
        /\ row'[r].status = row[r].status
    BY <1>1, <1>3, BackoffRow DEF Send, Accepted, Errs, Skip, BackoffElapses, EnqueueFails
  <2> QED
    BY <1>1, <1>2, <2>1, SettledKept
<1>4. ASSUME NEW x \in Replies, Enqueue(x) PROVE SettledOnce(r)'
  <2>0. row'[r].status = IF r = x THEN "pending" ELSE row[r].status
    BY <1>1, <1>4, EnqueueRow
  <2>1. UNCHANGED <<sweep, doubtful>> /\ row'[r].status = IF r = x THEN "pending" ELSE row[r].status
    BY <1>4, <2>0 DEF Enqueue
  <2>2. CASE r = x
    BY <1>1, <2>1, <2>2 DEF SettledOnce, At, Holds
  <2>3. CASE r # x
    BY <1>1, <1>2, <2>1, <2>3, SettledKept
  <2> QED
    BY <2>2, <2>3
<1>5. ASSUME NEW s \in Sweeps, StartSweep(s) PROVE SettledOnce(r)'
  <2>1. UNCHANGED row /\ doubtful \subseteq doubtful'
    BY <1>5 DEF StartSweep
  <2>2. InBatch(s, r)' => row[r].status = "pending"
    BY <1>1, <1>5, StartHolds, SnapshotType DEF InBatch
  <2>3. ~ At(s, "deliver", r)' /\ ~ At(s, "markDelivered", r)' /\ ~ At(s, "markOutcome", r)'
    BY <1>1, <1>5, StartHolds DEF At
  <2>4. \A z \in Sweeps \ {s} : Same(z)
    BY <1>1, <1>5, StartHolds
  <2> QED
    BY <1>1, <1>2, <2>1, <2>2, <2>3, <2>4, SettledKept
<1>6. ASSUME NEW s \in Sweeps, WorkOn(s) PROVE SettledOnce(r)'
  <2>1. PICK x \in sweep[s].batch : FindNoDeliverer(s, x) \/ Deliver(s, x)
    BY <1>6 DEF WorkOn
  <2>2. PICK pc \in {"deliver", "markUnsupported"} :
          Take(s, x, pc) /\ (pc # "markUnsupported" => x.reply \notin Undeliverable)
    BY <2>1 DEF FindNoDeliverer, Deliver
  <2>3. /\ sweep'[s].pc = pc /\ sweep'[s].record = x /\ sweep'[s].batch = sweep[s].batch \ {x}
        /\ \A z \in Sweeps \ {s} : Same(z)
    BY <1>1, <2>2, TakeHolds DEF SweepPC
  <2>4. UNCHANGED row /\ doubtful \subseteq doubtful'
    BY <2>1 DEF FindNoDeliverer, Deliver
  <2>5. /\ At(s, "deliver", r)' => Holds(s, r) /\ r \notin Undeliverable
        /\ At(s, "markDelivered", r)' => Holds(s, r) /\ r \notin Undeliverable
        /\ At(s, "markOutcome", r)' => Holds(s, r) /\ r \notin Undeliverable
        /\ InBatch(s, r)' => InBatch(s, r)
    BY <2>2, <2>3, HoldsParts DEF At, InBatch
  <2> QED
    BY <1>1, <1>2, <2>3, <2>4, <2>5, SettledKept
<1>7. ASSUME NEW s \in Sweeps, Mark(s) PROVE SettledOnce(r)'
  <2>1. Proceed(s) /\ UNCHANGED doubtful
    BY <1>7 DEF Mark, MarkDelivered, MarkUnsupported, MarkOutcome
  <2>2. /\ sweep'[s].pc \in {"idle", "next"} /\ sweep'[s].batch = sweep[s].batch
        /\ \A z \in Sweeps \ {s} : Same(z)
    BY <1>1, <2>1, ProceedHolds
  <2>3. /\ ~ At(s, "deliver", r)' /\ ~ At(s, "markDelivered", r)' /\ ~ At(s, "markOutcome", r)'
        /\ InBatch(s, r)' => InBatch(s, r)
    BY <2>2 DEF At, InBatch
  <2>4. sweep[s].record.reply # r => row'[r].status = row[r].status
    BY <1>1, <1>7, MarkRow, OutcomeRow DEF Mark
  <2>5. CASE sweep[s].record.reply # r
    BY <1>1, <1>2, <2>1, <2>2, <2>3, <2>4, <2>5, SettledKept
  <2>6. CASE sweep[s].record.reply = r /\ sweep[s].pc = "markUnsupported"
    <3>1. r \in Undeliverable /\ row'[r].status = "failed"
      BY <1>1, <1>7, <2>6, MarkRow DEF Mark, MarkDelivered, MarkUnsupported, MarkOutcome
    <3>2. \A z \in Sweeps : /\ ~ At(z, "deliver", r)'
                            /\ ~ At(z, "markDelivered", r)' /\ ~ At(z, "markOutcome", r)'
      BY <1>1, <2>2, <2>3, <3>1 DEF SettledOnce, At
    <3> QED
      BY <3>1, <3>2 DEF SettledOnce
  <2>7. CASE At(s, "markDelivered", r) \/ At(s, "markOutcome", r)
    <3>1. r \notin Undeliverable /\ Holds(s, r)
      BY <1>1, <2>7, HoldsParts DEF SettledOnce
    <3>2. ~ InBatch(s, r)'
      <4>1. {"markDelivered", "markOutcome"} \subseteq SweepPC \ {"idle", "next"}
        BY DEF SweepPC
      <4> QED
        BY <1>1, <2>3, <2>7, <4>1 DEF BatchInv
    <3>3. ASSUME r \notin doubtful, NEW z \in Sweeps PROVE ~ Holds(z, r)'
      <4>1. CASE z = s
        BY <2>3, <3>2, <4>1 DEF Holds, At, InBatch
      <4>2. CASE z # s
        <5>1. ~ Holds(z, r)
          BY <1>1, <3>1, <3>3, <4>2 DEF ChannelInv, Sound
        <5> QED
          BY <2>2, <4>2, <5>1 DEF Holds
      <4> QED
        BY <4>1, <4>2
    <3> QED
      BY <2>1, <3>1, <3>3 DEF SettledOnce
  <2> QED
    BY <1>7, <2>5, <2>6, <2>7 DEF Mark, MarkDelivered, MarkUnsupported, MarkOutcome, At
<1>8. ASSUME NEW s \in Sweeps, MarkDeliveredFails(s) \/ SweepFails(s) PROVE SettledOnce(r)'
  <2>1. UNCHANGED row /\ doubtful \subseteq doubtful' /\ \A z \in Sweeps \ {s} : Same(z)
    BY <1>1, <1>8, FailHolds DEF MarkDeliveredFails, SweepFails
  <2>2. /\ At(s, "deliver", r)' => Holds(s, r) /\ r \notin Undeliverable
        /\ At(s, "markDelivered", r)' => Holds(s, r) /\ r \notin Undeliverable
        /\ At(s, "markOutcome", r)' => Holds(s, r) /\ r \notin Undeliverable
        /\ InBatch(s, r)' => InBatch(s, r)
    BY <1>1, <1>8, FailHolds, HoldsParts DEF At, InBatch, SettledOnce, MarkDeliveredFails
  <2> QED
    BY <1>1, <1>2, <2>1, <2>2, SettledKept
<1>9. CASE Crash
  <2>1. UNCHANGED row /\ doubtful \subseteq doubtful'
    BY <1>9 DEF Crash
  <2>2. \A z \in Sweeps : sweep'[z].pc = "idle" /\ sweep'[z].batch = {}
    BY <1>9 DEF Crash, Idle
  <2> QED
    BY <1>1, <2>1, <2>2, SettledKept DEF At, InBatch
<1>10. ASSUME NEW s \in Sweeps, Request(s) PROVE SettledOnce(r)'
  <2>1. UNCHANGED row /\ doubtful \subseteq doubtful' /\ \A z \in Sweeps \ {s} : Same(z)
    BY <1>1, <1>10, RequestType, RequestPosts
  <2>2. /\ sweep[s].pc = "deliver" /\ sweep'[s].record = sweep[s].record
        /\ sweep'[s].batch = sweep[s].batch
    BY <1>1, <1>10, RequestType
  <2>3. /\ At(s, "deliver", r)' => At(s, "deliver", r)
        /\ At(s, "markDelivered", r)' => At(s, "deliver", r)
        /\ At(s, "markOutcome", r)' => At(s, "deliver", r)
        /\ InBatch(s, r)' => InBatch(s, r)
    BY <2>2 DEF At, InBatch
  <2>4. At(s, "deliver", r) => Holds(s, r) /\ r \notin Undeliverable
    BY <1>1, HoldsParts DEF SettledOnce
  <2> QED
    BY <1>1, <1>2, <2>1, <2>3, <2>4, SettledKept
<1>11. CASE UNCHANGED vars
  BY <1>1, <1>11 DEF vars, SettledOnce, At, Holds
<1> QED
  BY <1>3, <1>4, <1>5, <1>6, <1>7, <1>8, <1>9, <1>10, <1>11 DEF Next

-----------------------------------------------------------------------------
(* Every step is one of ReplyQueue's or changes nothing it sees. *)
fates == [r \in Replies |-> Fate(r)]
promised == <<fates, posted, doubtful>>

LEMMA FateOf == \A r \in Replies : fates[r] = Fate(r)
BY DEF fates

(* What has become of a reply is up to its row once it has one, and to the
   live send before that. *)
LEMMA FateByRow ==
  ASSUME NEW r \in Replies, ChannelInv(r), row[r] \in Row
  PROVE  /\ live[r] = "queued" =>
              Fate(r) = IF row[r].status = "pending" THEN "owed"
                        ELSE IF row[r].status = "delivered" THEN "delivered" ELSE "given up"
         /\ live[r] \in {"new", "enqueue"} => Fate(r) = "owed"
BY DEF ChannelInv, Row, Status, Fate

(* A reply some sweep holds is owed, unless it is doubtful. *)
LEMMA HeldIsOwed ==
  ASSUME QueueInv, NEW s \in Sweeps, NEW r \in Replies, Holds(s, r)
  PROVE  /\ live[r] = "queued" /\ row[r].status # "absent"
         /\ r \notin Undeliverable /\ r \notin doubtful => Fate(r) = "owed"
<1>1. ChannelInv(r) /\ row[r] \in Row /\ SettledOnce(r)
  BY DEF QueueInv, CopyInv, SettledInv, TypeOK
<1>2. "markDelivered" \in SweepPC \ {"idle", "next"} /\ "markOutcome" \in SweepPC \ {"idle", "next"}
      /\ "deliver" \in SweepPC \ {"idle", "next"}
  BY DEF SweepPC
<1>3. live[r] = "queued" /\ row[r].status # "absent"
  BY <1>1, <1>2, HoldsParts DEF ChannelInv
<1> QED
  BY <1>1, <1>3, FateByRow DEF SettledOnce

(* Where the fate of one reply changes at most. *)
LEMMA OneFate ==
  ASSUME NEW x \in Replies, \A r \in Replies : r # x => Fate(r)' = Fate(r)
  PROVE  fates' = [fates EXCEPT ![x] = Fate(x)']
BY DEF fates

LEMMA SameFates ==
  ASSUME \A r \in Replies : Fate(r)' = Fate(r)
  PROVE  UNCHANGED fates
BY DEF fates

LEMMA PromiseInit == Init => Promise!Init
BY DEF Init, Promise!Init, Fate

LEMMA SettleIsKept ==
  ASSUME NEW x \in Replies, \A r \in Replies : r # x => Fate(r)' = Fate(r),
         Fate(x) = "owed" \/ x \in doubtful,
         \/ Fate(x)' = "delivered" /\ posted[x] > 0
         \/ Fate(x)' = "given up" /\ (posted[x] = 0 \/ x \in doubtful),
         UNCHANGED <<posted, doubtful>>
  PROVE  Promise!Next
<1>1. fates' = [fates EXCEPT ![x] = Fate(x)']
  BY OneFate
<1>2. Promise!Settle(x)
  BY <1>1 DEF Promise!Settle, Promise!Owed, fates
<1> QED
  BY <1>2 DEF Promise!Next

LEMMA PostIsKept ==
  ASSUME NEW x \in Replies, \A r \in Replies : Fate(r)' = Fate(r),
         (Fate(x) = "owed" /\ posted[x] = 0) \/ x \in doubtful,
         posted' = [posted EXCEPT ![x] = @ + 1],
         doubtful' = doubtful \/ doubtful' = doubtful \cup {x}
  PROVE  Promise!Next
<1>1. UNCHANGED fates
  BY SameFates
<1>2. Promise!Post(x)
  BY <1>1 DEF Promise!Post, Promise!Owed, fates
<1> QED
  BY <1>2 DEF Promise!Next

LEMMA DoubtIsKept ==
  ASSUME \A r \in Replies : Fate(r)' = Fate(r), doubtful' \subseteq Replies, doubtful \subseteq doubtful',
         \A r \in Replies : r \in doubtful' => r \in doubtful \/ Fate(r) = "owed",
         UNCHANGED posted
  PROVE  Promise!Next
<1>1. UNCHANGED fates
  BY SameFates
<1> DEFINE S == doubtful' \ doubtful
           losable == {r \in Promise!Owed : posted[r] = 0 \/ r \in doubtful}
<1>2. S \in SUBSET Promise!Owed /\ doubtful' = doubtful \cup S
  BY DEF Promise!Owed, fates
<1>3. fates' = [r \in Replies |-> IF r \in {} THEN "given up" ELSE fates[r]]
  BY <1>1 DEF fates
<1> HIDE DEF losable
<1>4. \E gone \in SUBSET losable :
        fates' = [r \in Replies |-> IF r \in gone THEN "given up" ELSE fates[r]]
  <2> WITNESS {} \in SUBSET losable
  <2> QED
    BY <1>3
<1>5. \E T \in SUBSET Promise!Owed : doubtful' = doubtful \cup T
  BY <1>2
<1>6. Promise!Confuse
  BY <1>4, <1>5 DEF Promise!Confuse, fates, losable
<1> QED
  BY <1>6 DEF Promise!Next

(* The live send. *)
LEMMA LiveKeepsPromise ==
  ASSUME QueueInv, NEW x \in Replies,
         Send(x) \/ Skip(x) \/ Enqueue(x) \/ BackoffElapses(x) \/ EnqueueFails(x)
  PROVE  Promise!Next \/ UNCHANGED promised
<1>1. /\ TypeOK /\ ChannelInv(x) /\ row[x] \in Row /\ posted[x] \in Nat
      /\ live \in [Replies -> {"new", "enqueue", "sent", "queued", "skipped", "lost"}]
  BY DEF QueueInv, CopyInv, TypeOK
<1>2. ASSUME live[x] \in {"new", "enqueue"}
      PROVE  Fate(x) = "owed" /\ row[x].status = "absent" /\ (posted[x] = 0 \/ x \in doubtful)
  BY <1>1, <1>2, FateByRow DEF ChannelInv, Sound
<1>3. ASSUME UNCHANGED row, NEW l, live' = [live EXCEPT ![x] = l]
      PROVE  live'[x] = l /\ \A r \in Replies : r # x => Fate(r)' = Fate(r)
  BY <1>1, <1>3 DEF Fate
<1>4. CASE Send(x)
  <2>1. live[x] = "new" /\ UNCHANGED row
    BY <1>4 DEF Send
  <2>2. CASE Errs(x) /\ (live' = live \/ live' = [live EXCEPT ![x] = "enqueue"])
    <3>1. \A r \in Replies : Fate(r)' = Fate(r)
      <4>1. live'[x] \in {"new", "enqueue"} /\ \A r \in Replies : r # x => Fate(r)' = Fate(r)
        <5>1. CASE live' = live
          BY <2>1, <5>1 DEF Fate
        <5>2. CASE live' = [live EXCEPT ![x] = "enqueue"]
          BY <1>3, <2>1, <5>2
        <5> QED
          BY <2>2, <5>1, <5>2
      <4>2. row'[x].status = "absent" /\ Fate(x) = "owed"
        BY <1>2, <2>1
      <4>3. Fate(x)' = "owed"
        BY <4>1, <4>2 DEF Fate
      <4> QED
        BY <4>1, <4>2, <4>3
    <3>2. \/ UNCHANGED <<posted, doubtful>>
          \/ posted' = [posted EXCEPT ![x] = @ + 1] /\ doubtful' = doubtful \cup {x}
      BY <2>2 DEF Errs
    <3>3. CASE UNCHANGED <<posted, doubtful>>
      BY <3>1, <3>3, SameFates DEF promised
    <3>4. CASE posted' = [posted EXCEPT ![x] = @ + 1] /\ doubtful' = doubtful \cup {x}
      BY <1>2, <2>1, <3>1, <3>4, PostIsKept
    <3> QED
      BY <3>2, <3>3, <3>4
  <2>3. CASE live' = [live EXCEPT ![x] = "sent"] /\ posted' = [posted EXCEPT ![x] = @ + 1]
             /\ UNCHANGED doubtful
    <3>1. Fate(x)' = "delivered"
      BY <1>1, <2>3 DEF Fate
    <3>2. fates' = [fates EXCEPT ![x] = "delivered"]
      BY <1>3, <2>1, <2>3, <3>1, OneFate
    <3>3. Fate(x) = "owed" /\ (posted[x] = 0 \/ x \in doubtful)
      BY <1>2, <2>1
    <3>4. Promise!Post(x)
      BY <2>3, <3>2, <3>3 DEF Promise!Post, Promise!Owed, fates
    <3> QED
      BY <3>4 DEF Promise!Next
  <2> QED
    BY <1>4, <2>2, <2>3 DEF Send, Accepted
<1>5. CASE Skip(x) \/ EnqueueFails(x)
  <2>1. /\ live[x] \in {"new", "enqueue"} /\ UNCHANGED <<row, posted, doubtful>>
        /\ \E l \in {"skipped", "lost"} : live' = [live EXCEPT ![x] = l]
    BY <1>5 DEF Skip, EnqueueFails
  <2>2. live'[x] \in {"skipped", "lost"} /\ \A r \in Replies : r # x => Fate(r)' = Fate(r)
    BY <1>3, <2>1
  <2>3. row'[x].status = "absent" /\ Fate(x) = "owed" /\ (posted[x] = 0 \/ x \in doubtful)
    BY <1>2, <2>1
  <2>4. Fate(x)' = "given up"
    BY <2>2, <2>3 DEF Fate
  <2> QED
    BY <2>1, <2>2, <2>3, <2>4, SettleIsKept
<1>6. CASE Enqueue(x)
  <2>1. /\ live[x] = "enqueue" /\ live' = [live EXCEPT ![x] = "queued"]
        /\ UNCHANGED <<posted, doubtful>>
    BY <1>6 DEF Enqueue
  <2>2. \A r \in Replies : IF r = x THEN row'[r].status = "pending" ELSE row'[r] = row[r]
    BY <1>1, <1>6, EnqueueRow
  <2>3. Fate(x)' = "owed" /\ Fate(x) = "owed"
    BY <1>1, <1>2, <2>1, <2>2 DEF Fate
  <2>4. ASSUME NEW r \in Replies, r # x PROVE Fate(r)' = Fate(r)
    BY <1>1, <2>1, <2>2, <2>4 DEF Fate
  <2>5. \A r \in Replies : Fate(r)' = Fate(r)
    BY <2>3, <2>4
  <2> QED
    BY <2>1, <2>5, SameFates DEF promised
<1>7. CASE BackoffElapses(x)
  <2>1. \A r \in Replies : row'[r].status = row[r].status
    BY <1>1, <1>7, BackoffRow
  <2>2. UNCHANGED <<live, posted, doubtful>>
    BY <1>7 DEF BackoffElapses
  <2>3. \A r \in Replies : Fate(r)' = Fate(r)
    BY <2>1, <2>2 DEF Fate
  <2> QED
    BY <2>2, <2>3, SameFates DEF promised
<1> QED
  BY <1>4, <1>5, <1>6, <1>7

(* A sweep begins, turns to its records and has them delivered. *)
LEMMA SweepKeepsPromise ==
  ASSUME QueueInv, NEW s \in Sweeps, StartSweep(s) \/ WorkOn(s) \/ Request(s)
  PROVE  Promise!Next \/ UNCHANGED promised
<1>1. TypeOK
  BY DEF QueueInv
<1>2. \A r \in Replies : ChannelInv(r) /\ row[r] \in Row /\ posted[r] \in Nat
  BY DEF QueueInv, CopyInv, TypeOK
<1>3. UNCHANGED <<live, row>>
  BY DEF StartSweep, WorkOn, FindNoDeliverer, Deliver, Request
<1>4. \A r \in Replies : Fate(r)' = Fate(r)
  BY <1>3 DEF Fate
<1>5. CASE StartSweep(s)
  <2>1. doubtful' \subseteq doubtful \cup {y.reply : y \in DueForRetry}
    BY <1>5 DEF StartSweep
  <2>2. \A y \in DueForRetry : y.reply \in Replies /\ Fate(y.reply) = "owed"
    <3> TAKE y \in DueForRetry
    <3>1. y.reply \in Replies /\ row[y.reply].status = "pending"
      BY <1>1, SnapshotType DEF Snapshot
    <3>2. ChannelInv(y.reply) /\ row[y.reply] \in Row
      BY <1>2, <3>1
    <3>3. live[y.reply] = "queued"
      BY <3>1, <3>2 DEF ChannelInv
    <3> QED
      BY <3>1, <3>2, <3>3, FateByRow
  <2>3. UNCHANGED posted /\ doubtful \subseteq doubtful' /\ doubtful \subseteq Replies
    BY <1>1, <1>5 DEF StartSweep, TypeOK
  <2> QED
    BY <1>4, <2>1, <2>2, <2>3, DoubtIsKept
<1>6. CASE WorkOn(s)
  <2>1. UNCHANGED <<posted, doubtful>>
    BY <1>6 DEF WorkOn, FindNoDeliverer, Deliver
  <2> QED
    BY <1>4, <2>1, SameFates DEF promised
<1>7. CASE Request(s)
  <2>1. PICK x \in Replies : x = sweep[s].record.reply
    BY <1>1, <1>7, RequestType DEF Snapshot
  <2>2. At(s, "deliver", x) /\ Holds(s, x)
    BY <1>7, <2>1, HoldsParts DEF Request, At
  <2>3. x \notin Undeliverable
    BY <2>2 DEF QueueInv, SettledInv, SettledOnce
  <2>4. \/ Fate(x) = "owed" /\ posted[x] = 0
        \/ x \in doubtful
    <3> SUFFICES ASSUME x \notin doubtful
                 PROVE  Fate(x) = "owed" /\ posted[x] = 0
      OBVIOUS
    <3>1. Fate(x) = "owed" /\ live[x] = "queued"
      BY <2>1, <2>2, <2>3, HeldIsOwed
    <3>2. Sound(x) /\ posted[x] \in Nat
      BY <1>2, <2>1 DEF ChannelInv
    <3> QED
      BY <2>2, <3>1, <3>2 DEF Sound
  <2>5. \/ UNCHANGED <<posted, doubtful>>
        \/ /\ posted' = [posted EXCEPT ![x] = @ + 1]
           /\ doubtful' = doubtful \/ doubtful' = doubtful \cup {x}
    BY <1>1, <1>7, <2>1, RequestPosts
  <2>6. CASE UNCHANGED <<posted, doubtful>>
    BY <1>4, <2>6, SameFates DEF promised
  <2> QED
    BY <1>4, <2>1, <2>4, <2>5, <2>6, PostIsKept
<1> QED
  BY <1>5, <1>6, <1>7

(* A sweep records what has become of a reply. *)
LEMMA MarkKeepsPromise ==
  ASSUME QueueInv, NEW s \in Sweeps, Mark(s)
  PROVE  Promise!Next \/ UNCHANGED promised
<1>0. TypeOK
  BY DEF QueueInv
<1>1. sweep[s].pc \in {"markDelivered", "markOutcome", "markUnsupported"}
      /\ UNCHANGED <<live, posted, doubtful>>
  BY DEF Mark, MarkDelivered, MarkUnsupported, MarkOutcome
<1>2. PICK x \in Replies : x = sweep[s].record.reply
  BY <1>0, <1>1 DEF TypeOK, Snapshot
<1>3. /\ ChannelInv(x) /\ SettledOnce(x) /\ row[x] \in Row /\ posted[x] \in Nat
      /\ sweep[s].pc = "markUnsupported" => x \in Undeliverable
  BY <1>2 DEF QueueInv, CopyInv, SettledInv, EarnedInv, SnapshotInv, TypeOK
<1>4. \A r \in Replies : r # x => row'[r].status = row[r].status
  BY <1>0, <1>2, MarkRow, OutcomeRow DEF Mark
<1>5. \A r \in Replies : r # x => Fate(r)' = Fate(r)
  BY <1>1, <1>4 DEF Fate
<1>6. live[x] = "queued" /\ row[x].status # "absent"
  <2>1. {"markDelivered", "markOutcome", "markUnsupported"} \subseteq SweepPC \ {"idle", "next"}
    BY DEF SweepPC
  <2> QED
    BY <1>1, <1>2, <1>3, <2>1 DEF ChannelInv, At
<1>7. CASE MarkDelivered(s)
  <2>1. At(s, "markDelivered", x)
    BY <1>2, <1>7 DEF MarkDelivered, At
  <2>2. posted[x] > 0 /\ (Fate(x) = "owed" \/ x \in doubtful)
    BY <1>2, <1>3, <2>1, HoldsParts, HeldIsOwed DEF ChannelInv, SettledOnce
  <2>3. row'[x].status = "delivered"
    BY <1>0, <1>2, <1>7, MarkRow
  <2>4. Fate(x)' = "delivered"
    BY <2>3 DEF Fate
  <2> QED
    BY <1>1, <1>2, <1>5, <2>2, <2>4, SettleIsKept
<1>8. CASE MarkOutcome(s)
  <2>1. At(s, "markOutcome", x)
    BY <1>2, <1>8 DEF MarkOutcome, At
  <2>2. Fate(x) = "owed" \/ x \in doubtful
    BY <1>2, <1>3, <2>1, HoldsParts, HeldIsOwed DEF SettledOnce
  <2>3. posted[x] = 0 \/ x \in doubtful
    BY <1>3, <1>6, <2>1 DEF ChannelInv, Sound
  <2>4. row'[x].status \in {"failed", row[x].status}
    BY <1>0, <1>2, <1>8, OutcomeRow
  <2>5. CASE row'[x].status = "failed"
    <3>1. Fate(x)' = "given up"
      BY <1>1, <1>6, <2>5 DEF Fate
    <3> QED
      BY <1>1, <1>2, <1>5, <2>2, <2>3, <3>1, SettleIsKept
  <2>6. CASE row'[x].status = row[x].status
    <3>1. Fate(x)' = Fate(x)
      BY <1>1, <2>6 DEF Fate
    <3> QED
      BY <1>1, <1>5, <3>1, SameFates DEF promised
  <2> QED
    BY <2>4, <2>5, <2>6
<1>9. CASE MarkUnsupported(s)
  <2>1. x \in Undeliverable
    BY <1>3, <1>9 DEF MarkUnsupported
  <2>2. row'[x].status = "failed"
    <3>1. ~ MarkDelivered(s)
      BY <1>9 DEF MarkDelivered, MarkUnsupported
    <3> QED
      BY <1>0, <1>2, <1>9, <3>1, MarkRow
  <2>3. Fate(x)' = "given up"
    BY <1>1, <1>6, <2>2 DEF Fate
  <2>4. CASE row[x].status = "pending"
    <3>1. Fate(x) = "owed"
      BY <1>3, <1>6, <2>4, FateByRow, <1>2
    <3>2. posted[x] = 0 \/ x \in doubtful
      BY <1>3, <1>6, <2>1, <2>4 DEF ChannelInv, Sound, SettledOnce
    <3> QED
      BY <1>1, <1>2, <1>5, <2>3, <3>1, <3>2, SettleIsKept
  <2>5. CASE row[x].status # "pending"
    <3>1. Fate(x) = "given up"
      BY <1>2, <1>3, <1>6, <2>1, <2>5, FateByRow DEF SettledOnce
    <3> QED
      BY <1>1, <1>5, <2>3, <3>1, SameFates DEF promised
  <2> QED
    BY <2>4, <2>5
<1> QED
  BY <1>7, <1>8, <1>9 DEF Mark

(* The database fails a sweep, or the process dies. *)
LEMMA FaultKeepsPromise ==
  ASSUME QueueInv, Crash \/ \E s \in Sweeps : MarkDeliveredFails(s) \/ SweepFails(s)
  PROVE  Promise!Next \/ UNCHANGED promised
<1>1. /\ TypeOK /\ live \in [Replies -> {"new", "enqueue", "sent", "queued", "skipped", "lost"}]
      /\ doubtful \subseteq Replies
      /\ \A r \in Replies : ChannelInv(r) /\ SettledOnce(r) /\ row[r] \in Row /\ posted[r] \in Nat
  BY DEF QueueInv, CopyInv, SettledInv, TypeOK
<1>2. ASSUME NEW s \in Sweeps, sweep[s].pc = "markDelivered"
      PROVE  /\ sweep[s].record.reply \in Replies
             /\ sweep[s].record.reply \in doubtful \/ Fate(sweep[s].record.reply) = "owed"
  <2>1. sweep[s].record.reply \in Replies
    BY <1>1, <1>2 DEF TypeOK, Snapshot
  <2>2. At(s, "markDelivered", sweep[s].record.reply)
    BY <1>2 DEF At
  <2> QED
    BY <1>1, <2>1, <2>2, HoldsParts, HeldIsOwed DEF SettledOnce
<1>3. ASSUME NEW s \in Sweeps, SweepFails(s) PROVE UNCHANGED promised
  <2>1. UNCHANGED <<live, row, posted, doubtful>>
    BY <1>3 DEF SweepFails
  <2>2. \A r \in Replies : Fate(r)' = Fate(r)
    BY <2>1 DEF Fate
  <2> QED
    BY <2>1, <2>2, SameFates DEF promised
<1>4. ASSUME NEW s \in Sweeps, MarkDeliveredFails(s) PROVE Promise!Next
  <2>1. /\ UNCHANGED <<live, row, posted>> /\ sweep[s].pc = "markDelivered"
        /\ doubtful' = doubtful \cup {sweep[s].record.reply}
    BY <1>4 DEF MarkDeliveredFails
  <2>2. \A r \in Replies : Fate(r)' = Fate(r)
    BY <2>1 DEF Fate
  <2> QED
    BY <1>1, <1>2, <2>1, <2>2, DoubtIsKept
<1>5. CASE Crash
  <2> DEFINE lost == {r \in Replies : live[r] \in {"new", "enqueue"}}
             new == {r \in Replies : \E s \in Sweeps : sweep[s].pc = "markDelivered"
                                                       /\ sweep[s].record.reply = r} \ doubtful
  <2>1. /\ UNCHANGED <<row, posted>> /\ doubtful' = doubtful \cup new
        /\ \A r \in Replies : live'[r] = IF r \in lost THEN "lost" ELSE live[r]
    BY <1>5 DEF Crash
  <2>2. ASSUME NEW r \in new PROVE r \in Replies /\ Fate(r) = "owed"
    BY <1>2
  <2>3. ASSUME NEW r \in lost
        PROVE  /\ r \in Replies /\ Fate(r) = "owed" /\ Fate(r)' = "given up"
               /\ posted[r] = 0 \/ r \in doubtful
    <3>1. r \in Replies /\ live[r] \in {"new", "enqueue"} /\ ChannelInv(r) /\ row[r] \in Row
      BY <1>1
    <3>2. live'[r] = "lost"
      BY <2>1, <3>1
    <3>3. row'[r].status = "absent" /\ (posted[r] = 0 \/ r \in doubtful)
      BY <2>1, <3>1 DEF ChannelInv, Sound, Row, Status
    <3>4. Fate(r)' = "given up"
      BY <3>2, <3>3 DEF Fate
    <3> QED
      BY <3>1, <3>3, <3>4, FateByRow
  <2>4. ASSUME NEW r \in Replies \ lost PROVE Fate(r)' = Fate(r)
    BY <2>1, <2>4 DEF Fate
  <2> DEFINE losable == {r \in Promise!Owed : posted[r] = 0 \/ r \in doubtful}
  <2>5. new \in SUBSET Promise!Owed /\ lost \in SUBSET losable
    BY <2>2, <2>3 DEF Promise!Owed
  <2>6. fates' = [r \in Replies |-> IF r \in lost THEN "given up" ELSE fates[r]]
    BY <2>3, <2>4 DEF fates
  <2> HIDE DEF lost, new, losable
  <2>7. \E S \in SUBSET Promise!Owed : doubtful' = doubtful \cup S
    BY <2>1, <2>5
  <2>8. \E gone \in SUBSET losable :
          fates' = [r \in Replies |-> IF r \in gone THEN "given up" ELSE fates[r]]
    BY <2>5, <2>6
  <2>9. Promise!Confuse
    BY <2>1, <2>7, <2>8 DEF Promise!Confuse, fates, losable
  <2> QED
    BY <2>9 DEF Promise!Next
<1> QED
  BY <1>3, <1>4, <1>5

LEMMA QueueInvariant == Spec => []QueueInv
<1>1. Init => QueueInv
  BY TypeInit, EarnedInit, CopyInit, SettledInit DEF QueueInv
<1>2. QueueInv /\ [Next]_vars => QueueInv'
  BY TypeStep, EarnedStep, CopyStep, SettledStep DEF QueueInv
<1> QED
  BY <1>1, <1>2, PTL DEF Spec

(* With any number of sweeps over the rows of any replies, every reply is
   settled once and posted once, whoever gets to it first, and never owed
   again, unless it came in doubt while it was still owed. *)
THEOREM DeliveryKeepsThePromise == Spec => ImplementsReplyQueue
<1>1. QueueInv /\ [Next]_vars =>
        [Promise!Next]_<<[r \in Replies |-> Fate(r)], posted, doubtful>>
  <2> SUFFICES ASSUME QueueInv, [Next]_vars PROVE Promise!Next \/ UNCHANGED promised
    BY DEF promised, fates
  <2>1. CASE UNCHANGED vars
    <3>1. \A r \in Replies : Fate(r)' = Fate(r)
      BY <2>1 DEF vars, Fate
    <3> QED
      BY <2>1, <3>1, SameFates DEF promised, vars
  <2> QED
    BY <2>1, LiveKeepsPromise, SweepKeepsPromise, MarkKeepsPromise, FaultKeepsPromise DEF Next
<1> QED
  BY <1>1, QueueInvariant, PromiseInit, PTL DEF Spec, ImplementsReplyQueue, Promise!Spec
==================================================================================
