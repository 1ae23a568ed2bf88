----------------------------- MODULE Ingress_proofs -----------------------------
(***************************************************************************)
(* Proofs about Ingress, for any deliveries, calls, memories and limits:   *)
(* no message is processed again while its id is remembered, what is lost  *)
(* is lost for a reason, the bot stays quiet, limits hold, and the module  *)
(* implements AtMostOnce.                                                  *)
(***************************************************************************)
EXTENDS Ingress, FiniteSetTheorems, SequenceTheorems, TLAPS

-----------------------------------------------------------------------------
(* The bounded memories. *)

LEMMA RememberType ==
  ASSUME NEW S, NEW s \in Seq(S), NEW bound \in Nat \ {0}, Len(s) <= bound,
         NEW id \in S \cup {None}
  PROVE  Remember(s, id, bound) \in Seq(S) /\ Len(Remember(s, id, bound)) <= bound
<1>1. CASE id = None \/ id \in Elements(s)
  BY <1>1 DEF Remember
<1>2. CASE ~(id = None \/ id \in Elements(s)) /\ Len(s) < bound
  BY <1>2, AppendProperties DEF Remember
<1>3. CASE ~(id = None \/ id \in Elements(s)) /\ ~(Len(s) < bound)
  <2>1. s # <<>> /\ Len(s) = bound
    BY <1>3, EmptySeq, LenProperties
  <2>2. Tail(s) \in Seq(S) /\ Len(Tail(s)) = Len(s) - 1
    BY <2>1, HeadTailProperties
  <2>3. Append(Tail(s), id) \in Seq(S) /\ Len(Append(Tail(s), id)) = Len(s)
    BY <2>2, <1>3, AppendProperties, LenProperties
  <2> QED
    BY <1>3, <2>1, <2>3 DEF Remember
<1> QED
  BY <1>1, <1>2, <1>3

LEMMA ElementsType ==
  ASSUME NEW S, NEW s \in Seq(S)
  PROVE  Elements(s) \subseteq S
BY DEF Elements

LEMMA AppendElements ==
  ASSUME NEW S, NEW s \in Seq(S), NEW x \in S
  PROVE  Elements(Append(s, x)) = Elements(s) \cup {x}
<1>1. /\ Append(s, x) \in Seq(S) /\ Len(Append(s, x)) = Len(s) + 1
      /\ \A i \in 1 .. Len(s) : Append(s, x)[i] = s[i]
      /\ Append(s, x)[Len(s) + 1] = x
  BY AppendProperties
<1>2. DOMAIN Append(s, x) = 1 .. Len(s) + 1 /\ DOMAIN s = 1 .. Len(s) /\ Len(s) \in Nat
  BY <1>1, LenProperties
<1>3. ASSUME NEW y \in Elements(Append(s, x)) PROVE y \in Elements(s) \cup {x}
  <2> PICK i \in 1 .. Len(s) + 1 : y = Append(s, x)[i]
    BY <1>2 DEF Elements
  <2>1. CASE i = Len(s) + 1
    BY <2>1, <1>1
  <2>2. CASE i \in 1 .. Len(s)
    BY <2>2, <1>1, <1>2 DEF Elements
  <2> QED
    BY <2>1, <2>2, <1>2
<1>4. ASSUME NEW y \in Elements(s) PROVE y \in Elements(Append(s, x))
  <2> PICK i \in 1 .. Len(s) : y = s[i]
    BY <1>2 DEF Elements
  <2> QED
    BY <1>1, <1>2 DEF Elements
<1>5. x \in Elements(Append(s, x))
  BY <1>1, <1>2 DEF Elements
<1> QED
  BY <1>3, <1>4, <1>5

LEMMA TailElements ==
  ASSUME NEW S, NEW s \in Seq(S), s # <<>>
  PROVE  Elements(Tail(s)) \subseteq Elements(s)
<1>1. /\ Tail(s) \in Seq(S) /\ Len(Tail(s)) = Len(s) - 1
      /\ \A i \in 1 .. Len(Tail(s)) : Tail(s)[i] = s[i + 1]
  BY HeadTailProperties
<1>2. DOMAIN Tail(s) = 1 .. Len(s) - 1 /\ DOMAIN s = 1 .. Len(s) /\ Len(s) \in Nat
  BY <1>1, LenProperties
<1> QED
  BY <1>1, <1>2 DEF Elements

(* Remembering an id keeps it, and adds nothing else. *)
LEMMA RememberElements ==
  ASSUME NEW S, NEW s \in Seq(S), NEW bound \in Nat \ {0}, Len(s) <= bound,
         NEW id \in S, id # None
  PROVE  /\ id \in Elements(Remember(s, id, bound))
         /\ Elements(Remember(s, id, bound)) \subseteq Elements(s) \cup {id}
<1>1. CASE id \in Elements(s)
  BY <1>1 DEF Remember
<1>2. CASE id \notin Elements(s) /\ Len(s) < bound
  BY <1>2, AppendElements DEF Remember
<1>3. CASE id \notin Elements(s) /\ ~(Len(s) < bound)
  <2>1. s # <<>>
    BY <1>3, EmptySeq, LenProperties
  <2>2. Tail(s) \in Seq(S)
    BY <2>1, HeadTailProperties
  <2>3. Elements(Append(Tail(s), id)) = Elements(Tail(s)) \cup {id}
    BY <2>2, AppendElements
  <2> QED
    BY <1>3, <2>1, <2>3, TailElements DEF Remember
<1> QED
  BY <1>1, <1>2, <1>3

-----------------------------------------------------------------------------
(* The limiters. *)

LEMMA ExpiredCount ==
  ASSUME NEW times \in Seq(Nat), NEW window \in Nat, NEW now \in Nat
  PROVE  /\ IsFiniteSet(Expired(times, window, now))
         /\ Cardinality(Expired(times, window, now)) \in 0 .. Len(times)
<1>1. Len(times) \in Nat /\ DOMAIN times = 1 .. Len(times)
  BY LenProperties
<1>2. IsFiniteSet(1 .. Len(times)) /\ Cardinality(1 .. Len(times)) = Len(times)
  BY <1>1, FS_Interval
<1>3. Expired(times, window, now) \in SUBSET (1 .. Len(times))
  BY <1>1 DEF Expired
<1>4. /\ IsFiniteSet(Expired(times, window, now))
      /\ Cardinality(Expired(times, window, now)) <= Len(times)
  BY <1>2, <1>3, FS_Subset
<1> QED
  BY <1>1, <1>4, FS_CardinalityType

LEMMA LiveType ==
  ASSUME NEW times \in Seq(Nat), NEW policy \in Policies, NEW now \in Nat
  PROVE  /\ Live(times, policy, now) \in Seq(Nat)
         /\ Len(Live(times, policy, now)) =
              Len(times) - Cardinality(Expired(times, policy.window, now))
         /\ \A i \in 1 .. Len(Live(times, policy, now)) :
              Live(times, policy, now)[i] =
                times[Cardinality(Expired(times, policy.window, now)) + i]
<1> DEFINE gone == Cardinality(Expired(times, policy.window, now))
<1>1. policy.window \in Nat
  BY DEF Policies
<1>2. gone \in 0 .. Len(times) /\ Len(times) \in Nat
  BY <1>1, ExpiredCount, LenProperties
<1> HIDE DEF gone
<1>3. /\ SubSeq(times, gone + 1, Len(times)) \in Seq(Nat)
      /\ Len(SubSeq(times, gone + 1, Len(times))) =
           IF gone + 1 <= Len(times) THEN Len(times) - (gone + 1) + 1 ELSE 0
      /\ \A i \in 1 .. Len(times) - (gone + 1) + 1 :
           SubSeq(times, gone + 1, Len(times))[i] = times[(gone + 1) + i - 1]
  BY <1>2, SubSeqProperties
<1>4. Len(SubSeq(times, gone + 1, Len(times))) = Len(times) - gone
  BY <1>2, <1>3
<1>5. \A i \in 1 .. Len(times) - gone :
        SubSeq(times, gone + 1, Len(times))[i] = times[gone + i]
  BY <1>2, <1>3
<1> QED
  BY <1>3, <1>4, <1>5 DEF Live, gone

LEMMA RecordedType ==
  ASSUME NEW Keys, NEW limiter \in Limiters(Keys), NEW policy \in Policies,
         NEW key \in Keys, NEW now \in Nat
  PROVE  /\ Recorded(limiter, policy, key, now) \in Limiters(Keys)
         /\ Len(limiter.order) <= Len(Recorded(limiter, policy, key, now).order)
<1>1. limiter.order \in Seq(Keys) /\ limiter.hits \in [Keys -> Seq(Nat)]
  BY DEF Limiters
<1>2. Live(limiter.hits[key], policy, now) \in Seq(Nat)
  BY <1>1, LiveType
<1>3. Append(Live(limiter.hits[key], policy, now), now) \in Seq(Nat)
  BY <1>2, AppendProperties
<1>4. Append(limiter.order, key) \in Seq(Keys) /\ Len(Append(limiter.order, key)) = Len(limiter.order) + 1
  BY <1>1, AppendProperties
<1>5. Len(limiter.order) \in Nat
  BY <1>1, LenProperties
<1> QED
  BY <1>1, <1>3, <1>4, <1>5 DEF Recorded, Limiters

LEMMA CheckedType ==
  ASSUME NEW Keys, NEW limiter \in Limiters(Keys), NEW policy \in Policies,
         NEW key \in Keys, NEW now \in Nat
  PROVE  Checked(limiter, policy, key, now) \in Limiters(Keys)
<1> DEFINE recorded == Recorded(limiter, policy, key, now)
<1>1. recorded \in Limiters(Keys)
  BY RecordedType
<1>2. Live(limiter.hits[key], policy, now) \in Seq(Nat)
  BY LiveType DEF Limiters
<1>3. [limiter EXCEPT !.hits[key] = Live(@, policy, now)] \in Limiters(Keys)
  BY <1>2 DEF Limiters
<1>4. ASSUME Len(recorded.order) > MaxTrackedKeys PROVE Evicted(recorded) \in Limiters(Keys)
  <2> HIDE DEF recorded
  <2>1. recorded.order \in Seq(Keys) /\ recorded.hits \in [Keys -> Seq(Nat)]
    BY <1>1 DEF Limiters
  <2>2. recorded.order # <<>>
    BY <2>1, <1>4, TrackedKeysAssumption, EmptySeq, LenProperties
  <2>3. Head(recorded.order) \in Keys /\ Tail(recorded.order) \in Seq(Keys)
    BY <2>1, <2>2, HeadTailProperties
  <2>4. <<>> \in Seq(Nat)
    BY EmptySeq
  <2> QED
    BY <2>1, <2>3, <2>4 DEF Evicted, Limiters
<1> HIDE DEF recorded
<1>5. Checked(limiter, policy, key, now) =
        IF Allowed(limiter, policy, key, now)
          THEN IF Len(recorded.order) > MaxTrackedKeys THEN Evicted(recorded) ELSE recorded
          ELSE [limiter EXCEPT !.hits[key] = Live(@, policy, now)]
  BY DEF Checked, recorded
<1> QED
  BY <1>1, <1>3, <1>4, <1>5

-----------------------------------------------------------------------------
(* What a call's record is. *)

LEMMA RecordType ==
  ASSUME TypeOK, NEW c \in Calls, pos[c] \in DOMAIN delivery[c].records
  PROVE  Record(c) \in Records /\ Message(c) \in Messages \cup {None}
<1>1. delivery[c] \in Deliveries
  BY IngressAssumption DEF TypeOK
<1>2. delivery[c].records \in Seq(Records)
  BY <1>1 DEF Deliveries
<1>3. delivery[c].records[pos[c]] \in Records
  BY <1>2
<1> QED
  BY <1>3 DEF Record, Message, Records

LEMMA BusyMessage ==
  ASSUME TypeOK, NEW c \in Calls, pc[c] \in Checks \cup {"publish", "turn"}
  PROVE  /\ Message(c) \in Messages
         /\ Actor(c) \in Actors
         /\ Thread[Message(c)] \in Threads
<1>1. pos[c] \in DOMAIN delivery[c].records /\ Record(c).message # None
  BY DEF TypeOK
<1>2. Message(c) \in Messages
  BY <1>1, RecordType DEF Message
<1> QED
  BY <1>2, IngressAssumption DEF Actor

LEMMA SeenType ==
  ASSUME TypeOK, NEW c \in Calls, AtRecord(c)
  PROVE  SeenAfter(c) \in Seq(Events \cup Messages) /\ Len(SeenAfter(c)) <= MaxSeen
<1> DEFINE ids == Events \cup Messages
           one == Remember(seen, Record(c).event, MaxSeen)
<1>1. Record(c).event \in ids \cup {None} /\ Message(c) \in ids \cup {None}
  BY RecordType DEF AtRecord, Records
<1>2. seen \in Seq(ids) /\ Len(seen) <= MaxSeen /\ MaxSeen \in Nat \ {0}
  BY IngressAssumption DEF TypeOK
<1> HIDE DEF ids
<1>3. one \in Seq(ids) /\ Len(one) <= MaxSeen
  BY <1>1, <1>2, RememberType
<1> HIDE DEF one
<1>4. Remember(one, Message(c), MaxSeen) \in Seq(ids) /\ Len(Remember(one, Message(c), MaxSeen)) <= MaxSeen
  BY <1>1, <1>2, <1>3, RememberType
<1> QED
  BY <1>2, <1>4 DEF SeenAfter, one, ids

LEMMA DedupType ==
  ASSUME TypeOK, NEW c \in Calls, AtRecord(c), Reaches(c)
  PROVE  /\ Message(c) \in Messages
         /\ Remember(dedup, Message(c), MaxDedup) \in Seq(Messages)
         /\ Len(Remember(dedup, Message(c), MaxDedup)) <= MaxDedup
<1>1. Message(c) \in Messages
  BY RecordType DEF AtRecord, Reaches
<1> QED
  BY <1>1, RememberType, IngressAssumption DEF TypeOK

-----------------------------------------------------------------------------
(* Types.  One step per group of variables an action may change. *)

LEMMA FreshType ==
  ASSUME NEW Keys
  PROVE  Fresh(Keys) \in Limiters(Keys)
BY EmptySeq DEF Fresh, Limiters

LEMMA InitType == Init => TypeOK
<1> SUFFICES ASSUME Init PROVE TypeOK
  OBVIOUS
<1>1. /\ seen \in Seq(Events \cup Messages) /\ Len(seen) <= MaxSeen
      /\ dedup \in Seq(Messages) /\ Len(dedup) <= MaxDedup
  BY EmptySeq, IngressAssumption DEF Init
<1>2. /\ httpLimiter \in [Routes -> Limiters(Clients)]
      /\ actorLimiter \in Limiters(Actors)
      /\ threadLimiter \in Limiters(Threads)
  BY FreshType DEF Init
<1>3. admitted \in [Actors -> Seq(Nat)]
  BY EmptySeq DEF Init
<1>4. /\ pc \in [Calls -> PC] /\ delivery \in Plans /\ pos \in [Calls -> Nat \ {0}]
      /\ accepted \in [Calls -> Nat] /\ answer \in [Calls -> Answers]
      /\ \A c \in Calls : pc[c] = "idle"
  BY DEF Init, PC, Answers, Outcomes
<1>5. \A c \in Calls : pc[c] \notin Checks \cup {"publish", "turn"}
  BY <1>4 DEF Checks
<1>6. /\ stored \in [Messages -> Nat] /\ published \in [Messages -> Nat]
      /\ forgotten \in [Messages -> Nat] /\ reasons \in [Messages -> SUBSET Reasons]
      /\ bot \in BOOLEAN /\ early \subseteq Calls
  BY DEF Init
<1>7. clock \in 0 .. MaxClock /\ failures \in 0 .. MaxDbFailures /\ crashes \in 0 .. MaxCrashes
  BY IngressAssumption DEF Init
<1> QED
  BY <1>1, <1>2, <1>3, <1>4, <1>5, <1>6, <1>7 DEF TypeOK

(* The state of the calls: what TypeOK says of them, on its own. *)
CallsOK ==
  /\ pc \in [Calls -> PC]
  /\ delivery \in Plans
  /\ \A c \in Calls : pc[c] \in Checks \cup {"publish", "turn"} =>
       pos[c] \in DOMAIN delivery[c].records /\ Record(c).message # None
  /\ pos \in [Calls -> Nat \ {0}] /\ accepted \in [Calls -> Nat]
  /\ answer \in [Calls -> Answers]

(* A call that moves to a label without a record at hand keeps the others. *)
LEMMA CallMoves ==
  ASSUME TypeOK, NEW c \in Calls, NEW label \in PC, Goto(c, label),
         UNCHANGED delivery,
         \A d \in Calls : d # c => pos'[d] = pos[d],
         pos' \in [Calls -> Nat \ {0}],
         label \in Checks \cup {"publish", "turn"} =>
           /\ pos'[c] = pos[c] /\ pos[c] \in DOMAIN delivery[c].records
           /\ Message(c) # None,
         accepted' \in [Calls -> Nat], answer' \in [Calls -> Answers]
  PROVE  CallsOK'
<1>1. pc' \in [Calls -> PC] /\ pc'[c] = label /\ \A d \in Calls : d # c => pc'[d] = pc[d]
  BY DEF TypeOK, Goto
<1>2. ASSUME NEW d \in Calls, pc'[d] \in Checks \cup {"publish", "turn"}
      PROVE  pos'[d] \in DOMAIN delivery'[d].records /\ Record(d)'.message # None
  <2>1. CASE d = c
    BY <1>1, <1>2, <2>1 DEF Record, Message
  <2>2. CASE d # c
    BY <1>1, <1>2, <2>2 DEF TypeOK, Record
  <2> QED
    BY <2>1, <2>2
<1> QED
  BY <1>1, <1>2 DEF CallsOK, TypeOK

MemoryOK ==
  /\ seen \in Seq(Events \cup Messages) /\ Len(seen) <= MaxSeen
  /\ dedup \in Seq(Messages) /\ Len(dedup) <= MaxDedup

LimitersOK ==
  /\ httpLimiter \in [Routes -> Limiters(Clients)]
  /\ actorLimiter \in Limiters(Actors)
  /\ threadLimiter \in Limiters(Threads)

RestOK ==
  /\ bot \in BOOLEAN
  /\ stored \in [Messages -> Nat] /\ published \in [Messages -> Nat]
  /\ clock \in 0 .. MaxClock
  /\ failures \in 0 .. MaxDbFailures /\ crashes \in 0 .. MaxCrashes
  /\ forgotten \in [Messages -> Nat]
  /\ reasons \in [Messages -> SUBSET Reasons]
  /\ early \subseteq Calls
  /\ admitted \in [Actors -> Seq(Nat)]

LEMMA TypeParts == TypeOK <=> MemoryOK /\ LimitersOK /\ CallsOK /\ RestOK
BY DEF TypeOK, MemoryOK, LimitersOK, CallsOK, RestOK

(* The call of the action gets an answer and no record is at hand. *)
LEMMA CallReturns ==
  ASSUME TypeOK, NEW c \in Calls, NEW outcome \in Answers, Return(c, outcome), UNCHANGED delivery
  PROVE  CallsOK'
<1>1. Goto(c, "answered") /\ "answered" \in PC /\ "answered" \notin Checks \cup {"publish", "turn"}
  BY DEF Return, PC, Checks
<1>2. /\ pos' \in [Calls -> Nat \ {0}] /\ \A d \in Calls : d # c => pos'[d] = pos[d]
      /\ accepted' \in [Calls -> Nat] /\ answer' \in [Calls -> Answers]
  BY DEF Return, TypeOK
<1> QED
  BY <1>1, <1>2, CallMoves

LEMMA CallContinues ==
  ASSUME TypeOK, NEW c \in Calls, Continue(c), UNCHANGED <<delivery, answer>>,
         accepted' \in [Calls -> Nat]
  PROVE  CallsOK'
<1>1. Goto(c, "next") /\ "next" \in PC /\ "next" \notin Checks \cup {"publish", "turn"}
  BY DEF Continue, PC, Checks
<1>2. /\ pos' \in [Calls -> Nat \ {0}] /\ \A d \in Calls : d # c => pos'[d] = pos[d]
      /\ answer' \in [Calls -> Answers]
  BY DEF Continue, TypeOK
<1> QED
  BY <1>1, <1>2, CallMoves

(* The call goes on with the record it has. *)
LEMMA CallGoesOn ==
  ASSUME TypeOK, NEW c \in Calls, NEW label \in PC, Goto(c, label),
         UNCHANGED <<delivery, pos, accepted>>, answer' \in [Calls -> Answers],
         \/ label \notin Checks \cup {"publish", "turn"}
         \/ pc[c] \in Checks \cup {"publish", "turn"}
         \/ AtRecord(c) /\ Message(c) # None
  PROVE  CallsOK'
<1>1. label \in Checks \cup {"publish", "turn"} =>
        pos[c] \in DOMAIN delivery[c].records /\ Message(c) # None
  BY DEF TypeOK, AtRecord, Message
<1> QED
  BY <1>1, CallMoves DEF TypeOK

LEMMA LostType ==
  ASSUME reasons \in [Messages -> SUBSET Reasons], NEW m \in Messages, NEW reason \in Reasons,
         Lost(m, reason) \/ UNCHANGED reasons
  PROVE  reasons' \in [Messages -> SUBSET Reasons]
<1>1. reasons[m] \cup {reason} \in SUBSET Reasons
  OBVIOUS
<1>2. CASE Lost(m, reason)
  BY <1>1, <1>2 DEF Lost
<1>3. CASE UNCHANGED reasons
  BY <1>3
<1> QED
  BY <1>2, <1>3

LEMMA TypeStep == TypeOK /\ [Next]_vars => TypeOK'
<1> SUFFICES ASSUME TypeOK, [Next]_vars PROVE MemoryOK' /\ LimitersOK' /\ CallsOK' /\ RestOK'
  BY TypeParts DEF TypeOK, MemoryOK, LimitersOK, CallsOK, RestOK
<1>0. MemoryOK /\ LimitersOK /\ CallsOK /\ RestOK
  BY TypeParts
<1> USE IngressAssumption
<1>1. ASSUME NEW c \in Calls, Arrive(c) PROVE MemoryOK' /\ LimitersOK' /\ CallsOK' /\ RestOK'
  <2> DEFINE path == delivery[c].path
  <2>1. MemoryOK' /\ RestOK'
    BY <1>0, <1>1 DEF Arrive, MemoryOK, RestOK, memory, rows, counters, history
  <2>2. path \in Routes /\ httpLimiter[path] \in Limiters(Clients) /\ Client[c] \in Clients
        /\ HttpPolicy \in Policies /\ clock \in Nat
    BY <1>0, <1>1 DEF Arrive, LimitersOK, RestOK
  <2>3. Checked(httpLimiter[path], HttpPolicy, Client[c], clock) \in Limiters(Clients)
    BY <2>2, CheckedType
  <2>4. LimitersOK'
    BY <1>0, <1>1, <2>2, <2>3 DEF Arrive, LimitersOK
  <2>5. \E label \in {"reading", "answered"} : Goto(c, label)
    BY <1>1 DEF Arrive
  <2>6. answer' \in [Calls -> Answers]
    BY <1>0, <1>1 DEF Arrive, CallsOK, Answers, Outcomes
  <2>7. CallsOK'
    BY <1>1, <2>5, <2>6, CallGoesOn DEF Arrive, PC, Checks
  <2> QED
    BY <2>1, <2>4, <2>7
<1>2. ASSUME NEW c \in Calls, Poll(c) PROVE MemoryOK' /\ LimitersOK' /\ CallsOK' /\ RestOK'
  <2>1. MemoryOK' /\ RestOK' /\ LimitersOK'
    BY <1>0, <1>2 DEF Poll, MemoryOK, RestOK, LimitersOK, memory, limiters, rows, counters, history
  <2>2. CallsOK'
    BY <1>0, <1>2, CallGoesOn DEF Poll, PC, Checks, CallsOK
  <2> QED
    BY <2>1, <2>2
<1>3. ASSUME NEW c \in Calls, Verify(c) PROVE MemoryOK' /\ LimitersOK' /\ CallsOK' /\ RestOK'
  <2>1. MemoryOK' /\ RestOK' /\ LimitersOK'
    BY <1>0, <1>3 DEF Verify, MemoryOK, RestOK, LimitersOK, memory, limiters, rows, counters, history
  <2>2. \E label \in {"next", "answered"} : Goto(c, label)
    BY <1>3 DEF Verify
  <2>3. answer' \in [Calls -> Answers]
    BY <1>0, <1>3 DEF Verify, CallsOK, Answers, Outcomes
  <2>4. CallsOK'
    BY <1>3, <2>2, <2>3, CallGoesOn DEF Verify, PC, Checks
  <2> QED
    BY <2>1, <2>4
<1>4. ASSUME NEW c \in Calls, Ignore(c) PROVE MemoryOK' /\ LimitersOK' /\ CallsOK' /\ RestOK'
  <2>1. MemoryOK'
    BY <1>0, <1>4, SeenType DEF Ignore, MemoryOK
  <2>2. RestOK' /\ LimitersOK'
    BY <1>0, <1>4 DEF Ignore, RestOK, LimitersOK, limiters, rows, counters, history
  <2>3. CallsOK'
    BY <1>0, <1>4, CallContinues DEF Ignore, CallsOK
  <2> QED
    BY <2>1, <2>2, <2>3
<1>5. ASSUME NEW c \in Calls, Ingest(c) PROVE MemoryOK' /\ LimitersOK' /\ CallsOK' /\ RestOK'
  <2>1. AtRecord(c) /\ Reaches(c) /\ seen' = SeenAfter(c) /\ dedup' = Remember(dedup, Message(c), MaxDedup)
    BY <1>5 DEF Ingest
  <2>2. MemoryOK'
    BY <2>1, SeenType, DedupType DEF MemoryOK
  <2>3. LimitersOK'
    BY <1>0, <1>5 DEF Ingest, LimitersOK, limiters
  <2>4. forgotten' \in [Messages -> Nat]
    BY <1>0, <1>5 DEF Ingest, RestOK
  <2>5. RestOK'
    BY <1>0, <1>5, <2>4 DEF Ingest, RestOK, rows, counters
  <2>6. CASE Continue(c)
    BY <1>0, <1>5, <2>6, CallContinues, <2>2, <2>3, <2>5 DEF Ingest, CallsOK
  <2>7. CASE Goto(c, "isSelf") /\ UNCHANGED pos
    <3>1. CallsOK'
      BY <1>0, <1>5, <2>1, <2>7, CallGoesOn DEF Ingest, CallsOK, PC, Checks, Reaches
    <3> QED
      BY <3>1, <2>2, <2>3, <2>5
  <2> QED
    BY <1>5, <2>6, <2>7 DEF Ingest
<1>6. ASSUME NEW c \in Calls, CheckSelf(c) PROVE MemoryOK' /\ LimitersOK' /\ CallsOK' /\ RestOK'
  <2>1. MemoryOK' /\ LimitersOK'
    BY <1>0, <1>6 DEF CheckSelf, MemoryOK, LimitersOK, memory, limiters
  <2>2. reasons' \in [Messages -> SUBSET Reasons]
    BY <1>0, <1>6, BusyMessage, LostType DEF CheckSelf, RestOK, Reasons, Checks
  <2>3. RestOK'
    BY <1>0, <1>6, <2>2 DEF CheckSelf, RestOK, rows, counters
  <2>4. CASE Continue(c)
    BY <1>0, <1>6, <2>4, CallContinues, <2>1, <2>3 DEF CheckSelf, CallsOK
  <2>5. CASE Goto(c, "resolve") /\ UNCHANGED pos
    <3>1. CallsOK'
      BY <1>0, <1>6, <2>5, CallGoesOn DEF CheckSelf, CallsOK, PC, Checks
    <3> QED
      BY <3>1, <2>1, <2>3
  <2> QED
    BY <1>6, <2>4, <2>5 DEF CheckSelf
<1>7. ASSUME NEW c \in Calls, Admit(c) PROVE MemoryOK' /\ LimitersOK' /\ CallsOK' /\ RestOK'
  <2>1. Message(c) \in Messages /\ Actor(c) \in Actors /\ Thread[Message(c)] \in Threads
    BY <1>7, BusyMessage DEF Admit, Checks
  <2>2. clock \in Nat /\ ActorPolicy \in Policies /\ ThreadPolicy \in Policies
    BY <1>0 DEF RestOK
  <2>3. MemoryOK'
    BY <1>0, <1>7 DEF Admit, MemoryOK, memory
  <2>4. actorLimiter' \in Limiters(Actors)
    BY <1>0, <1>7, <2>1, <2>2, CheckedType DEF Admit, LimitersOK
  <2>5. threadLimiter' \in Limiters(Threads)
    BY <1>0, <1>7, <2>1, <2>2, CheckedType DEF Admit, LimitersOK
  <2>6. LimitersOK'
    BY <1>0, <1>7, <2>4, <2>5 DEF Admit, LimitersOK
  <2>7. admitted' \in [Actors -> Seq(Nat)]
    <3>1. \A a \in Actors : /\ admitted[a] \in Seq(Nat)
                            /\ Append(admitted[a], clock) \in Seq(Nat)
                            /\ <<>> \in Seq(Nat)
      BY <1>0, <2>2, EmptySeq, AppendProperties DEF RestOK
    <3> QED
      BY <1>7, <3>1 DEF Admit
  <2>8. reasons' \in [Messages -> SUBSET Reasons]
    BY <1>0, <1>7, <2>1, LostType DEF Admit, RestOK, Reasons
  <2>9. RestOK'
    BY <1>0, <1>7, <2>7, <2>8 DEF Admit, RestOK, rows, counters
  <2>10. CASE Continue(c)
    BY <1>0, <1>7, <2>10, CallContinues, <2>3, <2>6, <2>9 DEF Admit, CallsOK
  <2>11. CASE Goto(c, "persist") /\ UNCHANGED pos
    <3>1. CallsOK'
      BY <1>0, <1>7, <2>11, CallGoesOn DEF Admit, CallsOK, PC, Checks
    <3> QED
      BY <3>1, <2>3, <2>6, <2>9
  <2> QED
    BY <1>7, <2>10, <2>11 DEF Admit
<1>8. ASSUME NEW c \in Calls, Persist(c) \/ Publish(c)
      PROVE MemoryOK' /\ LimitersOK' /\ CallsOK' /\ RestOK'
  <2>1. MemoryOK' /\ LimitersOK'
    BY <1>0, <1>8 DEF Persist, Publish, MemoryOK, LimitersOK, memory, limiters
  <2>2. RestOK'
    <3>1. Message(c) \in Messages
      BY <1>8, BusyMessage DEF Persist, Publish, Checks
    <3>2. stored' \in [Messages -> Nat] /\ published' \in [Messages -> Nat]
      <4>1. [stored EXCEPT ![Message(c)] = @ + 1] \in [Messages -> Nat]
        BY <1>0, <3>1 DEF RestOK
      <4>2. [published EXCEPT ![Message(c)] = @ + 1] \in [Messages -> Nat]
        BY <1>0, <3>1 DEF RestOK
      <4>3. CASE Persist(c)
        BY <1>0, <4>1, <4>3 DEF Persist, RestOK
      <4>4. CASE Publish(c)
        BY <1>0, <4>2, <4>4 DEF Publish, RestOK
      <4> QED
        BY <1>8, <4>3, <4>4
    <3> QED
      BY <1>0, <1>8, <3>2 DEF Persist, Publish, RestOK, counters, history
  <2>3. \E label \in {"publish", "turn"} : Goto(c, label)
    BY <1>8 DEF Persist, Publish
  <2>4. CallsOK'
    BY <1>0, <1>8, <2>3, CallGoesOn DEF Persist, Publish, CallsOK, PC, Checks
  <2> QED
    BY <2>1, <2>2, <2>4
<1>9. ASSUME NEW c \in Calls, TurnEnds(c) PROVE MemoryOK' /\ LimitersOK' /\ CallsOK' /\ RestOK'
  <2>1. MemoryOK' /\ LimitersOK' /\ RestOK'
    BY <1>0, <1>9 DEF TurnEnds, MemoryOK, LimitersOK, RestOK, memory, limiters, rows, counters, history
  <2>2. accepted' \in [Calls -> Nat]
    BY <1>0, <1>9 DEF TurnEnds, CallsOK
  <2>3. CallsOK'
    BY <1>9, <2>2, CallContinues DEF TurnEnds
  <2> QED
    BY <2>1, <2>3
<1>10. ASSUME NEW c \in Calls, Answer(c) PROVE MemoryOK' /\ LimitersOK' /\ CallsOK' /\ RestOK'
  <2>1. MemoryOK' /\ LimitersOK' /\ RestOK'
    BY <1>0, <1>10 DEF Answer, MemoryOK, LimitersOK, RestOK, memory, limiters, rows, counters, history
  <2>2. CallsOK'
    BY <1>10, CallReturns DEF Answer, Answers, Outcomes
  <2> QED
    BY <2>1, <2>2
<1>11. ASSUME NEW c \in Calls, Fail(c) PROVE MemoryOK' /\ LimitersOK' /\ CallsOK' /\ RestOK'
  <2>1. MemoryOK' /\ LimitersOK'
    BY <1>0, <1>11 DEF Fail, MemoryOK, LimitersOK, memory, limiters
  <2>2. CallsOK'
    BY <1>11, CallReturns DEF Fail, Answers, Outcomes
  <2>3. reasons' \in [Messages -> SUBSET Reasons]
    BY <1>0, <1>11, BusyMessage, LostType DEF Fail, RestOK, Reasons
  <2>4. stored' \in [Messages -> Nat]
    <3>1. Message(c) \in Messages
      BY <1>11, BusyMessage DEF Fail
    <3>2. [stored EXCEPT ![Message(c)] = @ + 1] \in [Messages -> Nat]
      BY <1>0, <3>1 DEF RestOK
    <3> QED
      BY <1>0, <1>11, <3>2 DEF Fail, RestOK
  <2>5. failures' \in 0 .. MaxDbFailures
    BY <1>0, <1>11 DEF Fail, RestOK
  <2>6. RestOK'
    BY <1>0, <1>11, <2>3, <2>4, <2>5 DEF Fail, RestOK
  <2> QED
    BY <2>1, <2>2, <2>6
<1>12. CASE SeedBot
  BY <1>0, <1>12 DEF SeedBot, MemoryOK, LimitersOK, CallsOK, RestOK, memory, limiters, calls, counters,
     Record
<1>13. CASE Tick
  BY <1>0, <1>13 DEF Tick, MemoryOK, LimitersOK, CallsOK, RestOK, memory, limiters, rows, calls, history,
     Record
<1>14. CASE Crash
  <2>1. MemoryOK'
    BY <1>14, EmptySeq DEF Crash, MemoryOK
  <2>2. LimitersOK'
    BY <1>14, FreshType DEF Crash, LimitersOK
  <2>3. pc' \in [Calls -> PC] /\ \A c \in Calls : pc'[c] \in {"idle", "answered", "aborted"}
    BY <1>14 DEF Crash, PC
  <2>4. \A c \in Calls : pc'[c] \notin Checks \cup {"publish", "turn"}
    BY <2>3 DEF Checks
  <2>5. CallsOK'
    BY <1>0, <1>14, <2>3, <2>4 DEF Crash, CallsOK
  <2>6. forgotten' \in [Messages -> Nat] /\ reasons' \in [Messages -> SUBSET Reasons]
    <3>1. forgotten' \in [Messages -> Nat]
      BY <1>0, <1>14 DEF Crash, RestOK
    <3>2. \A m \in Messages : reasons[m] \in SUBSET Reasons /\ reasons[m] \cup {"crash"} \in SUBSET Reasons
      BY <1>0 DEF RestOK, Reasons
    <3>3. reasons' = [m \in Messages |->
             IF Holding(m) # {} THEN reasons[m] \cup {"crash"} ELSE reasons[m]]
      BY <1>14 DEF Crash
    <3> QED
      BY <3>1, <3>2, <3>3
  <2>7. admitted' \in [Actors -> Seq(Nat)]
    BY <1>14, EmptySeq DEF Crash
  <2>8. RestOK'
    <3>1. crashes' \in 0 .. MaxCrashes
      BY <1>0, <1>14 DEF Crash, RestOK
    <3> QED
      BY <1>0, <1>14, <2>6, <2>7, <3>1 DEF Crash, RestOK, rows
  <2> QED
    BY <2>1, <2>2, <2>5, <2>8
<1>15. CASE UNCHANGED vars
  BY <1>0, <1>15 DEF vars, MemoryOK, LimitersOK, CallsOK, RestOK, memory, limiters, rows, calls, counters,
     history, Record
<1> QED
  BY <1>1, <1>2, <1>3, <1>4, <1>5, <1>6, <1>7, <1>8, <1>9, <1>10, <1>11, <1>12, <1>13, <1>14,
     <1>15 DEF Next, Deliver

(* Every reachable state is well typed: no step of any call leaves the
   memories, the limiters or a handler's position in its batch out of range. *)
THEOREM TypeCorrect == Spec => []TypeOK
BY InitType, TypeStep, PTL DEF Spec
-----------------------------------------------------------------------------
(* Steps of one call. *)

LEMMA FiniteCalls == \A S \in SUBSET Calls : IsFiniteSet(S) /\ Cardinality(S) \in Nat
<1> TAKE S \in SUBSET Calls
<1>1. IsFiniteSet(S)
  BY IngressAssumption, FS_Subset
<1> QED
  BY <1>1, FS_CardinalityType

(* A step of a call leaves the other calls where they are. *)
OthersStay(c) ==
  /\ UNCHANGED delivery
  /\ \A d \in Calls : d # c => pc'[d] = pc[d] /\ pos'[d] = pos[d]

LEMMA DeliverFrame ==
  ASSUME TypeOK, NEW c \in Calls, Deliver(c)
  PROVE  /\ OthersStay(c)
         /\ \A d \in Calls : d # c => Message(d)' = Message(d)
         /\ UNCHANGED <<clock, crashes, bot, early>>
<1>1. \A label \in PC : Goto(c, label) => \A d \in Calls : d # c => pc'[d] = pc[d]
  BY DEF Goto, TypeOK
<1>2. Continue(c) => /\ Goto(c, "next")
                     /\ \A d \in Calls : d # c => pos'[d] = pos[d]
  BY DEF Continue, TypeOK
<1>3. ASSUME NEW outcome, Return(c, outcome)
      PROVE  Goto(c, "answered") /\ \A d \in Calls : d # c => pos'[d] = pos[d]
  BY <1>3 DEF Return, TypeOK
<1>4. {"idle", "reading", "next", "publish", "turn", "answered", "isSelf", "resolve", "persist"} \subseteq PC
  BY DEF PC, Checks
<1>5. OthersStay(c) /\ UNCHANGED <<clock, crashes, bot, early>>
  <2>1. CASE Arrive(c)
    BY <1>1, <1>4, <2>1 DEF Arrive, OthersStay, counters, rows, history
  <2>2. CASE Poll(c)
    BY <1>1, <1>4, <2>2 DEF Poll, OthersStay, counters, rows, history
  <2>3. CASE Verify(c)
    BY <1>1, <1>4, <2>3 DEF Verify, OthersStay, counters, rows, history
  <2>4. CASE Ignore(c)
    BY <1>1, <1>2, <1>4, <2>4 DEF Ignore, OthersStay, counters, rows, history
  <2>5. CASE Ingest(c)
    BY <1>1, <1>2, <1>4, <2>5 DEF Ingest, OthersStay, counters, rows
  <2>6. CASE CheckSelf(c)
    BY <1>1, <1>2, <1>4, <2>6 DEF CheckSelf, OthersStay, counters, rows
  <2>7. CASE Admit(c)
    BY <1>1, <1>2, <1>4, <2>7 DEF Admit, OthersStay, counters, rows
  <2>8. CASE Persist(c)
    BY <1>1, <1>4, <2>8 DEF Persist, OthersStay, counters, history
  <2>9. CASE Publish(c)
    BY <1>1, <1>4, <2>9 DEF Publish, OthersStay, counters, history
  <2>10. CASE TurnEnds(c)
    BY <1>1, <1>2, <1>4, <2>10 DEF TurnEnds, OthersStay, counters, rows, history
  <2>11. CASE Answer(c)
    <3>1. Return(c, IF accepted[c] > 0 THEN "ok" ELSE "ignored")
      BY <2>11 DEF Answer
    <3> QED
      BY <1>1, <1>3, <1>4, <2>11, <3>1 DEF Answer, OthersStay, counters, rows, history
  <2>12. CASE Fail(c)
    <3>1. Return(c, "error")
      BY <2>12 DEF Fail
    <3> QED
      BY <1>1, <1>3, <1>4, <2>12, <3>1 DEF Fail, OthersStay
  <2> QED
    BY <2>1, <2>2, <2>3, <2>4, <2>5, <2>6, <2>7, <2>8, <2>9, <2>10, <2>11, <2>12 DEF Deliver
<1> QED
  BY <1>5 DEF OthersStay, Message, Record

(* Where an action takes its own call. *)
LEMMA DeliverMoves ==
  ASSUME TypeOK, NEW c \in Calls
  PROVE  /\ Arrive(c) \/ Poll(c) \/ Verify(c) =>
              pc[c] \in {"idle", "reading"} /\ pc'[c] \in {"reading", "next", "answered"}
         /\ Ignore(c) \/ Answer(c) => pc[c] = "next" /\ pc'[c] \in {"next", "answered"}
         /\ Ingest(c) => pc[c] = "next" /\ \/ pc'[c] = "next"
                                           \/ pc'[c] = "isSelf" /\ UNCHANGED pos
         /\ CheckSelf(c) => pc[c] = "isSelf" /\ \/ pc'[c] = "next"
                                                \/ pc'[c] = "resolve" /\ UNCHANGED pos
         /\ Admit(c) => pc[c] = "resolve" /\ \/ pc'[c] = "next"
                                             \/ pc'[c] = "persist" /\ UNCHANGED pos
         /\ Persist(c) => pc[c] = "persist" /\ pc'[c] = "publish" /\ UNCHANGED pos
         /\ Publish(c) => pc[c] = "publish" /\ pc'[c] = "turn" /\ UNCHANGED pos
         /\ TurnEnds(c) => pc[c] = "turn" /\ pc'[c] = "next"
         /\ Fail(c) => pc[c] \in Checks /\ pc'[c] = "answered"
<1>1. \A label \in PC : Goto(c, label) => pc'[c] = label
  BY DEF Goto, TypeOK
<1>2. {"idle", "reading", "next", "publish", "turn", "answered", "isSelf", "resolve", "persist"} \subseteq PC
  BY DEF PC, Checks
<1>3. Continue(c) => pc'[c] = "next"
  BY <1>1, <1>2 DEF Continue
<1>4. ASSUME NEW outcome, Return(c, outcome) PROVE pc'[c] = "answered"
  BY <1>1, <1>2, <1>4 DEF Return
<1>5. Arrive(c) \/ Poll(c) \/ Verify(c) =>
        pc[c] \in {"idle", "reading"} /\ pc'[c] \in {"reading", "next", "answered"}
  BY <1>1, <1>2 DEF Arrive, Poll, Verify
<1>6. Ignore(c) \/ Answer(c) => pc[c] = "next" /\ pc'[c] \in {"next", "answered"}
  BY <1>3, <1>4 DEF Ignore, Answer, AtRecord
<1>7. Ingest(c) => pc[c] = "next" /\ \/ pc'[c] = "next"
                                     \/ pc'[c] = "isSelf" /\ UNCHANGED pos
  BY <1>1, <1>2, <1>3 DEF Ingest, AtRecord
<1>8. CheckSelf(c) => pc[c] = "isSelf" /\ \/ pc'[c] = "next"
                                          \/ pc'[c] = "resolve" /\ UNCHANGED pos
  BY <1>1, <1>2, <1>3 DEF CheckSelf
<1>9. Admit(c) => pc[c] = "resolve" /\ \/ pc'[c] = "next"
                                       \/ pc'[c] = "persist" /\ UNCHANGED pos
  BY <1>1, <1>2, <1>3 DEF Admit
<1>10. /\ Persist(c) => pc[c] = "persist" /\ pc'[c] = "publish" /\ UNCHANGED pos
       /\ Publish(c) => pc[c] = "publish" /\ pc'[c] = "turn" /\ UNCHANGED pos
  BY <1>1, <1>2 DEF Persist, Publish
<1>11. TurnEnds(c) => pc[c] = "turn" /\ pc'[c] = "next"
  BY <1>3 DEF TurnEnds
<1>12. Fail(c) => pc[c] \in Checks /\ pc'[c] = "answered"
  BY <1>4 DEF Fail
<1> QED
  BY <1>5, <1>6, <1>7, <1>8, <1>9, <1>10, <1>11, <1>12

-----------------------------------------------------------------------------
(* The bot. *)

QuietInv ==
  /\ TypeOK
  /\ ~bot => early = Calls
  /\ BotIsQuiet

LEMMA QuietInit == Init => QuietInv
BY InitType DEF Init, QuietInv, BotIsQuiet, PastSelfCheck

LEMMA QuietStep == QuietInv /\ [Next]_vars => QuietInv'
<1> SUFFICES ASSUME QuietInv, [Next]_vars PROVE QuietInv'
  OBVIOUS
<1>1. TypeOK /\ TypeOK'
  BY TypeStep DEF QuietInv
<1>2. ASSUME NEW c \in Calls, Deliver(c) PROVE QuietInv'
  <2>1. OthersStay(c) /\ UNCHANGED <<bot, early>> /\ \A d \in Calls : d # c => Message(d)' = Message(d)
    BY <1>1, <1>2, DeliverFrame
  <2>2. \/ pc'[c] \notin PastSelfCheck
        \/ UNCHANGED pos /\ pc[c] \in PastSelfCheck
        \/ UNCHANGED pos /\ CheckSelf(c) /\ pc'[c] = "resolve"
    BY <1>1, <1>2, DeliverMoves DEF Deliver, PastSelfCheck, Checks
  <2>3. ASSUME pc'[c] \in PastSelfCheck, Actor(c)' = Bot PROVE c \in early
    <3>1. UNCHANGED pos
      BY <2>2, <2>3
    <3>2. Actor(c) = Bot
      BY <2>1, <2>3, <3>1 DEF OthersStay, Actor, Message, Record
    <3>3. CASE pc[c] \in PastSelfCheck
      BY <3>2, <3>3 DEF QuietInv, BotIsQuiet
    <3>4. CASE CheckSelf(c) /\ pc'[c] = "resolve"
      <4>1. Continue(c) => pc'[c] = "next"
        BY <1>1 DEF Continue, Goto, TypeOK
      <4>2. ~bot
        BY <3>2, <3>4, <4>1 DEF CheckSelf
      <4> QED
        BY <4>2 DEF QuietInv
    <3> QED
      BY <2>2, <2>3, <3>3, <3>4
  <2>4. ASSUME NEW d \in Calls, d # c, pc'[d] \in PastSelfCheck, Actor(d)' = Bot PROVE d \in early
    BY <2>1, <2>4 DEF OthersStay, Actor, QuietInv, BotIsQuiet
  <2> QED
    BY <1>1, <2>1, <2>3, <2>4 DEF QuietInv, BotIsQuiet
<1>3. CASE SeedBot
  <2>1. UNCHANGED <<pc, pos, delivery>> /\ bot'
        /\ early' = {c \in early : pc[c] \in PastSelfCheck /\ Actor(c) = Bot}
    BY <1>3 DEF SeedBot, calls
  <2> QED
    BY <1>1, <2>1 DEF QuietInv, BotIsQuiet, Actor, Message, Record
<1>4. CASE Tick
  BY <1>1, <1>4 DEF Tick, rows, calls, history, QuietInv, BotIsQuiet, Actor, Message, Record
<1>5. CASE Crash
  <2>1. UNCHANGED <<bot, early>> /\ \A c \in Calls : pc'[c] \notin PastSelfCheck
    BY <1>5 DEF Crash, rows, PastSelfCheck
  <2> QED
    BY <1>1, <2>1 DEF QuietInv, BotIsQuiet
<1>6. CASE UNCHANGED vars
  BY <1>1, <1>6 DEF vars, rows, calls, history, QuietInv, BotIsQuiet, Actor, Message, Record
<1> QED
  BY <1>2, <1>3, <1>4, <1>5, <1>6 DEF Next

(* Once its account is known, no message of the bot gets past the self-event
   check, after any restart: until then every call is excused, and afterwards
   only those that were past the check at that moment. *)
THEOREM TheBotStaysQuiet == Spec => []BotIsQuiet
<1>1. QuietInv => BotIsQuiet
  BY DEF QuietInv
<1> QED
  BY <1>1, QuietInit, QuietStep, PTL DEF Spec
-----------------------------------------------------------------------------
(* How many calls hold a message, counted by where they are. *)

At(labels, m) == {c \in Calls : pc[c] \in labels /\ Message(c) = m}

LEMMA AtEnters ==
  ASSUME TypeOK, NEW c \in Calls, OthersStay(c), UNCHANGED pos, NEW labels, NEW m \in Messages,
         pc[c] \notin labels, pc'[c] \in labels
  PROVE  Cardinality(At(labels, m)') =
           Cardinality(At(labels, m)) + (IF m = Message(c) THEN 1 ELSE 0)
<1>1. \A d \in Calls : Message(d)' = Message(d)
  BY DEF OthersStay, Message, Record
<1>2. At(labels, m)' = IF m = Message(c) THEN At(labels, m) \cup {c} ELSE At(labels, m)
  BY <1>1 DEF OthersStay, At
<1>3. c \notin At(labels, m)
  BY DEF At
<1>4. At(labels, m) \in SUBSET Calls
  BY DEF At
<1>5. IsFiniteSet(At(labels, m)) /\ Cardinality(At(labels, m)) \in Nat
  BY <1>4, FiniteCalls
<1>6. Cardinality(At(labels, m) \cup {c}) = Cardinality(At(labels, m)) + 1
  BY <1>3, <1>5, FS_AddElement
<1> QED
  BY <1>2, <1>5, <1>6

LEMMA AtLeaves ==
  ASSUME TypeOK, NEW c \in Calls, OthersStay(c), NEW labels, NEW m \in Messages,
         pc[c] \in labels, pc'[c] \notin labels
  PROVE  Cardinality(At(labels, m)') =
           Cardinality(At(labels, m)) - (IF m = Message(c) THEN 1 ELSE 0)
<1>1. \A d \in Calls : d # c => Message(d)' = Message(d)
  BY DEF OthersStay, Message, Record
<1>2. At(labels, m)' = IF m = Message(c) THEN At(labels, m) \ {c} ELSE At(labels, m)
  BY <1>1 DEF OthersStay, At
<1>3. m = Message(c) => c \in At(labels, m)
  BY DEF At
<1>4. At(labels, m) \in SUBSET Calls
  BY DEF At
<1>5. IsFiniteSet(At(labels, m)) /\ Cardinality(At(labels, m)) \in Nat
  BY <1>4, FiniteCalls
<1>6. m = Message(c) => Cardinality(At(labels, m) \ {c}) = Cardinality(At(labels, m)) - 1
  BY <1>3, <1>5, FS_RemoveElement
<1> QED
  BY <1>2, <1>5, <1>6

LEMMA AtStays ==
  ASSUME TypeOK, NEW c \in Calls, OthersStay(c), NEW labels, NEW m \in Messages,
         \/ pc[c] \notin labels /\ pc'[c] \notin labels
         \/ pc[c] \in labels /\ pc'[c] \in labels /\ UNCHANGED pos
  PROVE  At(labels, m)' = At(labels, m)
BY DEF OthersStay, At, Message, Record

LEMMA AtType ==
  ASSUME NEW labels, NEW m
  PROVE  Cardinality(At(labels, m)) \in Nat /\ IsFiniteSet(At(labels, m))
<1>1. At(labels, m) \in SUBSET Calls
  BY DEF At
<1> QED
  BY <1>1, FiniteCalls

-----------------------------------------------------------------------------
(* Once.  What is stored of a message and what may still be stored of it is
   paid for by its id having been forgotten or being remembered. *)

Known(m) == IF m \in Elements(dedup) THEN 1 ELSE 0

Paid(m) ==
  /\ stored[m] + Cardinality(At(Checks, m)) <= forgotten[m] + Known(m)
  /\ published[m] + Cardinality(At({"publish"}, m)) <= stored[m]

OnceInv == TypeOK /\ \A m \in Messages : Paid(m)

LEMMA OnceImplied == OnceInv => ProcessedOnce
<1> SUFFICES ASSUME OnceInv, NEW m \in Messages
             PROVE  published[m] <= stored[m] /\ stored[m] <= 1 + forgotten[m]
  BY DEF ProcessedOnce
<1>1. Cardinality(At(Checks, m)) \in Nat /\ Cardinality(At({"publish"}, m)) \in Nat
  BY AtType
<1>2. stored[m] \in Nat /\ published[m] \in Nat /\ forgotten[m] \in Nat /\ Known(m) \in {0, 1}
  BY DEF OnceInv, TypeOK, Known
<1> QED
  BY <1>1, <1>2 DEF OnceInv, Paid

LEMMA OnceInit == Init => OnceInv
<1> SUFFICES ASSUME Init, NEW m \in Messages PROVE Paid(m)
  BY InitType DEF OnceInv
<1>1. At(Checks, m) = {} /\ At({"publish"}, m) = {}
  BY DEF Init, At, Checks
<1>2. Elements(dedup) = {}
  BY EmptySeq DEF Init, Elements
<1>3. Cardinality(At(Checks, m)) = 0 /\ Cardinality(At({"publish"}, m)) = 0
  BY <1>1, FS_EmptySet
<1>4. stored[m] = 0 /\ published[m] = 0 /\ forgotten[m] = 0 /\ Known(m) = 0
  BY <1>2 DEF Init, Known
<1> QED
  BY <1>3, <1>4 DEF Paid

LEMMA OnceStep == OnceInv /\ [Next]_vars => OnceInv'
<1> SUFFICES ASSUME OnceInv, [Next]_vars, NEW m \in Messages PROVE Paid(m)'
  BY TypeStep DEF OnceInv
<1>1. TypeOK /\ Paid(m)
  BY DEF OnceInv
<1>2. /\ Cardinality(At(Checks, m)) \in Nat /\ Cardinality(At({"publish"}, m)) \in Nat
      /\ stored[m] \in Nat /\ published[m] \in Nat /\ forgotten[m] \in Nat
  BY <1>1, AtType DEF TypeOK
<1>3. ASSUME NEW c \in Calls, Deliver(c) PROVE Paid(m)'
  <2>1. OthersStay(c)
    BY <1>1, <1>3, DeliverFrame
  <2>2. CASE Arrive(c) \/ Poll(c) \/ Verify(c) \/ Ignore(c) \/ Answer(c) \/ TurnEnds(c)
    <3>1. UNCHANGED <<stored, published, dedup, forgotten>>
      BY <2>2 DEF Arrive, Poll, Verify, Ignore, Answer, TurnEnds, memory, rows, history
    <3>2. pc[c] \notin Checks /\ pc'[c] \notin Checks /\ pc[c] # "publish" /\ pc'[c] # "publish"
      BY <1>1, <2>2, DeliverMoves DEF Checks
    <3>3. At(Checks, m)' = At(Checks, m) /\ At({"publish"}, m)' = At({"publish"}, m)
      BY <1>1, <2>1, <3>2, AtStays
    <3> QED
      BY <1>1, <3>1, <3>3 DEF Paid, Known
  <2>3. CASE CheckSelf(c) \/ Admit(c)
    <3>1. UNCHANGED <<stored, published, dedup, forgotten>>
      BY <2>3 DEF CheckSelf, Admit, memory, rows
    <3>2. /\ pc[c] \in Checks /\ pc[c] # "publish" /\ pc'[c] # "publish"
          /\ pc'[c] \notin Checks \/ (pc'[c] \in Checks /\ UNCHANGED pos)
      BY <1>1, <2>3, DeliverMoves DEF Checks
    <3>3. At({"publish"}, m)' = At({"publish"}, m)
      BY <1>1, <2>1, <3>2, AtStays
    <3>4. /\ Cardinality(At(Checks, m)') <= Cardinality(At(Checks, m))
          /\ Cardinality(At(Checks, m)') \in Int
      <4>1. CASE pc'[c] \notin Checks
        BY <1>1, <1>2, <2>1, <3>2, <4>1, AtLeaves
      <4>2. CASE pc'[c] \in Checks /\ UNCHANGED pos
        BY <1>1, <1>2, <2>1, <3>2, <4>2, AtStays
      <4> QED
        BY <3>2, <4>1, <4>2
    <3> QED
      BY <1>1, <1>2, <3>1, <3>3, <3>4 DEF Paid, Known
  <2>4. CASE Persist(c)
    <3>1. /\ UNCHANGED <<published, dedup, forgotten>>
          /\ stored' = [stored EXCEPT ![Message(c)] = @ + 1]
      BY <2>4 DEF Persist, memory, history
    <3>2. pc[c] \in Checks /\ pc'[c] \notin Checks /\ pc[c] # "publish" /\ pc'[c] = "publish" /\ UNCHANGED pos
      BY <1>1, <2>4, DeliverMoves DEF Checks
    <3>3. Cardinality(At(Checks, m)') = Cardinality(At(Checks, m)) - (IF m = Message(c) THEN 1 ELSE 0)
      BY <1>1, <2>1, <3>2, AtLeaves
    <3>4. Cardinality(At({"publish"}, m)') = Cardinality(At({"publish"}, m)) + (IF m = Message(c) THEN 1 ELSE 0)
      BY <1>1, <2>1, <3>2, AtEnters
    <3>5. stored'[m] = stored[m] + (IF m = Message(c) THEN 1 ELSE 0)
      BY <1>1, <1>2, <3>1 DEF TypeOK
    <3> QED
      BY <1>1, <1>2, <3>1, <3>3, <3>4, <3>5 DEF Paid, Known
  <2>5. CASE Publish(c)
    <3>1. /\ UNCHANGED <<stored, dedup, forgotten>>
          /\ published' = [published EXCEPT ![Message(c)] = @ + 1]
      BY <2>5 DEF Publish, memory, history
    <3>2. pc[c] \notin Checks /\ pc'[c] \notin Checks /\ pc[c] = "publish" /\ pc'[c] # "publish"
      BY <1>1, <2>5, DeliverMoves DEF Checks
    <3>3. At(Checks, m)' = At(Checks, m)
      BY <1>1, <2>1, <3>2, AtStays
    <3>4. Cardinality(At({"publish"}, m)') = Cardinality(At({"publish"}, m)) - (IF m = Message(c) THEN 1 ELSE 0)
      BY <1>1, <2>1, <3>2, AtLeaves
    <3>5. published'[m] = published[m] + (IF m = Message(c) THEN 1 ELSE 0)
      BY <1>1, <1>2, <3>1 DEF TypeOK
    <3> QED
      BY <1>1, <1>2, <3>1, <3>3, <3>4, <3>5 DEF Paid, Known
  <2>6. CASE Fail(c)
    <3>1. /\ UNCHANGED <<published, dedup, forgotten>>
          /\ stored' \in {stored, [stored EXCEPT ![Message(c)] = @ + 1]}
      BY <2>6 DEF Fail, memory
    <3>2. pc[c] \in Checks /\ pc'[c] \notin Checks /\ pc[c] # "publish" /\ pc'[c] # "publish"
      BY <1>1, <2>6, DeliverMoves DEF Checks
    <3>3. Cardinality(At(Checks, m)') = Cardinality(At(Checks, m)) - (IF m = Message(c) THEN 1 ELSE 0)
      BY <1>1, <2>1, <3>2, AtLeaves
    <3>4. At({"publish"}, m)' = At({"publish"}, m)
      BY <1>1, <2>1, <3>2, AtStays
    <3>5. stored'[m] \in {stored[m], stored[m] + (IF m = Message(c) THEN 1 ELSE 0)}
      BY <1>1, <1>2, <3>1 DEF TypeOK
    <3> QED
      BY <1>1, <1>2, <3>1, <3>3, <3>4, <3>5 DEF Paid, Known
  <2>7. CASE Ingest(c)
    <3>1. /\ UNCHANGED <<stored, published>> /\ AtRecord(c) /\ Reaches(c)
          /\ dedup' = Remember(dedup, Message(c), MaxDedup)
          /\ forgotten'[m] = IF m \in Elements(dedup) \ Elements(dedup')
                               THEN forgotten[m] + 1 ELSE forgotten[m]
      BY <2>7 DEF Ingest, rows
    <3>2. pc[c] \notin Checks /\ pc[c] # "publish" /\ pc'[c] # "publish"
      BY <1>1, <2>7, DeliverMoves DEF Checks
    <3>3. At({"publish"}, m)' = At({"publish"}, m)
      BY <1>1, <2>1, <3>2, AtStays
    <3>4. Message(c) \in Messages
      BY <1>1, <3>1, DedupType
    <3>5. Message(c) \in Elements(dedup') /\ Message(c) # None
      BY <1>1, <3>1, <3>4, RememberElements, IngressAssumption DEF TypeOK
    <3>6. CASE Message(c) \in Elements(dedup)
      <4>1. dedup' = dedup /\ forgotten'[m] = forgotten[m]
        BY <3>1, <3>6 DEF Remember
      <4>2. pc'[c] \notin Checks
        BY <1>1, <2>7, <3>6 DEF Ingest, Continue, Goto, TypeOK, Checks
      <4>3. At(Checks, m)' = At(Checks, m)
        BY <1>1, <2>1, <3>2, <4>2, AtStays
      <4> QED
        BY <1>1, <1>2, <3>1, <3>3, <4>1, <4>3 DEF Paid, Known
    <3>7. CASE Message(c) \notin Elements(dedup)
      <4>1. pc'[c] \in Checks /\ UNCHANGED pos
        BY <1>1, <2>7, <3>7 DEF Ingest, Goto, TypeOK, Checks
      <4>2. Cardinality(At(Checks, m)') = Cardinality(At(Checks, m)) + (IF m = Message(c) THEN 1 ELSE 0)
        BY <1>1, <2>1, <3>2, <4>1, AtEnters
      <4>3. CASE m = Message(c)
        BY <1>1, <1>2, <3>1, <3>3, <3>5, <3>7, <4>2, <4>3 DEF Paid, Known
      <4>4. CASE m # Message(c)
        <5>1. m \notin Elements(dedup) => m \notin Elements(dedup')
          BY <1>1, <3>1, <3>4, <3>5, <4>4, RememberElements, IngressAssumption DEF TypeOK
        <5> QED
          BY <1>1, <1>2, <3>1, <3>3, <4>2, <4>4, <5>1 DEF Paid, Known
      <4> QED
        BY <4>3, <4>4
    <3> QED
      BY <3>6, <3>7
  <2> QED
    BY <1>3, <2>2, <2>3, <2>4, <2>5, <2>6, <2>7 DEF Deliver
<1>4. CASE SeedBot \/ Tick
  BY <1>1, <1>4 DEF SeedBot, Tick, memory, rows, calls, history, Paid, Known, At, Message, Record
<1>5. CASE Crash
  <2>1. UNCHANGED <<stored, published>> /\ dedup' = <<>>
        /\ forgotten'[m] = IF m \in Elements(dedup) THEN forgotten[m] + 1 ELSE forgotten[m]
    BY <1>5 DEF Crash, rows
  <2>2. At(Checks, m)' = {} /\ At({"publish"}, m)' = {}
    BY <1>5 DEF Crash, At, Checks
  <2>3. Elements(dedup') = {}
    BY <2>1, EmptySeq DEF Elements
  <2>4. Cardinality(At(Checks, m)') = 0 /\ Cardinality(At({"publish"}, m)') = 0
    BY <2>2, FS_EmptySet
  <2> QED
    BY <1>1, <1>2, <2>1, <2>3, <2>4 DEF Paid, Known
<1>6. CASE UNCHANGED vars
  BY <1>1, <1>6 DEF vars, memory, rows, calls, history, Paid, Known, At, Message, Record
<1> QED
  BY <1>3, <1>4, <1>5, <1>6 DEF Next

(* However deliveries race, repeat and fail, a message is stored at most once
   more than its id was forgotten, and published at most as often. *)
THEOREM MessagesAreProcessedOnce == Spec => []ProcessedOnce
BY OnceImplied, OnceInit, OnceStep, PTL DEF Spec
-----------------------------------------------------------------------------
(* The promise of AtMostOnce.  Each action of Ingress is one step of it or
   leaves what it speaks of alone. *)

Pending == [m \in Messages |-> Cardinality(Holding(m))]
Busy == Checks \cup {"publish"}
promised == <<Elements(dedup), Pending, published, forgotten>>

LEMMA HoldingIsBusy == \A m : Holding(m) = At(Busy, m)
BY DEF Holding, At, Busy

LEMMA HoldingIsBusyNext == \A m : Holding(m)' = At(Busy, m)'
BY DEF Holding, At, Busy

LEMMA PendingEnters ==
  ASSUME TypeOK, NEW c \in Calls, OthersStay(c), UNCHANGED pos, Message(c) \in Messages,
         pc[c] \notin Busy, pc'[c] \in Busy
  PROVE  Pending' = [Pending EXCEPT ![Message(c)] = @ + 1]
<1>1. \A m \in Messages : Cardinality(At(Busy, m)') =
        Cardinality(At(Busy, m)) + (IF m = Message(c) THEN 1 ELSE 0)
  BY AtEnters
<1>2. \A m \in Messages : Cardinality(At(Busy, m)) \in Nat
  BY AtType
<1>3. Pending = [m \in Messages |-> Cardinality(At(Busy, m))]
  BY HoldingIsBusy DEF Pending
<1>4. Pending' = [m \in Messages |-> Cardinality(At(Busy, m)')]
  BY HoldingIsBusyNext DEF Pending
<1>5. \A m \in Messages : Cardinality(At(Busy, m)') =
        IF m = Message(c) THEN Pending[m] + 1 ELSE Pending[m]
  BY <1>1, <1>2, <1>3
<1>6. Pending' = [m \in Messages |-> IF m = Message(c) THEN Pending[m] + 1 ELSE Pending[m]]
  BY <1>4, <1>5
<1> QED
  BY <1>3, <1>6

LEMMA PendingLeaves ==
  ASSUME TypeOK, NEW c \in Calls, OthersStay(c), Message(c) \in Messages,
         pc[c] \in Busy, pc'[c] \notin Busy
  PROVE  /\ Pending[Message(c)] > 0
         /\ Pending' = [Pending EXCEPT ![Message(c)] = @ - 1]
<1>1. \A m \in Messages : Cardinality(At(Busy, m)') =
        Cardinality(At(Busy, m)) - (IF m = Message(c) THEN 1 ELSE 0)
  BY AtLeaves
<1>2. \A m \in Messages : Cardinality(At(Busy, m)) \in Nat /\ IsFiniteSet(At(Busy, m))
  BY AtType
<1>3. Pending = [m \in Messages |-> Cardinality(At(Busy, m))]
  BY HoldingIsBusy DEF Pending
<1>4. Pending' = [m \in Messages |-> Cardinality(At(Busy, m)')]
  BY HoldingIsBusyNext DEF Pending
<1>5. c \in At(Busy, Message(c))
  BY DEF At
<1>6. Cardinality(At(Busy, Message(c))) # 0
  BY <1>2, <1>5, FS_EmptySet
<1>7. Pending[Message(c)] > 0
  BY <1>2, <1>3, <1>6
<1>8. \A m \in Messages : Cardinality(At(Busy, m)') =
        IF m = Message(c) THEN Pending[m] - 1 ELSE Pending[m]
  BY <1>1, <1>2, <1>3
<1>9. Pending' = [m \in Messages |-> IF m = Message(c) THEN Pending[m] - 1 ELSE Pending[m]]
  BY <1>4, <1>8
<1> QED
  BY <1>3, <1>7, <1>9

LEMMA PendingStays ==
  ASSUME TypeOK, NEW c \in Calls, OthersStay(c),
         \/ pc[c] \notin Busy /\ pc'[c] \notin Busy
         \/ pc[c] \in Busy /\ pc'[c] \in Busy /\ UNCHANGED pos
  PROVE  UNCHANGED Pending
<1>1. \A m \in Messages : At(Busy, m)' = At(Busy, m)
  BY AtStays
<1>2. Pending = [m \in Messages |-> Cardinality(At(Busy, m))]
  BY HoldingIsBusy DEF Pending
<1>3. Pending' = [m \in Messages |-> Cardinality(At(Busy, m)')]
  BY HoldingIsBusyNext DEF Pending
<1> QED
  BY <1>1, <1>2, <1>3

LEMMA PromiseInit == Init => Promise!Init
<1> SUFFICES ASSUME Init PROVE Promise!Init
  OBVIOUS
<1>1. Elements(dedup) = {}
  BY EmptySeq DEF Init, Elements
<1>2. \A m \in Messages : Holding(m) = {}
  BY DEF Init, Holding, Checks
<1>3. [m \in Messages |-> Cardinality(Holding(m))] = [m \in Messages |-> 0]
  BY <1>2, FS_EmptySet
<1> QED
  BY <1>1, <1>3 DEF Init, Promise!Init, Promise!Zero

LEMMA PromiseStep == TypeOK /\ [Next]_vars => [Promise!Next]_promised
<1> SUFFICES ASSUME TypeOK, [Next]_vars PROVE Promise!Next \/ UNCHANGED promised
  OBVIOUS
<1>1. ASSUME NEW c \in Calls, Deliver(c) PROVE Promise!Next \/ UNCHANGED promised
  <2>1. OthersStay(c)
    BY <1>1, DeliverFrame
  <2>2. CASE Arrive(c) \/ Poll(c) \/ Verify(c) \/ Ignore(c) \/ Answer(c) \/ TurnEnds(c)
    <3>1. UNCHANGED <<published, dedup, forgotten>>
      BY <2>2 DEF Arrive, Poll, Verify, Ignore, Answer, TurnEnds, memory, rows, history
    <3>2. pc[c] \notin Busy /\ pc'[c] \notin Busy
      BY <2>2, DeliverMoves DEF Checks, Busy
    <3>3. UNCHANGED Pending
      BY <2>1, <3>2, PendingStays
    <3> QED
      BY <3>1, <3>3 DEF promised, Elements
  <2>3. CASE CheckSelf(c) \/ Admit(c) \/ Persist(c) \/ Fail(c)
    <3>1. UNCHANGED <<published, dedup, forgotten>>
      BY <2>3 DEF CheckSelf, Admit, Persist, Fail, memory, rows, history
    <3>2. /\ pc[c] \in Checks
          /\ pc'[c] \notin Busy \/ (pc'[c] \in Busy /\ UNCHANGED pos)
      BY <2>3, DeliverMoves DEF Checks, Busy
    <3>3. Message(c) \in Messages /\ pc[c] \in Busy
      BY <3>2, BusyMessage DEF Busy
    <3>4. CASE pc'[c] \notin Busy
      <4>1. /\ Pending[Message(c)] > 0
            /\ Pending' = [Pending EXCEPT ![Message(c)] = @ - 1]
        BY <2>1, <3>3, <3>4, PendingLeaves
      <4>2. Promise!Drop(Message(c))
        BY <3>1, <4>1 DEF Promise!Drop, Pending, Elements
      <4> QED
        BY <3>3, <4>2 DEF Promise!Next
    <3>5. CASE pc'[c] \in Busy /\ UNCHANGED pos
      <4>1. UNCHANGED Pending
        BY <2>1, <3>3, <3>5, PendingStays
      <4> QED
        BY <3>1, <4>1 DEF promised, Elements
    <3> QED
      BY <3>2, <3>4, <3>5
  <2>4. CASE Publish(c)
    <3>1. /\ UNCHANGED <<dedup, forgotten>>
          /\ published' = [published EXCEPT ![Message(c)] = @ + 1]
      BY <2>4 DEF Publish, memory, history
    <3>2. pc[c] \in Busy /\ pc'[c] \notin Busy
      BY <2>4, DeliverMoves DEF Checks, Busy
    <3>3. Message(c) \in Messages
      BY <3>2, BusyMessage DEF Busy
    <3>4. /\ Pending[Message(c)] > 0
          /\ Pending' = [Pending EXCEPT ![Message(c)] = @ - 1]
      BY <2>1, <3>2, <3>3, PendingLeaves
    <3>5. Promise!Publish(Message(c))
      BY <3>1, <3>4 DEF Promise!Publish, Pending, Elements
    <3> QED
      BY <3>3, <3>5 DEF Promise!Next
  <2>5. CASE Ingest(c)
    <3> DEFINE gone == Elements(dedup) \ Elements(dedup')
    <3>1. /\ UNCHANGED published /\ AtRecord(c) /\ Reaches(c)
          /\ dedup' = Remember(dedup, Message(c), MaxDedup)
          /\ forgotten' = [m \in Messages |->
               IF m \in gone THEN forgotten[m] + 1 ELSE forgotten[m]]
      BY <2>5 DEF Ingest, rows
    <3>2. pc[c] \notin Busy
      BY <2>5, DeliverMoves DEF Checks, Busy
    <3>3. Message(c) \in Messages
      BY <3>1, DedupType
    <3>4. /\ Message(c) \in Elements(dedup')
          /\ Elements(dedup') \subseteq Elements(dedup) \cup {Message(c)}
      BY <3>1, <3>3, RememberElements, IngressAssumption DEF TypeOK
    <3>5. CASE Message(c) \in Elements(dedup)
      <4>1. dedup' = dedup
        BY <3>1, <3>5 DEF Remember
      <4>2. UNCHANGED forgotten
        BY <3>1, <4>1 DEF TypeOK
      <4>3. pc'[c] \notin Busy
        BY <2>5, <3>5 DEF Ingest, Continue, Goto, TypeOK, Checks, Busy
      <4>4. UNCHANGED Pending
        BY <2>1, <3>2, <4>3, PendingStays
      <4> QED
        BY <3>1, <4>1, <4>2, <4>4 DEF promised, Elements
    <3>6. CASE Message(c) \notin Elements(dedup)
      <4>1. pc'[c] \in Busy /\ UNCHANGED pos
        BY <2>5, <3>6 DEF Ingest, Goto, TypeOK, Checks, Busy
      <4>2. Pending' = [Pending EXCEPT ![Message(c)] = @ + 1]
        BY <2>1, <3>2, <3>3, <4>1, PendingEnters
      <4>3. /\ gone \in SUBSET Elements(dedup)
            /\ Elements(dedup)' = (Elements(dedup) \ gone) \cup {Message(c)}
        BY <3>4 DEF Elements
      <4>4. Promise!ForgetAll(gone)
        BY <3>1 DEF Promise!ForgetAll
      <4> HIDE DEF gone
      <4>5. Promise!TakeIn(Message(c))
        BY <3>1, <3>6, <4>2, <4>3, <4>4 DEF Promise!TakeIn, Pending
      <4> QED
        BY <3>3, <4>5 DEF Promise!Next
    <3> QED
      BY <3>5, <3>6
  <2> QED
    BY <1>1, <2>2, <2>3, <2>4, <2>5 DEF Deliver
<1>2. CASE SeedBot \/ Tick \/ UNCHANGED vars
  <2>1. UNCHANGED <<dedup, published, forgotten, pc, pos, delivery>>
    BY <1>2 DEF SeedBot, Tick, vars, memory, rows, calls, history
  <2> QED
    BY <2>1 DEF promised, Elements, Pending, Holding, Message, Record
<1>3. CASE Crash
  <2>1. /\ UNCHANGED published /\ dedup' = <<>>
        /\ forgotten' = [m \in Messages |->
             IF m \in Elements(dedup) THEN forgotten[m] + 1 ELSE forgotten[m]]
    BY <1>3 DEF Crash, rows
  <2>2. \A m \in Messages : Holding(m)' = {}
    BY <1>3 DEF Crash, Holding, Checks
  <2>3. Pending' = [m \in Messages |-> 0]
    BY <2>2, FS_EmptySet DEF Pending
  <2>4. Elements(dedup)' = {}
    BY <2>1, EmptySeq DEF Elements
  <2>5. Promise!Restart
    BY <2>1, <2>3, <2>4 DEF Promise!Restart, Promise!ForgetAll, Promise!Zero, Pending
  <2> QED
    BY <2>5 DEF Promise!Next
<1> QED
  BY <1>1, <1>2, <1>3 DEF Next

(* Ingress keeps the promise: it takes a message in only while its id is not
   remembered, and what it took in is published once, dropped once, or lost
   with the process. *)
THEOREM IngressKeepsThePromise == Spec => ImplementsAtMostOnce
<1>1. Spec => []TypeOK
  BY TypeCorrect
<1>2. TypeOK /\ [Next]_vars =>
        [Promise!Next]_<<Elements(dedup), [m \in Messages |-> Cardinality(Holding(m))],
                         published, forgotten>>
  BY PromiseStep DEF promised, Pending
<1> QED
  BY <1>1, <1>2, PromiseInit, PTL DEF Spec, ImplementsAtMostOnce, Promise!Spec
-----------------------------------------------------------------------------
(* Losses.  What some part of the process takes for dealt with is accounted
   for: published, in the hands of a call, or dropped for a reason. *)

Accounted(m) == Settled(m) \/ reasons[m] # {}

(* A memory holds its id, or a call that is past one of its records, was
   answered with success, or would skip the record by its event. *)
Handled(m) ==
  \/ m \in Elements(seen)
  \/ m \in Elements(dedup)
  \/ \E c \in Calls : \E i \in DOMAIN delivery[c].records :
       /\ delivery[c].records[i].message = m
       /\ \/ delivery[c].records[i].event \in Elements(seen)
          \/ i < pos[c]
          \/ answer[c] \in {"ok", "ignored"}

LossInv ==
  /\ TypeOK
  /\ \A m \in Messages \ Filtered : Handled(m) => Accounted(m)
  /\ \A c \in Calls : pc[c] = "turn" => published[Message(c)] > 0

LEMMA RecordOf ==
  ASSUME TypeOK, NEW c \in Calls, NEW i \in DOMAIN delivery[c].records
  PROVE  /\ delivery[c].records[i].event \in Events \cup {None}
         /\ delivery[c].records[i].message \in Messages \cup {None}
         /\ i \in Nat \ {0}
<1>1. delivery[c] \in Deliveries
  BY IngressAssumption DEF TypeOK
<1>2. delivery[c].records \in Seq(Records)
  BY <1>1 DEF Deliveries
<1>3. delivery[c].records[i] \in Records /\ i \in 1 .. Len(delivery[c].records)
      /\ Len(delivery[c].records) \in Nat
  BY <1>2, LenProperties
<1> QED
  BY <1>3 DEF Records

LEMMA LossImplied == LossInv => LossExplained
<1> SUFFICES ASSUME LossInv, NEW c \in Calls, answer[c] \in {"ok", "ignored"}, NEW m \in Wanted(c)
             PROVE  Settled(m) \/ reasons[m] # {}
  BY DEF LossExplained
<1>1. PICK i \in DOMAIN delivery[c].records : delivery[c].records[i].message = m
  BY DEF Wanted, Elements
<1>2. m \in Messages \ Filtered
  BY <1>1, RecordOf DEF Wanted, LossInv
<1>3. Handled(m)
  BY <1>1 DEF Handled
<1> QED
  BY <1>2, <1>3 DEF LossInv, Accounted

LEMMA LossInit == Init => LossInv
<1> SUFFICES ASSUME Init PROVE LossInv
  OBVIOUS
<1>1. TypeOK
  BY InitType
<1>2. ASSUME NEW m PROVE ~Handled(m)
  <2>1. Elements(seen) = {} /\ Elements(dedup) = {}
    BY EmptySeq DEF Init, Elements
  <2>2. \A c \in Calls : answer[c] \notin {"ok", "ignored"}
    BY IngressAssumption DEF Init, Outcomes
  <2>3. \A c \in Calls : \A i \in DOMAIN delivery[c].records : ~(i < pos[c])
    BY <1>1, RecordOf DEF Init
  <2> QED
    BY <2>1, <2>2, <2>3 DEF Handled
<1>3. \A c \in Calls : pc[c] # "turn"
  BY DEF Init
<1> QED
  BY <1>1, <1>2, <1>3 DEF LossInv

LEMMA RememberGrows ==
  ASSUME NEW S, NEW s \in Seq(S), NEW bound \in Nat \ {0}, Len(s) <= bound,
         NEW id \in S \cup {None}
  PROVE  Elements(Remember(s, id, bound)) \subseteq Elements(s) \cup ({id} \ {None})
<1>1. CASE id = None
  BY <1>1 DEF Remember
<1>2. CASE id # None
  BY <1>2, RememberElements
<1> QED
  BY <1>1, <1>2

LEMMA SeenGrows ==
  ASSUME TypeOK, NEW c \in Calls, AtRecord(c)
  PROVE  /\ Elements(SeenAfter(c)) \subseteq Elements(seen) \cup ({Record(c).event, Message(c)} \ {None})
         /\ Elements(Remember(seen, Record(c).event, MaxSeen))
              \subseteq Elements(seen) \cup ({Record(c).event} \ {None})
<1> DEFINE ids == Events \cup Messages
           one == Remember(seen, Record(c).event, MaxSeen)
<1>1. Record(c).event \in ids \cup {None} /\ Message(c) \in ids \cup {None}
  BY RecordType DEF AtRecord, Records
<1>2. seen \in Seq(ids) /\ Len(seen) <= MaxSeen /\ MaxSeen \in Nat \ {0}
  BY IngressAssumption DEF TypeOK
<1> HIDE DEF ids
<1>3. one \in Seq(ids) /\ Len(one) <= MaxSeen
  BY <1>1, <1>2, RememberType
<1>4. Elements(one) \subseteq Elements(seen) \cup ({Record(c).event} \ {None})
  BY <1>1, <1>2, RememberGrows
<1> HIDE DEF one
<1>5. Elements(Remember(one, Message(c), MaxSeen)) \subseteq Elements(one) \cup ({Message(c)} \ {None})
  BY <1>1, <1>2, <1>3, RememberGrows
<1> QED
  BY <1>4, <1>5 DEF SeenAfter, one

LEMMA ContinueCall ==
  ASSUME TypeOK, NEW c \in Calls, Continue(c)
  PROVE  pc'[c] = "next" /\ pos'[c] = pos[c] + 1
BY DEF Continue, Goto, TypeOK, PC

(* What is accounted for stays so. *)
LEMMA AccountedStays ==
  ASSUME TypeOK, [Next]_vars, NEW m \in Messages, Accounted(m)
  PROVE  Accounted(m)'
<1>1. /\ published[m] \in Nat /\ reasons[m] \in SUBSET Reasons
      /\ published \in [Messages -> Nat] /\ reasons \in [Messages -> SUBSET Reasons]
  BY DEF TypeOK
<1>2. ASSUME NEW c \in Calls, Deliver(c) PROVE Accounted(m)'
  <2>1. OthersStay(c) /\ \A d \in Calls : d # c => Message(d)' = Message(d)
    BY <1>2, DeliverFrame
  <2>2. published'[m] >= published[m]
    <3>1. CASE Publish(c)
      BY <1>1, <3>1 DEF Publish
    <3>2. CASE ~Publish(c)
      <4>1. UNCHANGED published
        BY <1>2, <3>2 DEF Deliver, Arrive, Poll, Verify, Ignore, Ingest, CheckSelf, Admit, Persist,
           TurnEnds, Answer, Fail, rows
      <4> QED
        BY <1>1, <4>1
    <3> QED
      BY <3>1, <3>2
  <2>3. reasons[m] # {} => reasons'[m] # {}
    <3>1. UNCHANGED reasons \/ \E reason \in Reasons : Lost(Message(c), reason)
      BY <1>2 DEF Deliver, Arrive, Poll, Verify, Ignore, Ingest, CheckSelf, Admit, Persist, Publish,
         TurnEnds, Answer, Fail, history, Reasons
    <3> QED
      BY <1>1, <3>1 DEF Lost
  <2>4. CASE \E d \in Holding(m) : d # c
    BY <2>1, <2>4 DEF Accounted, Settled, Holding, OthersStay
  <2>5. CASE Holding(m) = {c}
    <3>1. pc[c] \in Checks \cup {"publish"} /\ Message(c) = m
      BY <2>5 DEF Holding
    <3>2. CASE UNCHANGED pos /\ pc'[c] \in Checks
      <4>1. Message(c)' = m
        BY <2>1, <3>1, <3>2 DEF OthersStay, Message, Record
      <4>2. c \in Holding(m)'
        BY <3>2, <4>1 DEF Holding
      <4> QED
        BY <4>2 DEF Accounted, Settled
    <3>3. CASE Persist(c)
      <4>1. UNCHANGED pos /\ pc'[c] = "publish"
        BY <3>3, DeliverMoves
      <4>2. Message(c)' = m
        BY <2>1, <3>1, <4>1 DEF OthersStay, Message, Record
      <4>3. c \in Holding(m)'
        BY <4>1, <4>2 DEF Holding
      <4> QED
        BY <4>3 DEF Accounted, Settled
    <3>4. CASE Publish(c)
      <4>1. published'[m] > 0
        BY <1>1, <3>1, <3>4 DEF Publish
      <4> QED
        BY <4>1 DEF Accounted, Settled
    <3>5. ASSUME NEW reason, Lost(Message(c), reason) PROVE Accounted(m)'
      <4>1. reason \in reasons'[m]
        BY <1>1, <3>1, <3>5 DEF Lost
      <4> QED
        BY <4>1 DEF Accounted
    <3>6. CASE CheckSelf(c) \/ Admit(c) \/ Fail(c)
      <4>1. \/ UNCHANGED pos /\ pc'[c] \in Checks
            \/ \E reason \in Reasons : Lost(Message(c), reason)
        <5>1. Goto(c, "resolve") \/ Goto(c, "persist") => pc'[c] \in Checks
          BY DEF Goto, TypeOK, Checks
        <5> QED
          BY <3>6, <5>1 DEF CheckSelf, Admit, Fail, Reasons
      <4> QED
        BY <3>2, <3>5, <4>1
    <3> QED
      BY <1>2, <3>1, <3>3, <3>4, <3>6, DeliverMoves DEF Deliver, Checks
  <2>7. CASE published[m] > 0 \/ reasons[m] # {}
    <3>1. published'[m] > 0 \/ reasons'[m] # {}
      <4>1. published'[m] \in Nat
        BY TypeStep DEF TypeOK
      <4> QED
        BY <1>1, <2>2, <2>3, <2>7, <4>1
    <3> QED
      BY <3>1 DEF Accounted, Settled
  <2> QED
    BY <2>4, <2>5, <2>7 DEF Accounted, Settled
<1>3. CASE SeedBot \/ Tick \/ UNCHANGED vars
  <2>1. UNCHANGED <<published, reasons, pc, pos, delivery>>
    BY <1>3 DEF SeedBot, Tick, vars, rows, calls, history
  <2> QED
    BY <2>1 DEF Accounted, Settled, Holding, Message, Record
<1>4. CASE Crash
  <2>1. /\ UNCHANGED published
        /\ reasons'[m] = IF Holding(m) # {} THEN reasons[m] \cup {"crash"} ELSE reasons[m]
    BY <1>4 DEF Crash, rows
  <2> QED
    BY <2>1 DEF Accounted, Settled
<1> QED
  BY <1>2, <1>3, <1>4 DEF Next
(* The record the loop of a call leaves behind is accounted for. *)
LEMMA LoopAccounts ==
  ASSUME LossInv, NEW c \in Calls, Ignore(c) \/ Ingest(c), NEW m \in Messages \ Filtered,
         m = Message(c)
  PROVE  Handled(m) \/ Accounted(m)'
<1>1. TypeOK /\ AtRecord(c)
  BY DEF LossInv, Ignore, Ingest
<1>2. m # None
  BY IngressAssumption
<1>3. CASE Ignore(c)
  <2>1. ~Unseen(c)
    BY <1>2, <1>3 DEF Ignore, Reaches
  <2>2. CASE Record(c).event \in Elements(seen)
    BY <1>1, <2>2 DEF AtRecord, Record, Message, Handled
  <2>3. CASE m \in Elements(Remember(seen, Record(c).event, MaxSeen))
    <3>1. m # Record(c).event
      BY <1>1, RecordType, IngressAssumption DEF AtRecord, Records
    <3>2. m \in Elements(seen)
      BY <1>1, <2>3, <3>1, SeenGrows
    <3> QED
      BY <3>2 DEF Handled
  <2> QED
    BY <2>1, <2>2, <2>3 DEF Unseen
<1>4. CASE Ingest(c)
  <2>1. CASE m \in Elements(dedup)
    BY <2>1 DEF Handled
  <2>2. CASE m \notin Elements(dedup)
    <3>1. UNCHANGED <<pos, delivery>> /\ pc'[c] = "isSelf"
      BY <1>1, <1>4, <2>2 DEF Ingest, Goto, TypeOK
    <3>2. c \in Holding(m)'
      BY <3>1 DEF Holding, Message, Record, Checks
    <3> QED
      BY <3>2 DEF Accounted, Settled
  <2> QED
    BY <2>1, <2>2
<1> QED
  BY <1>3, <1>4

(* Nothing is taken for dealt with before it is accounted for. *)
LEMMA HandledGrows ==
  ASSUME LossInv, [Next]_vars, NEW m \in Messages \ Filtered, Handled(m)'
  PROVE  Handled(m) \/ Accounted(m)'
<1>1. TypeOK
  BY DEF LossInv
<1>2. /\ m # None /\ m \notin Events
  BY IngressAssumption
<1>3. \A c \in Calls : \A i \in DOMAIN delivery[c].records :
        /\ delivery[c].records[i].event \in Events \cup {None} /\ i \in Nat \ {0}
  BY <1>1, RecordOf
<1>4. None \notin Elements(seen)
  BY <1>1, ElementsType, IngressAssumption DEF TypeOK
<1>5. ASSUME NEW c \in Calls, Ignore(c) \/ Ingest(c) PROVE Handled(m) \/ Accounted(m)'
  <2>1. /\ AtRecord(c) /\ seen' = SeenAfter(c) /\ UNCHANGED <<delivery, answer>>
        /\ Continue(c) \/ UNCHANGED pos
    BY <1>5 DEF Ignore, Ingest
  <2>2. CASE m = Message(c)
    BY <1>5, <2>2, LoopAccounts
  <2>3. CASE m # Message(c)
    <3>1. /\ Elements(seen') \subseteq Elements(seen) \cup ({Record(c).event, Message(c)} \ {None})
          /\ Record(c).event \in Events \cup {None} /\ Message(c) \in Messages \cup {None}
      BY <1>1, <2>1, SeenGrows, RecordType DEF AtRecord, Records
    <3>2. CASE m \in Elements(seen)'
      BY <1>2, <2>3, <3>1, <3>2 DEF Handled, Elements
    <3>3. CASE m \in Elements(dedup)'
      <4>1. CASE Ignore(c)
        BY <3>3, <4>1 DEF Ignore, Handled, Elements
      <4>2. CASE Ingest(c)
        <5>1. dedup' = Remember(dedup, Message(c), MaxDedup) /\ Reaches(c)
          BY <4>2 DEF Ingest
        <5>2. Message(c) \in Messages /\ Message(c) # None
          BY <1>1, <2>1, <5>1, DedupType, IngressAssumption
        <5>3. Elements(dedup') \subseteq Elements(dedup) \cup {Message(c)}
          BY <1>1, <5>1, <5>2, RememberElements, IngressAssumption DEF TypeOK
        <5> QED
          BY <2>3, <3>3, <5>3 DEF Handled, Elements
      <4> QED
        BY <1>5, <4>1, <4>2
    <3>4. ASSUME NEW d \in Calls, NEW i \in DOMAIN delivery[d].records,
                 delivery[d].records[i].message = m,
                 \/ delivery[d].records[i].event \in Elements(seen)'
                 \/ i < pos'[d]
                 \/ answer'[d] \in {"ok", "ignored"}
          PROVE  Handled(m)
      <4>1. CASE delivery[d].records[i].event \in Elements(seen)'
        <5>1. delivery[d].records[i].event # Record(c).event \/ Record(c).event = None
          <6> SUFFICES ASSUME delivery[d].records[i].event = Record(c).event, Record(c).event # None
                       PROVE  m = Message(c)
            BY <2>3
          <6>1. delivery \in Plans /\ EventsAreUnique(delivery)
            BY <1>1, IngressAssumption DEF TypeOK
          <6> QED
            BY <2>1, <3>4, <6>1 DEF EventsAreUnique, AtRecord, Record, Message
        <5>2. delivery[d].records[i].event # Message(c) \/ Message(c) = None
          BY <1>3, <3>1, IngressAssumption
        <5>3. delivery[d].records[i].event \in Elements(seen)
          BY <3>1, <4>1, <5>1, <5>2, <1>4 DEF Elements
        <5> QED
          BY <3>4, <5>3 DEF Handled
      <4>2. CASE i < pos'[d]
        <5>1. CASE i < pos[d]
          BY <3>4, <5>1 DEF Handled
        <5>2. CASE ~(i < pos[d])
          <6>1. d = c /\ pos'[c] = pos[c] + 1
            <7>1. Continue(c)
              BY <2>1, <4>2, <5>2
            <7>2. pos' = [pos EXCEPT ![c] = pos[c] + 1]
              BY <7>1 DEF Continue
            <7> QED
              BY <1>1, <4>2, <5>2, <7>2 DEF TypeOK
          <6>2. i = pos[c]
            BY <1>1, <1>3, <4>2, <5>2, <6>1 DEF TypeOK
          <6> QED
            BY <2>3, <3>4, <6>1, <6>2 DEF Message, Record
        <5> QED
          BY <5>1, <5>2
      <4>3. CASE answer'[d] \in {"ok", "ignored"}
        BY <2>1, <3>4, <4>3 DEF Handled
      <4> QED
        BY <3>4, <4>1, <4>2, <4>3
    <3> QED
      BY <2>1, <3>2, <3>3, <3>4 DEF Handled
  <2> QED
    BY <2>2, <2>3
<1>6. ASSUME NEW c \in Calls, CheckSelf(c) \/ Admit(c) \/ TurnEnds(c), Continue(c)
      PROVE  Handled(m) \/ Accounted(m)'
  <2>1. UNCHANGED <<seen, dedup, delivery, answer>> /\ pos' = [pos EXCEPT ![c] = pos[c] + 1]
    BY <1>6 DEF CheckSelf, Admit, TurnEnds, memory, Continue
  <2>2. pc[c] \in Checks \cup {"turn"}
    BY <1>1, <1>6, DeliverMoves DEF Checks
  <2>3. Message(c) \in Messages
    BY <1>1, <2>2, BusyMessage
  <2>4. CASE m = Message(c)
    <3>1. CASE TurnEnds(c)
      <4>1. published[m] > 0 /\ UNCHANGED published
        BY <2>4, <3>1 DEF TurnEnds, LossInv, rows
      <4> QED
        BY <4>1 DEF Accounted, Settled
    <3>2. CASE CheckSelf(c) \/ Admit(c)
      <4>1. pc'[c] = "next" /\ \A label \in PC : Goto(c, label) => pc'[c] = label
        BY <1>1, <1>6, ContinueCall DEF Goto, TypeOK
      <4>2. \E reason \in Reasons : Lost(m, reason)
        BY <2>4, <3>2, <4>1 DEF CheckSelf, Admit, Reasons, PC, Checks
      <4>3. reasons'[m] # {}
        BY <1>1, <4>2 DEF Lost, TypeOK
      <4> QED
        BY <4>3 DEF Accounted
    <3> QED
      BY <1>6, <3>1, <3>2
  <2>5. CASE m # Message(c)
    <3>1. ASSUME NEW d \in Calls, NEW i \in DOMAIN delivery[d].records,
                 delivery[d].records[i].message = m, i < pos'[d]
          PROVE  i < pos[d]
      <4>1. CASE d # c
        BY <1>1, <2>1, <3>1, <4>1 DEF TypeOK
      <4>2. CASE d = c
        <5>1. i # pos[c]
          BY <2>5, <3>1, <4>2 DEF Message, Record
        <5>2. pos[c] \in Nat /\ pos'[c] = pos[c] + 1 /\ i \in Nat
          BY <1>1, <1>3, <2>1 DEF TypeOK
        <5> QED
          BY <3>1, <4>2, <5>1, <5>2
      <4> QED
        BY <4>1, <4>2
    <3> QED
      BY <2>1, <3>1 DEF Handled, Elements
  <2> QED
    BY <2>4, <2>5
<1>7. ASSUME UNCHANGED <<seen, dedup, delivery, pos>>,
             \A c \in Calls : answer'[c] \in {"ok", "ignored"} => answer[c] \in {"ok", "ignored"}
      PROVE  Handled(m)
  BY <1>7 DEF Handled, Elements
<1>8. ASSUME NEW c \in Calls, Answer(c) PROVE Handled(m)
  <2>1. /\ UNCHANGED <<seen, dedup, delivery>>
        /\ pos' = [pos EXCEPT ![c] = 1]
        /\ \A d \in Calls : d # c => answer'[d] = answer[d]
    BY <1>1, <1>8 DEF Answer, Return, memory, TypeOK
  <2>2. ASSUME NEW i \in DOMAIN delivery[c].records PROVE i < pos[c]
    <3>1. pos[c] \notin DOMAIN delivery[c].records /\ pos[c] \in Nat \ {0}
      BY <1>1, <1>8 DEF Answer, AtRecord, TypeOK
    <3>2. delivery[c].records \in Seq(Records)
      BY <1>1, IngressAssumption DEF TypeOK, Deliveries
    <3>3. DOMAIN delivery[c].records = 1 .. Len(delivery[c].records) /\ Len(delivery[c].records) \in Nat
      BY <3>2, LenProperties
    <3> QED
      BY <3>1, <3>3
  <2>3. ASSUME NEW d \in Calls, NEW i \in DOMAIN delivery[d].records, i < pos'[d]
        PROVE  i < pos[d]
    BY <1>1, <1>3, <2>1, <2>2, <2>3 DEF TypeOK
  <2> QED
    BY <2>1, <2>2, <2>3 DEF Handled, Elements
<1>9. ASSUME NEW c \in Calls, Fail(c) PROVE Handled(m)
  <2>1. /\ UNCHANGED <<seen, dedup, delivery>>
        /\ pos' = [pos EXCEPT ![c] = 1]
        /\ \A d \in Calls : answer'[d] \in {answer[d], "error"}
    BY <1>1, <1>9 DEF Fail, Return, memory, TypeOK
  <2>2. ASSUME NEW d \in Calls, NEW i \in DOMAIN delivery[d].records, i < pos'[d]
        PROVE  i < pos[d]
    BY <1>1, <1>3, <2>1, <2>2 DEF TypeOK
  <2> QED
    BY <2>1, <2>2 DEF Handled, Elements
<1>10. ASSUME NEW c \in Calls, Deliver(c) PROVE Handled(m) \/ Accounted(m)'
  <2>1. CASE Arrive(c) \/ Verify(c)
    <3>1. UNCHANGED <<seen, dedup, delivery, pos>>
          /\ \A d \in Calls : answer'[d] \in {answer[d], "limited", "rejected"}
      BY <1>1, <2>1 DEF Arrive, Verify, memory, TypeOK
    <3> QED
      BY <1>7, <3>1
  <2>2. CASE Poll(c) \/ Persist(c) \/ Publish(c)
    <3>1. UNCHANGED <<seen, dedup, delivery, pos, answer>>
      BY <2>2 DEF Poll, Persist, Publish, memory
    <3> QED
      BY <1>7, <3>1
  <2>3. CASE Ignore(c) \/ Ingest(c)
    BY <1>5, <2>3
  <2>4. CASE CheckSelf(c) \/ Admit(c) \/ TurnEnds(c)
    <3>1. CASE Continue(c)
      BY <1>6, <2>4, <3>1
    <3>2. CASE ~Continue(c)
      <4>1. UNCHANGED <<seen, dedup, delivery, pos, answer>>
        BY <2>4, <3>2 DEF CheckSelf, Admit, TurnEnds, memory
      <4> QED
        BY <1>7, <4>1
    <3> QED
      BY <3>1, <3>2
  <2>5. CASE Answer(c)
    BY <1>8, <2>5
  <2>6. CASE Fail(c)
    BY <1>9, <2>6
  <2> QED
    BY <1>10, <2>1, <2>2, <2>3, <2>4, <2>5, <2>6 DEF Deliver
<1>11. CASE SeedBot \/ Tick \/ UNCHANGED vars
  <2>1. UNCHANGED <<seen, dedup, delivery, pos, answer>>
    BY <1>11 DEF SeedBot, Tick, vars, memory, calls
  <2> QED
    BY <1>7, <2>1
<1>12. CASE Crash
  <2>1. /\ seen' = <<>> /\ dedup' = <<>> /\ UNCHANGED <<delivery, answer>>
        /\ \A c \in Calls : pos'[c] = 1
    BY <1>12 DEF Crash
  <2>2. Elements(seen)' = {} /\ Elements(dedup)' = {}
    BY <2>1, EmptySeq DEF Elements
  <2>3. \A d \in Calls : \A i \in DOMAIN delivery[d].records : ~(i < pos'[d])
    BY <1>3, <2>1
  <2> QED
    BY <2>1, <2>2, <2>3 DEF Handled
<1> QED
  BY <1>10, <1>11, <1>12 DEF Next

LEMMA LossStep == LossInv /\ [Next]_vars => LossInv'
<1> SUFFICES ASSUME LossInv, [Next]_vars PROVE LossInv'
  OBVIOUS
<1>1. TypeOK /\ TypeOK'
  BY TypeStep DEF LossInv
<1>2. ASSUME NEW m \in Messages \ Filtered, Handled(m)' PROVE Accounted(m)'
  <2>1. Handled(m) => Accounted(m)
    BY DEF LossInv
  <2> QED
    BY <1>1, <1>2, <2>1, HandledGrows, AccountedStays
<1>3. ASSUME NEW c \in Calls, pc'[c] = "turn" PROVE published'[Message(c)'] > 0
  <2>1. ASSUME NEW d \in Calls, Deliver(d) PROVE published'[Message(c)'] > 0
    <3>1. OthersStay(d) /\ \A e \in Calls : e # d => Message(e)' = Message(e)
      BY <1>1, <2>1, DeliverFrame
    <3>2. CASE Publish(d)
      <4>1. /\ published' = [published EXCEPT ![Message(d)] = @ + 1]
            /\ pc[d] = "publish" /\ UNCHANGED pos
        BY <1>1, <3>2, DeliverMoves DEF Publish
      <4>2. Message(d) \in Messages /\ Message(d)' = Message(d)
        BY <1>1, <3>1, <4>1, BusyMessage DEF OthersStay, Message, Record
      <4>3. \A m \in Messages : published'[m] >= published[m] /\ published[m] \in Nat
        <5>1. \A m \in Messages : published[m] \in Nat
          BY <1>1 DEF TypeOK
        <5>2. \A m \in Messages : published'[m] = IF m = Message(d) THEN published[m] + 1 ELSE published[m]
          BY <1>1, <4>1, <4>2 DEF TypeOK
        <5> QED
          BY <5>1, <5>2
      <4>4. CASE c = d
        BY <1>1, <4>1, <4>2, <4>4 DEF TypeOK
      <4>5. CASE c # d
        <5>1. pc[c] = "turn" /\ Message(c)' = Message(c)
          BY <1>3, <3>1, <4>5 DEF OthersStay
        <5>2. published[Message(c)] > 0 /\ Message(c) \in Messages
          BY <1>1, <5>1, BusyMessage DEF LossInv
        <5>3. published'[Message(c)] \in Nat
          BY <1>1, <5>2 DEF TypeOK
        <5> QED
          BY <4>3, <5>1, <5>2, <5>3
      <4> QED
        BY <4>4, <4>5
    <3>3. CASE ~Publish(d)
      <4>1. UNCHANGED published
        BY <2>1, <3>3 DEF Deliver, Arrive, Poll, Verify, Ignore, Ingest, CheckSelf, Admit, Persist,
           TurnEnds, Answer, Fail, rows
      <4>2. c # d
        <5>1. pc'[d] # "turn"
          BY <1>1, <2>1, <3>3, DeliverMoves DEF Deliver
        <5> QED
          BY <1>3, <5>1
      <4>3. pc[c] = "turn" /\ Message(c)' = Message(c)
        BY <1>3, <3>1, <4>2 DEF OthersStay
      <4> QED
        BY <4>1, <4>3 DEF LossInv
    <3> QED
      BY <3>2, <3>3
  <2>2. CASE SeedBot \/ Tick \/ UNCHANGED vars
    <3>1. UNCHANGED <<published, pc, pos, delivery>>
      BY <2>2 DEF SeedBot, Tick, vars, rows, calls
    <3> QED
      BY <1>3, <3>1 DEF LossInv, Message, Record
  <2>3. CASE Crash
    BY <1>3, <2>3 DEF Crash
  <2> QED
    BY <2>1, <2>2, <2>3 DEF Next
<1> QED
  BY <1>1, <1>2, <1>3 DEF LossInv

(* A delivery answered 200 has lost nothing without a reason: each of its
   messages was published, is in the hands of a call, or was dropped as the
   bot's own, for a limit, by a failure or by a restart. *)
THEOREM LossesAreExplained == Spec => []LossExplained
BY LossImplied, LossInit, LossStep, PTL DEF Spec
-----------------------------------------------------------------------------
(* Limits.  What a limiter holds of a key is the end of the history of its
   admissions: all that is missing has left the window. *)

LEMMA DownClosed ==
  ASSUME NEW n \in Nat, NEW S \in SUBSET (1 .. n),
         \A i, j \in 1 .. n : i <= j /\ j \in S => i \in S
  PROVE  /\ Cardinality(S) \in 0 .. n
         /\ S = 1 .. Cardinality(S)
<1> DEFINE e == Cardinality(S)
<1>1. IsFiniteSet(1 .. n) /\ Cardinality(1 .. n) = n
  BY FS_Interval
<1>2. IsFiniteSet(S) /\ e <= n
  BY <1>1, FS_Subset
<1>3. e \in Nat
  BY <1>2, FS_CardinalityType
<1>4. ASSUME NEW j \in S PROVE j <= e
  <2>1. 1 .. j \in SUBSET S /\ j \in Nat
    OBVIOUS
  <2>2. Cardinality(1 .. j) = j
    BY <2>1, FS_Interval
  <2> QED
    BY <1>2, <2>1, <2>2, FS_Subset
<1> HIDE DEF e
<1>5. S \in SUBSET (1 .. e)
  BY <1>3, <1>4
<1>6. IsFiniteSet(1 .. e) /\ Cardinality(1 .. e) = e
  BY <1>3, FS_Interval
<1>7. S = 1 .. e
  BY <1>5, <1>6, FS_Subset DEF e
<1> QED
  BY <1>2, <1>3, <1>7 DEF e

Charged(hits, past, now) ==
  /\ \A i, j \in 1 .. Len(past) : i <= j => past[i] <= past[j]
  /\ \A i \in 1 .. Len(past) : past[i] <= now
  /\ Len(hits) <= Len(past)
  /\ \A i \in 1 .. Len(hits) : hits[i] = past[Len(past) - Len(hits) + i]
  /\ \A i \in 1 .. Len(past) - Len(hits) : past[i] + ActorPolicy.window <= now
  /\ Len(hits) <= ActorPolicy.max

LEMMA PolicyType ==
  ActorPolicy \in Policies /\ ActorPolicy.window \in Nat /\ ActorPolicy.max \in Nat \ {0}
BY IngressAssumption DEF Policies

LEMMA ChargedEmpty ==
  ASSUME NEW now \in Nat
  PROVE  Charged(<<>>, <<>>, now)
BY EmptySeq, PolicyType DEF Charged

LEMMA ChargedLater ==
  ASSUME NEW hits \in Seq(Nat), NEW past \in Seq(Nat), NEW now \in Nat, Charged(hits, past, now)
  PROVE  Charged(hits, past, now + 1)
<1>1. Len(hits) \in Nat /\ Len(past) \in Nat /\ \A i \in 1 .. Len(past) : past[i] \in Nat
  BY LenProperties
<1>2. \A i \in 1 .. Len(past) - Len(hits) : i \in 1 .. Len(past)
  BY <1>1
<1> QED
  BY <1>1, <1>2, PolicyType DEF Charged

LEMMA ChargedLive ==
  ASSUME NEW hits \in Seq(Nat), NEW past \in Seq(Nat), NEW now \in Nat, Charged(hits, past, now)
  PROVE  Charged(Live(hits, ActorPolicy, now), past, now)
<1> DEFINE k == Len(hits)
           n == Len(past)
           w == ActorPolicy.window
           gone == Expired(hits, w, now)
           e == Cardinality(gone)
           live == Live(hits, ActorPolicy, now)
<1>1. k \in Nat /\ n \in Nat /\ DOMAIN hits = 1 .. k /\ w \in Nat /\ k <= n
  BY LenProperties, PolicyType DEF Charged
<1>2. \A i \in 1 .. n : past[i] \in Nat
  BY <1>1
<1>3. \A i \in 1 .. k : n - k + i \in 1 .. n
  BY <1>1
<1>4. \A i, j \in 1 .. k : i <= j => hits[i] <= hits[j]
  <2> SUFFICES ASSUME NEW i \in 1 .. k, NEW j \in 1 .. k, i <= j PROVE hits[i] <= hits[j]
    OBVIOUS
  <2>1. n - k + i <= n - k + j
    BY <1>1
  <2>2. past[n - k + i] <= past[n - k + j]
    BY <1>3, <2>1 DEF Charged
  <2> QED
    BY <2>2 DEF Charged
<1>5. e \in 0 .. k /\ gone = 1 .. e
  <2>1. gone \in SUBSET (1 .. k)
    BY <1>1 DEF Expired
  <2>2. ASSUME NEW i \in 1 .. k, NEW j \in 1 .. k, i <= j, j \in gone PROVE i \in gone
    <3>1. hits[i] <= hits[j] /\ hits[j] + w <= now /\ hits[i] \in Nat /\ hits[j] \in Nat
      BY <1>1, <1>4, <2>2 DEF Expired
    <3> QED
      BY <1>1, <3>1 DEF Expired
  <2> HIDE DEF gone
  <2> QED
    BY <1>1, <2>1, <2>2, DownClosed
<1>6. \A i \in 1 .. e : hits[i] + w <= now
  <2>1. \A i \in gone : hits[i] + w <= now
    BY DEF Expired
  <2> QED
    BY <1>5, <2>1
<1>7. /\ live \in Seq(Nat) /\ Len(live) = k - e
      /\ \A i \in 1 .. k - e : live[i] = hits[e + i]
  <2>1. /\ live \in Seq(Nat) /\ Len(live) = k - e
        /\ \A i \in 1 .. Len(live) : live[i] = hits[e + i]
    BY LiveType, PolicyType
  <2> QED
    BY <2>1
<1> HIDE DEF live, e, gone
<1>8. \A i \in 1 .. k - e : live[i] = past[n - Len(live) + i]
  <2> TAKE i \in 1 .. k - e
  <2>1. e + i \in 1 .. k /\ n - k + (e + i) = n - (k - e) + i
    BY <1>1, <1>5
  <2>2. hits[e + i] = past[n - k + (e + i)]
    BY <2>1 DEF Charged
  <2> QED
    BY <1>7, <2>1, <2>2
<1>9. \A i \in 1 .. n - Len(live) : past[i] + w <= now
  <2> TAKE i \in 1 .. n - Len(live)
  <2>1. i \in 1 .. n - k \/ i - (n - k) \in 1 .. e
    BY <1>1, <1>5, <1>7
  <2>2. CASE i \in 1 .. n - k
    BY <2>2 DEF Charged
  <2>3. CASE i - (n - k) \in 1 .. e
    <3>1. i - (n - k) \in 1 .. k /\ n - k + (i - (n - k)) = i
      BY <1>1, <1>5, <2>3
    <3>2. hits[i - (n - k)] = past[i]
      BY <3>1 DEF Charged
    <3> QED
      BY <1>6, <2>3, <3>2
  <2> QED
    BY <2>1, <2>2, <2>3
<1>10. Len(live) <= n /\ Len(live) <= ActorPolicy.max
  BY <1>1, <1>5, <1>7, PolicyType DEF Charged
<1> QED
  BY <1>7, <1>8, <1>9, <1>10 DEF Charged, live

LEMMA ChargedAppend ==
  ASSUME NEW hits \in Seq(Nat), NEW past \in Seq(Nat), NEW now \in Nat, Charged(hits, past, now),
         Len(hits) < ActorPolicy.max
  PROVE  Charged(Append(hits, now), Append(past, now), now)
<1> DEFINE k == Len(hits)
           n == Len(past)
           hh == Append(hits, now)
           pp == Append(past, now)
<1>1. k \in Nat /\ n \in Nat /\ k <= n /\ ActorPolicy.max \in Nat /\ ActorPolicy.window \in Nat
  BY LenProperties, PolicyType DEF Charged
<1>2. /\ Len(hh) = k + 1 /\ \A i \in 1 .. k : hh[i] = hits[i]
      /\ hh[k + 1] = now
  BY AppendProperties
<1>3. /\ Len(pp) = n + 1 /\ \A i \in 1 .. n : pp[i] = past[i]
      /\ pp[n + 1] = now
  BY AppendProperties
<1> HIDE DEF hh, pp
<1>4. \A i \in 1 .. n + 1 : pp[i] <= now
  <2>1. \A i \in 1 .. n : pp[i] <= now
    BY <1>3 DEF Charged
  <2>2. \A i \in 1 .. n + 1 : i \in 1 .. n \/ i = n + 1
    BY <1>1
  <2> QED
    BY <1>3, <2>1, <2>2
<1>5. \A i, j \in 1 .. n + 1 : i <= j => pp[i] <= pp[j]
  <2> SUFFICES ASSUME NEW i \in 1 .. n + 1, NEW j \in 1 .. n + 1, i <= j PROVE pp[i] <= pp[j]
    OBVIOUS
  <2>1. CASE j = n + 1
    BY <1>3, <1>4, <2>1
  <2>2. CASE j \in 1 .. n
    <3>1. i \in 1 .. n
      BY <1>1, <2>2
    <3> QED
      BY <1>3, <2>2, <3>1 DEF Charged
  <2> QED
    BY <1>1, <2>1, <2>2
<1>6. \A i \in 1 .. k + 1 : hh[i] = pp[(n + 1) - (k + 1) + i]
  <2> TAKE i \in 1 .. k + 1
  <2>1. CASE i = k + 1
    <3>1. (n + 1) - (k + 1) + i = n + 1
      BY <1>1, <2>1
    <3> QED
      BY <1>2, <1>3, <2>1, <3>1
  <2>2. CASE i \in 1 .. k
    <3>1. (n + 1) - (k + 1) + i = n - k + i /\ n - k + i \in 1 .. n
      BY <1>1, <2>2
    <3>2. hits[i] = past[n - k + i]
      BY <2>2 DEF Charged
    <3> QED
      BY <1>2, <1>3, <2>2, <3>1, <3>2
  <2> QED
    BY <1>1, <2>1, <2>2
<1>7. \A i \in 1 .. (n + 1) - (k + 1) : pp[i] + ActorPolicy.window <= now
  <2> TAKE i \in 1 .. (n + 1) - (k + 1)
  <2>1. i \in 1 .. n - k /\ i \in 1 .. n
    BY <1>1
  <2> QED
    BY <1>3, <2>1 DEF Charged
<1>8. k + 1 <= n + 1 /\ k + 1 <= ActorPolicy.max
  BY <1>1
<1> QED
  BY <1>2, <1>3, <1>4, <1>5, <1>6, <1>7, <1>8 DEF Charged, hh, pp

LEMMA ChargedCounts ==
  ASSUME NEW hits \in Seq(Nat), NEW past \in Seq(Nat), NEW now \in Nat, Charged(hits, past, now)
  PROVE  Cardinality({i \in DOMAIN past : now - past[i] < ActorPolicy.window}) <= ActorPolicy.max
<1> DEFINE k == Len(hits)
           n == Len(past)
           recent == {i \in DOMAIN past : now - past[i] < ActorPolicy.window}
<1>1. /\ k \in Nat /\ n \in Nat /\ k <= n /\ DOMAIN past = 1 .. n
      /\ ActorPolicy.max \in Nat /\ ActorPolicy.window \in Nat /\ k <= ActorPolicy.max
  BY LenProperties, PolicyType DEF Charged
<1>2. recent \in SUBSET (n - k + 1 .. n)
  <2> SUFFICES ASSUME NEW i \in 1 .. n, now - past[i] < ActorPolicy.window
               PROVE  i \in n - k + 1 .. n
    BY <1>1
  <2>1. past[i] \in Nat
    BY <1>1
  <2>2. i \notin 1 .. n - k
    BY <1>1, <2>1 DEF Charged
  <2> QED
    BY <1>1, <2>2
<1>3. IsFiniteSet(n - k + 1 .. n) /\ Cardinality(n - k + 1 .. n) = k
  <2> DEFINE low == n - k + 1
  <2>1. low \in Int /\ n \in Int /\ k = IF low > n THEN 0 ELSE n - low + 1
    BY <1>1
  <2> HIDE DEF low
  <2>2. IsFiniteSet(low .. n) /\ Cardinality(low .. n) = k
    BY <2>1, FS_Interval
  <2> QED
    BY <2>2 DEF low
<1>4. IsFiniteSet(recent) /\ Cardinality(recent) <= k
  BY <1>2, <1>3, FS_Subset
<1> QED
  BY <1>1, <1>4, FS_CardinalityType
(* A limiter's keys: distinct, no more than the bound, and none is missing
   that has hits. *)
Tidy(limiter) ==
  /\ Len(limiter.order) <= MaxTrackedKeys
  /\ \A i, j \in 1 .. Len(limiter.order) : limiter.order[i] = limiter.order[j] => i = j
  /\ \A k \in DOMAIN limiter.hits : ~Holds(limiter, k) => limiter.hits[k] = <<>>

LEMMA RecordedKeys ==
  ASSUME NEW Keys, NEW limiter \in Limiters(Keys), Tidy(limiter), NEW key \in Keys, NEW now \in Nat
  PROVE  LET new == Recorded(limiter, ActorPolicy, key, now)
         IN  /\ Len(new.order) <= MaxTrackedKeys + 1
             /\ Len(new.order) > MaxTrackedKeys =>
                  Len(new.order) >= 2 /\ new.order[Len(new.order)] = key
             /\ \A i, j \in 1 .. Len(new.order) : new.order[i] = new.order[j] => i = j
             /\ Holds(new, key)
             /\ \A k \in Keys : k # key => /\ Holds(new, k) <=> Holds(limiter, k)
                                           /\ new.hits[k] = limiter.hits[k]
             /\ new.hits[key] = Append(Live(limiter.hits[key], ActorPolicy, now), now)
<1> DEFINE new == Recorded(limiter, ActorPolicy, key, now)
           n == Len(limiter.order)
<1>1. /\ limiter.order \in Seq(Keys) /\ limiter.hits \in [Keys -> Seq(Nat)]
      /\ n \in Nat /\ DOMAIN limiter.order = 1 .. n
      /\ MaxTrackedKeys \in Nat \ {0} /\ n <= MaxTrackedKeys
  BY LenProperties, TrackedKeysAssumption DEF Limiters, Tidy
<1>2. /\ new.order = IF Holds(limiter, key) THEN limiter.order ELSE Append(limiter.order, key)
      /\ new.hits = [limiter.hits EXCEPT ![key] = Append(Live(@, ActorPolicy, now), now)]
  BY DEF Recorded
<1> HIDE DEF new
<1>3. /\ new.hits[key] = Append(Live(limiter.hits[key], ActorPolicy, now), now)
      /\ \A k \in Keys : k # key => new.hits[k] = limiter.hits[k]
  BY <1>1, <1>2
<1>4. CASE Holds(limiter, key)
  <2>1. new.order = limiter.order
    BY <1>2, <1>4
  <2>2. \A i, j \in 1 .. n : limiter.order[i] = limiter.order[j] => i = j
    BY DEF Tidy
  <2>3. \A k : Holds(new, k) <=> Holds(limiter, k)
    BY <2>1 DEF Holds
  <2>4. ~(n > MaxTrackedKeys) /\ n <= MaxTrackedKeys + 1
    BY <1>1
  <2> QED
    BY <1>3, <1>4, <2>1, <2>2, <2>3, <2>4 DEF new
<1>5. CASE ~Holds(limiter, key)
  <2>1. /\ new.order = Append(limiter.order, key) /\ new.order \in Seq(Keys)
        /\ Len(new.order) = n + 1 /\ new.order[n + 1] = key
        /\ \A i \in 1 .. n : new.order[i] = limiter.order[i]
    BY <1>1, <1>2, <1>5, AppendProperties
  <2>2. DOMAIN new.order = 1 .. n + 1
    BY <2>1, LenProperties
  <2>3. \A i \in 1 .. n + 1 : i \in 1 .. n \/ i = n + 1
    BY <1>1
  <2>4. \A i \in 1 .. n : limiter.order[i] # key
    BY <1>1, <1>5 DEF Holds
  <2>5. \A i, j \in 1 .. n + 1 : new.order[i] = new.order[j] => i = j
    <3> SUFFICES ASSUME NEW i \in 1 .. n + 1, NEW j \in 1 .. n + 1, new.order[i] = new.order[j]
                 PROVE  i = j
      OBVIOUS
    <3>1. CASE i \in 1 .. n /\ j \in 1 .. n
      BY <2>1, <3>1 DEF Tidy
    <3>2. CASE i = n + 1 \/ j = n + 1
      BY <2>1, <2>3, <2>4, <3>2
    <3> QED
      BY <2>3, <3>1, <3>2
  <2>6. Holds(new, key)
    <3>1. n + 1 \in DOMAIN new.order
      BY <1>1, <2>2
    <3> QED
      BY <2>1, <3>1 DEF Holds
  <2>7. \A k \in Keys : k # key => (Holds(new, k) <=> Holds(limiter, k))
    <3> SUFFICES ASSUME NEW k \in Keys, k # key PROVE Holds(new, k) <=> Holds(limiter, k)
      OBVIOUS
    <3>1. \A i \in 1 .. n : i \in 1 .. n + 1
      BY <1>1
    <3> QED
      BY <1>1, <2>1, <2>2, <2>3, <3>1 DEF Holds
  <2> QED
    BY <1>1, <1>3, <2>1, <2>5, <2>6, <2>7 DEF new
<1> QED
  BY <1>4, <1>5

LEMMA CheckedKeys ==
  ASSUME NEW Keys, NEW limiter \in Limiters(Keys), Tidy(limiter), NEW key \in Keys, NEW now \in Nat
  PROVE  LET new == Checked(limiter, ActorPolicy, key, now)
             live == Live(limiter.hits[key], ActorPolicy, now)
         IN  /\ Tidy(new)
             /\ new.hits[key] = IF Allowed(limiter, ActorPolicy, key, now)
                                  THEN Append(live, now) ELSE live
             /\ \A k \in Keys : k # key =>
                  new.hits[k] = IF Holds(new, k) THEN limiter.hits[k] ELSE <<>>
<1> DEFINE live == Live(limiter.hits[key], ActorPolicy, now)
           rec == Recorded(limiter, ActorPolicy, key, now)
<1>1. limiter.order \in Seq(Keys) /\ limiter.hits \in [Keys -> Seq(Nat)]
  BY DEF Limiters
<1>2. rec.order \in Seq(Keys) /\ rec.hits \in [Keys -> Seq(Nat)]
  BY RecordedType, PolicyType DEF Limiters
<1>3. MaxTrackedKeys \in Nat \ {0} /\ Len(rec.order) \in Nat /\ DOMAIN rec.order = 1 .. Len(rec.order)
  BY <1>2, TrackedKeysAssumption, LenProperties
<1>4. /\ Len(rec.order) <= MaxTrackedKeys + 1
      /\ Len(rec.order) > MaxTrackedKeys =>
           Len(rec.order) >= 2 /\ rec.order[Len(rec.order)] = key
      /\ \A i, j \in 1 .. Len(rec.order) : rec.order[i] = rec.order[j] => i = j
      /\ Holds(rec, key)
      /\ \A k \in Keys : k # key => /\ Holds(rec, k) <=> Holds(limiter, k)
                                    /\ rec.hits[k] = limiter.hits[k]
      /\ rec.hits[key] = Append(live, now)
  BY RecordedKeys
<1>5. CASE ~Allowed(limiter, ActorPolicy, key, now)
  <2> DEFINE new == [limiter EXCEPT !.hits[key] = Live(@, ActorPolicy, now)]
  <2>1. Checked(limiter, ActorPolicy, key, now) = new
    BY <1>5 DEF Checked
  <2>2. /\ new.order = limiter.order /\ new.hits[key] = live
        /\ \A k \in Keys : k # key => new.hits[k] = limiter.hits[k]
        /\ DOMAIN new.hits = Keys
    BY <1>1 DEF Limiters
  <2>3. Holds(limiter, key)
    <3> SUFFICES ASSUME ~Holds(limiter, key) PROVE FALSE
      OBVIOUS
    <3>1. limiter.hits[key] = <<>>
      BY <1>1 DEF Tidy
    <3> DEFINE none == <<>>
    <3>2. none \in Seq(Nat) /\ Len(none) = 0
      BY EmptySeq
    <3>3. live = Live(none, ActorPolicy, now)
      BY <3>1
    <3> HIDE DEF none, live
    <3>4. Len(live) = 0 - Cardinality(Expired(none, ActorPolicy.window, now))
      BY <3>2, <3>3, LiveType, PolicyType
    <3>5. Cardinality(Expired(none, ActorPolicy.window, now)) \in 0 .. 0
      BY <3>2, ExpiredCount, PolicyType
    <3>6. ~(Len(live) < ActorPolicy.max)
      BY <1>5 DEF Allowed, live
    <3> QED
      BY <3>4, <3>5, <3>6, PolicyType
  <2> HIDE DEF new
  <2>4. \A k : Holds(new, k) <=> Holds(limiter, k)
    BY <2>2 DEF Holds
  <2>5. Tidy(new)
    BY <1>1, <2>2, <2>3, <2>4 DEF Tidy
  <2>6. \A k \in Keys : k # key => new.hits[k] = IF Holds(new, k) THEN limiter.hits[k] ELSE <<>>
    BY <1>1, <2>2, <2>4 DEF Tidy
  <2> QED
    BY <1>5, <2>1, <2>2, <2>5, <2>6
<1>6. CASE Allowed(limiter, ActorPolicy, key, now) /\ ~(Len(rec.order) > MaxTrackedKeys)
  <2>1. Checked(limiter, ActorPolicy, key, now) = rec
    BY <1>6 DEF Checked
  <2> HIDE DEF rec
  <2>2. \A k \in Keys : k # key /\ ~Holds(rec, k) => limiter.hits[k] = <<>>
    BY <1>1, <1>4 DEF Tidy
  <2>3. \A k \in Keys : ~Holds(rec, k) => rec.hits[k] = <<>>
    BY <1>4, <2>2
  <2>4. Tidy(rec)
    <3>1. Len(rec.order) <= MaxTrackedKeys /\ DOMAIN rec.hits = Keys
      BY <1>2, <1>3, <1>6
    <3>2. \A i, j \in 1 .. Len(rec.order) : rec.order[i] = rec.order[j] => i = j
      BY <1>4
    <3> QED
      BY <2>3, <3>1, <3>2 DEF Tidy
  <2> QED
    BY <1>4, <1>6, <2>1, <2>2, <2>4
<1>7. CASE Allowed(limiter, ActorPolicy, key, now) /\ Len(rec.order) > MaxTrackedKeys
  <2> DEFINE new == Evicted(rec)
             n == Len(rec.order)
  <2>1. Checked(limiter, ActorPolicy, key, now) = new
    BY <1>7 DEF Checked
  <2>2. /\ new.order = Tail(rec.order)
        /\ new.hits = [rec.hits EXCEPT ![Head(rec.order)] = <<>>]
    BY DEF Evicted
  <2> HIDE DEF rec
  <2>3. n \in Nat /\ n >= 2 /\ n = MaxTrackedKeys + 1
    BY <1>3, <1>4, <1>7
  <2>4. rec.order # <<>>
    BY <2>3, EmptySeq
  <2> HIDE DEF new
  <2>5. /\ Len(new.order) = n - 1 /\ new.order \in Seq(Keys)
        /\ \A i \in 1 .. n - 1 : new.order[i] = rec.order[i + 1]
    BY <1>2, <2>2, <2>4, HeadTailProperties
  <2>6. DOMAIN new.order = 1 .. n - 1
    BY <2>5, LenProperties
  <2>7. Head(rec.order) = rec.order[1]
    BY <1>2, <2>4
  <2>8. key # rec.order[1]
    BY <1>4, <1>7, <2>3
  <2>9. \A i, j \in 1 .. n - 1 : new.order[i] = new.order[j] => i = j
    <3> SUFFICES ASSUME NEW i \in 1 .. n - 1, NEW j \in 1 .. n - 1, new.order[i] = new.order[j]
                 PROVE  i = j
      OBVIOUS
    <3>1. i + 1 \in 1 .. n /\ j + 1 \in 1 .. n /\ rec.order[i + 1] = rec.order[j + 1]
      BY <2>3, <2>5
    <3>2. i + 1 = j + 1
      BY <1>4, <3>1
    <3> QED
      BY <3>2
  <2>10. \A k \in Keys : Holds(rec, k) /\ k # rec.order[1] => Holds(new, k)
    <3> SUFFICES ASSUME NEW k \in Keys, k # rec.order[1], NEW i \in 1 .. n, rec.order[i] = k
                 PROVE  \E j \in 1 .. n - 1 : new.order[j] = k
      BY <1>3, <2>6 DEF Holds
    <3>1. i - 1 \in 1 .. n - 1 /\ (i - 1) + 1 = i
      BY <2>3
    <3> QED
      BY <2>5, <3>1
  <2>11. ~Holds(new, rec.order[1])
    <3> SUFFICES ASSUME NEW j \in 1 .. n - 1, new.order[j] = rec.order[1] PROVE FALSE
      BY <2>6 DEF Holds
    <3>1. j + 1 \in 1 .. n /\ 1 \in 1 .. n /\ rec.order[j + 1] = rec.order[1]
      BY <2>3, <2>5
    <3>2. j + 1 = 1
      BY <1>4, <3>1
    <3> QED
      BY <3>2
  <2>12. /\ rec.order[1] \in Keys
         /\ new.hits[rec.order[1]] = <<>>
         /\ \A k \in Keys : k # rec.order[1] => new.hits[k] = rec.hits[k]
         /\ DOMAIN new.hits = Keys
    <3>1. rec.order[1] \in Keys
      BY <1>2, <2>3, LenProperties
    <3> QED
      BY <1>2, <2>2, <2>7, <3>1
  <2>13. \A k \in Keys : k # key => new.hits[k] = IF Holds(new, k) THEN limiter.hits[k] ELSE <<>>
    <3> TAKE k \in Keys
    <3> HAVE k # key
    <3>1. CASE k = rec.order[1]
      BY <2>11, <2>12, <3>1
    <3>2. CASE k # rec.order[1]
      <4>1. new.hits[k] = limiter.hits[k]
        BY <1>4, <2>12, <3>2
      <4>2. ~Holds(new, k) => limiter.hits[k] = <<>>
        BY <1>1, <1>4, <2>10, <3>2 DEF Tidy
      <4> QED
        BY <4>1, <4>2
    <3> QED
      BY <3>1, <3>2
  <2>14. new.hits[key] = Append(live, now) /\ Holds(new, key)
    BY <1>4, <2>8, <2>10, <2>12
  <2>15. Tidy(new)
    <3>1. \A k \in Keys : ~Holds(new, k) => new.hits[k] = <<>>
      BY <2>13, <2>14
    <3>2. Len(new.order) <= MaxTrackedKeys
      BY <1>3, <2>3, <2>5
    <3> QED
      BY <2>5, <2>9, <2>12, <3>1, <3>2 DEF Tidy
  <2> QED
    BY <1>7, <2>1, <2>13, <2>14, <2>15
<1> QED
  BY <1>5, <1>6, <1>7

BudgetInv ==
  /\ TypeOK
  /\ Tidy(actorLimiter)
  /\ \A a \in Actors : Charged(actorLimiter.hits[a], admitted[a], clock)

LEMMA BudgetImplied == BudgetInv => WithinBudget
<1> SUFFICES ASSUME BudgetInv, NEW a \in Actors
             PROVE  Cardinality({i \in DOMAIN admitted[a] : clock - admitted[a][i] < ActorPolicy.window})
                      <= ActorPolicy.max
  BY DEF WithinBudget
<1>1. /\ actorLimiter.hits[a] \in Seq(Nat) /\ admitted[a] \in Seq(Nat) /\ clock \in Nat
      /\ Charged(actorLimiter.hits[a], admitted[a], clock)
  BY IngressAssumption DEF BudgetInv, TypeOK, Limiters
<1> QED
  BY <1>1, ChargedCounts

LEMMA FreshTidy ==
  ASSUME NEW Keys
  PROVE  Tidy(Fresh(Keys)) /\ \A k \in Keys : Fresh(Keys).hits[k] = <<>>
<1>1. Fresh(Keys).order = <<>> /\ Fresh(Keys).hits = [k \in Keys |-> <<>>]
  BY DEF Fresh
<1>2. Len(<<>>) = 0 /\ \A i : i \notin 1 .. 0
  BY EmptySeq
<1> QED
  BY <1>1, <1>2, TrackedKeysAssumption DEF Tidy

LEMMA BudgetInit == Init => BudgetInv
<1> SUFFICES ASSUME Init PROVE BudgetInv
  OBVIOUS
<1>1. TypeOK /\ clock = 0 /\ actorLimiter = Fresh(Actors) /\ \A a \in Actors : admitted[a] = <<>>
  BY InitType DEF Init
<1>2. \A a \in Actors : Charged(actorLimiter.hits[a], admitted[a], clock)
  BY <1>1, FreshTidy, ChargedEmpty
<1> QED
  BY <1>1, <1>2, FreshTidy DEF BudgetInv

LEMMA BudgetStep == BudgetInv /\ [Next]_vars => BudgetInv'
<1> SUFFICES ASSUME BudgetInv, [Next]_vars PROVE BudgetInv'
  OBVIOUS
<1>1. TypeOK /\ TypeOK'
  BY TypeStep DEF BudgetInv
<1>2. /\ clock \in Nat
      /\ \A a \in Actors : actorLimiter.hits[a] \in Seq(Nat) /\ admitted[a] \in Seq(Nat)
  BY <1>1, IngressAssumption DEF TypeOK, Limiters
<1>3. ASSUME NEW c \in Calls, Admit(c) PROVE BudgetInv'
  <2> DEFINE live == Live(actorLimiter.hits[Actor(c)], ActorPolicy, clock)
  <2>1. Actor(c) \in Actors
    BY <1>1, <1>3, BusyMessage DEF Admit, Checks
  <2>2. /\ actorLimiter' = Checked(actorLimiter, ActorPolicy, Actor(c), clock)
        /\ UNCHANGED clock
    BY <1>3 DEF Admit, counters
  <2>3. /\ Tidy(actorLimiter')
        /\ actorLimiter'.hits[Actor(c)] = IF AdmitActor(c) THEN Append(live, clock) ELSE live
        /\ \A a \in Actors : a # Actor(c) =>
             actorLimiter'.hits[a] = IF Holds(actorLimiter', a) THEN actorLimiter.hits[a] ELSE <<>>
    BY <1>1, <1>2, <2>1, <2>2, CheckedKeys DEF BudgetInv, TypeOK, AdmitActor
  <2>4. /\ live \in Seq(Nat)
        /\ Charged(live, admitted[Actor(c)], clock)
    BY <1>2, <2>1, ChargedLive, LiveType, PolicyType DEF BudgetInv
  <2>5. /\ admitted'[Actor(c)] = IF AdmitActor(c) THEN Append(admitted[Actor(c)], clock)
                                 ELSE admitted[Actor(c)]
        /\ \A a \in Actors : a # Actor(c) =>
             admitted'[a] = IF Holds(actorLimiter', a) THEN admitted[a] ELSE <<>>
    BY <1>3, <2>1 DEF Admit
  <2>6. AdmitActor(c) => Len(live) < ActorPolicy.max
    BY DEF AdmitActor, Allowed
  <2> HIDE DEF live
  <2>7. Charged(actorLimiter'.hits[Actor(c)], admitted'[Actor(c)], clock)
    BY <1>2, <2>1, <2>3, <2>4, <2>5, <2>6, ChargedAppend
  <2>8. \A a \in Actors : a # Actor(c) => Charged(actorLimiter'.hits[a], admitted'[a], clock)
    <3> TAKE a \in Actors
    <3> HAVE a # Actor(c)
    <3>1. CASE Holds(actorLimiter', a)
      BY <2>3, <2>5, <3>1 DEF BudgetInv
    <3>2. CASE ~Holds(actorLimiter', a)
      BY <1>2, <2>3, <2>5, <3>2, ChargedEmpty
    <3> QED
      BY <3>1, <3>2
  <2> QED
    BY <1>1, <2>2, <2>3, <2>7, <2>8 DEF BudgetInv
<1>4. CASE Tick
  <2>1. UNCHANGED <<actorLimiter, admitted>> /\ clock' = clock + 1
    BY <1>4 DEF Tick, limiters, history
  <2> QED
    BY <1>1, <1>2, <2>1, ChargedLater DEF BudgetInv
<1>5. CASE Crash
  <2>1. /\ actorLimiter' = Fresh(Actors) /\ UNCHANGED clock
        /\ \A a \in Actors : admitted'[a] = <<>>
    BY <1>5 DEF Crash
  <2>2. \A a \in Actors : Charged(actorLimiter'.hits[a], admitted'[a], clock)
    BY <1>2, <2>1, FreshTidy, ChargedEmpty
  <2> QED
    BY <1>1, <2>1, <2>2, FreshTidy DEF BudgetInv
<1>6. ASSUME UNCHANGED <<actorLimiter, admitted, clock>> PROVE BudgetInv'
  BY <1>1, <1>6 DEF BudgetInv
<1>7. ASSUME NEW c \in Calls, Deliver(c), ~Admit(c) PROVE BudgetInv'
  <2>1. UNCHANGED <<actorLimiter, admitted, clock>>
    BY <1>7 DEF Deliver, Arrive, Poll, Verify, Ignore, Ingest, CheckSelf, Persist, Publish,
       TurnEnds, Answer, Fail, limiters, counters, history
  <2> QED
    BY <1>6, <2>1
<1>8. CASE SeedBot \/ UNCHANGED vars
  <2>1. UNCHANGED <<actorLimiter, admitted, clock>>
    BY <1>8 DEF SeedBot, vars, limiters, counters, history
  <2> QED
    BY <1>6, <2>1
<1> QED
  BY <1>3, <1>4, <1>5, <1>7, <1>8 DEF Next

(* In no window is an actor admitted more often than its policy allows, as
   long as the bounded limiter keeps it: whatever the interleaving, and
   although a refusal and an eviction both rewrite what it holds. *)
THEOREM ActorsStayWithinBudget == Spec => []WithinBudget
BY BudgetImplied, BudgetInit, BudgetStep, PTL DEF Spec
=================================================================================
