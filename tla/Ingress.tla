-------------------------------- MODULE Ingress --------------------------------
(***************************************************************************)
(* The way of a message into the system: the HTTP routes of the webhook    *)
(* server, the Caspian gateway (a batch of event records per delivery, or  *)
(* one polled message) and the GitHub gateway, and                         *)
(* CommunicationService.ingest with its deduplication, self-event check,   *)
(* rate limits, persistence and publication.  Calls interleave at every    *)
(* await; what runs between two awaits is one action.  Event ids, message  *)
(* ids and limiter windows live in memory and go with the process, rows    *)
(* of the database stay.                                                   *)
(*                                                                         *)
(* A message is what ingest calls an event id: a Caspian message or one    *)
(* GitHub delivery.  Its sender stands for the resolved actor and its      *)
(* thread for the conversation (modules IdentityService and                *)
(* ConversationService).                                                   *)
(***************************************************************************)
EXTENDS RateLimiter, Integers

CONSTANTS
  Messages, Events,  \* message ids and Caspian event ids
  Calls,             \* deliveries received, one handler call each
  Plans,             \* assignments of deliveries to calls; in one of them the
                     \* Caspian messages are either all pushed or all polled
  Clients, Client,   \* client addresses, [Calls -> Clients]
  Actors, Threads, Sender, Thread,
  Filtered,          \* messages on a disabled channel, of an unsupported kind,
                     \* or that do not mention the bot
  Bot,               \* the GitHub App's own account
  None,
  MaxSeen,           \* SeenEvents.maxSize: 2048
  MaxDedup,          \* DeduplicationService.maxSize: 5000
  HttpPolicy, ActorPolicy, ThreadPolicy,  \* 30 in 10 s, 20 and 40 in 60 s
  MaxClock, MaxDbFailures, MaxCrashes     \* bounds

Paths == {"webhook", "github", "poll"}
Routes == {"webhook", "github"}
Outcomes == {"limited", "rejected", "ok", "ignored", "error"}

(* A record of a delivery that is not a usable message.received event has
   no message; one without an id has no event. *)
Records == [event : Events \cup {None}, message : Messages \cup {None}]
Deliveries == [path : Paths, authentic : BOOLEAN, records : Seq(Records)]
Policies == [window : Nat, max : Nat \ {0}]

(* An event id names one event, whichever deliveries carry it. *)
EventsAreUnique(plan) ==
  \A c, d \in Calls : \A i \in DOMAIN plan[c].records, j \in DOMAIN plan[d].records :
    LET r == plan[c].records[i]  s == plan[d].records[j]
    IN  r.event = s.event /\ r.event # None => r.message = s.message

ASSUME IngressAssumption ==
  /\ None \notin Messages \cup Events \cup Outcomes
  /\ Messages \cap Events = {}
  /\ Plans \subseteq [Calls -> Deliveries]
  /\ \A plan \in Plans : EventsAreUnique(plan)
  /\ Client \in [Calls -> Clients]
  /\ Sender \in [Messages -> Actors] /\ Thread \in [Messages -> Threads]
  /\ Filtered \subseteq Messages
  /\ MaxSeen \in Nat \ {0} /\ MaxDedup \in Nat \ {0}
  /\ {HttpPolicy, ActorPolicy, ThreadPolicy} \subseteq Policies
  /\ {MaxClock, MaxDbFailures, MaxCrashes} \subseteq Nat
  /\ IsFiniteSet(Calls)

VARIABLES
  seen, dedup,        \* remembered ids, the oldest first
  httpLimiter, actorLimiter, threadLimiter,
  bot,                \* the actors row of Bot has type 'bot'
  stored, published,  \* per message: rows of it, times it was published
  pc, delivery, pos,  \* per call: where it is, in which record of what
  accepted, answer,   \* per call: records accepted, outcome
  clock, failures, crashes,
  forgotten,          \* history: times each message's id was forgotten
  reasons,            \* history: why a message was dropped
  early,              \* history: calls with a message of the bot that were past the
                      \* self-event check when it became known; until then, all
  admitted            \* history: admissions of an actor it is still charged for

memory == <<seen, dedup>>
limiters == <<httpLimiter, actorLimiter, threadLimiter>>
rows == <<bot, stored, published>>
calls == <<pc, delivery, pos, accepted, answer>>
counters == <<clock, failures, crashes>>
history == <<forgotten, reasons, early, admitted>>
vars == <<memory, limiters, rows, calls, counters, history>>

Checks == {"isSelf", "resolve", "persist"}  \* awaits of the database in ingest
PC == {"idle", "reading", "next", "publish", "turn", "answered", "aborted"} \cup Checks
Answers == {None} \cup Outcomes
Reasons == {"self", "limit", "fault", "crash"}

Record(c) == delivery[c].records[pos[c]]
Message(c) == Record(c).message

TypeOK ==
  /\ seen \in Seq(Events \cup Messages) /\ Len(seen) <= MaxSeen
  /\ dedup \in Seq(Messages) /\ Len(dedup) <= MaxDedup
  /\ httpLimiter \in [Routes -> Limiters(Clients)]
  /\ actorLimiter \in Limiters(Actors)
  /\ threadLimiter \in Limiters(Threads)
  /\ bot \in BOOLEAN
  /\ stored \in [Messages -> Nat] /\ published \in [Messages -> Nat]
  /\ pc \in [Calls -> PC]
  /\ delivery \in Plans
  /\ \A c \in Calls : pc[c] \in Checks \cup {"publish", "turn"} =>
       pos[c] \in DOMAIN delivery[c].records /\ Record(c).message # None
  /\ pos \in [Calls -> Nat \ {0}] /\ accepted \in [Calls -> Nat]
  /\ answer \in [Calls -> Answers]
  /\ clock \in 0 .. MaxClock
  /\ failures \in 0 .. MaxDbFailures /\ crashes \in 0 .. MaxCrashes
  /\ forgotten \in [Messages -> Nat]
  /\ reasons \in [Messages -> SUBSET Reasons]
  /\ early \subseteq Calls
  /\ admitted \in [Actors -> Seq(Nat)]

Init ==
  /\ seen = <<>> /\ dedup = <<>>
  /\ httpLimiter = [r \in Routes |-> Fresh(Clients)]
  /\ actorLimiter = Fresh(Actors)
  /\ threadLimiter = Fresh(Threads)
  /\ bot = FALSE
  /\ stored = [m \in Messages |-> 0] /\ published = [m \in Messages |-> 0]
  /\ pc = [c \in Calls |-> "idle"]
  /\ delivery \in Plans
  /\ pos = [c \in Calls |-> 1]
  /\ accepted = [c \in Calls |-> 0]
  /\ answer = [c \in Calls |-> None]
  /\ clock = 0 /\ failures = 0 /\ crashes = 0
  /\ forgotten = [m \in Messages |-> 0]
  /\ reasons = [m \in Messages |-> {}]
  /\ early = Calls
  /\ admitted = [a \in Actors |-> <<>>]

-----------------------------------------------------------------------------
Elements(s) == {s[i] : i \in DOMAIN s}

(* Mutant of Remember: the oldest id goes one id too late. *)
RememberOneMore(s, id, bound) ==
  IF id = None \/ id \in Elements(s) THEN s
  ELSE IF Len(s) <= bound THEN Append(s, id)
  ELSE Append(Tail(s), id)

(* SeenEvents.add and DeduplicationService.isDuplicate: a bounded Set that
   forgets its oldest id. *)
Remember(s, id, bound) ==
  IF id = None \/ id \in Elements(s) THEN s
  ELSE IF Len(s) < bound THEN Append(s, id)
  ELSE Append(Tail(s), id)

Actor(c) == Sender[Message(c)]

(* The two guards of the webhook loop: the ids it has remembered after a
   record, and whether the record passes both. *)
SeenAfter(c) ==
  IF delivery[c].path = "webhook" /\ Record(c).event \notin Elements(seen)
    THEN Remember(Remember(seen, Record(c).event, MaxSeen), Message(c), MaxSeen)
    ELSE seen

Unseen(c) ==
  delivery[c].path = "webhook" =>
    /\ Record(c).event \notin Elements(seen)
    /\ Message(c) \notin Elements(Remember(seen, Record(c).event, MaxSeen))

(* The record reaches ingest: fromEventRecord made a message of it, the
   guards let it through and no filter of its gateway applies. *)
Reaches(c) == Message(c) # None /\ Unseen(c) /\ Message(c) \notin Filtered

Goto(c, label) == pc' = [pc EXCEPT ![c] = label]

(* The loop of handleWebhook goes to its next record. *)
Continue(c) == Goto(c, "next") /\ pos' = [pos EXCEPT ![c] = @ + 1]

(* The handler returns or throws: the call is answered, its locals are gone. *)
Return(c, outcome) ==
  /\ Goto(c, "answered")
  /\ answer' = [answer EXCEPT ![c] = outcome]
  /\ pos' = [pos EXCEPT ![c] = 1]
  /\ accepted' = [accepted EXCEPT ![c] = 0]

Lost(m, reason) == reasons' = [reasons EXCEPT ![m] = @ \cup {reason}]

AtRecord(c) == pc[c] = "next" /\ pos[c] \in DOMAIN delivery[c].records

-----------------------------------------------------------------------------
(* A delivery arrives on a route of the webhook server, which limits the
   requests of a client before it reads the body. *)
Arrive(c) ==
  /\ pc[c] = "idle"
  /\ LET path == delivery[c].path
     IN  /\ path \in Routes
         /\ httpLimiter' = [httpLimiter EXCEPT ![path] = Checked(@, HttpPolicy, Client[c], clock)]
         /\ IF Allowed(httpLimiter[path], HttpPolicy, Client[c], clock)
              THEN Goto(c, "reading") /\ UNCHANGED answer
              ELSE Goto(c, "answered") /\ answer' = [answer EXCEPT ![c] = "limited"]
  /\ UNCHANGED <<memory, actorLimiter, threadLimiter, rows, delivery, pos, accepted, counters,
                 history>>

(* The SDK's polling loop hands over one message. *)
Poll(c) ==
  /\ pc[c] = "idle"
  /\ delivery[c].path = "poll"
  /\ Goto(c, "next")
  /\ UNCHANGED <<memory, limiters, rows, delivery, pos, accepted, answer, counters, history>>

(* The body is read, and its size, signature and syntax are checked. *)
Verify(c) ==
  /\ pc[c] = "reading"
  /\ IF delivery[c].authentic
       THEN Goto(c, "next") /\ UNCHANGED answer
       ELSE Goto(c, "answered") /\ answer' = [answer EXCEPT ![c] = "rejected"]
  /\ UNCHANGED <<memory, limiters, rows, delivery, pos, accepted, counters, history>>

(* Mutant of Ignore: one record seen before ends the delivery. *)
IgnoreRest(c) ==
  /\ AtRecord(c)
  /\ ~Reaches(c)
  /\ seen' = SeenAfter(c)
  /\ pos' = [pos EXCEPT ![c] = Len(delivery[c].records) + 1]
  /\ UNCHANGED <<dedup, limiters, rows, pc, delivery, accepted, answer, counters, history>>

(* A record that does not reach ingest. *)
Ignore(c) ==
  /\ AtRecord(c)
  /\ ~Reaches(c)
  /\ seen' = SeenAfter(c)
  /\ Continue(c)
  /\ UNCHANGED <<dedup, limiters, rows, delivery, accepted, answer, counters, history>>

(* Mutant of Ingest: the id is looked up now and remembered by persist. *)
IngestUnmarked(c) ==
  /\ AtRecord(c)
  /\ Reaches(c)
  /\ seen' = SeenAfter(c)
  /\ IF Message(c) \in Elements(dedup)
       THEN Continue(c)
       ELSE Goto(c, "isSelf") /\ UNCHANGED pos
  /\ UNCHANGED <<dedup, limiters, rows, delivery, accepted, answer, counters, history>>

(* A record reaches ingest, whose first act, before any await, is to look
   its id up and to remember it. *)
Ingest(c) ==
  /\ AtRecord(c)
  /\ Reaches(c)
  /\ seen' = SeenAfter(c)
  /\ dedup' = Remember(dedup, Message(c), MaxDedup)
  /\ forgotten' = [m \in Messages |->
       IF m \in Elements(dedup) \ Elements(dedup') THEN forgotten[m] + 1 ELSE forgotten[m]]
  /\ IF Message(c) \in Elements(dedup)
       THEN Continue(c)
       ELSE Goto(c, "isSelf") /\ UNCHANGED pos
  /\ UNCHANGED <<limiters, rows, delivery, accepted, answer, counters, reasons, early, admitted>>

(* isSelfEvent reads the sender's actors row. *)
CheckSelf(c) ==
  /\ pc[c] = "isSelf"
  /\ IF Actor(c) = Bot /\ bot
       THEN Continue(c) /\ Lost(Message(c), "self")
       ELSE Goto(c, "resolve") /\ UNCHANGED <<pos, reasons>>
  /\ UNCHANGED <<memory, limiters, rows, delivery, accepted, answer, counters, forgotten, early,
                 admitted>>

AdmitActor(c) == Allowed(actorLimiter, ActorPolicy, Actor(c), clock)
AdmitThread(c) == Allowed(threadLimiter, ThreadPolicy, Thread[Message(c)], clock)

(* Mutant of Admit: the limiters are asked and their answer is dropped. *)
AdmitAll(c) ==
  /\ pc[c] = "resolve"
  /\ actorLimiter' = Recorded(actorLimiter, ActorPolicy, Actor(c), clock)
  /\ admitted' = [admitted EXCEPT ![Actor(c)] = Append(@, clock)]
  /\ Goto(c, "persist")
  /\ UNCHANGED <<memory, httpLimiter, threadLimiter, rows, delivery, pos, accepted, answer,
                 counters, forgotten, reasons, early>>

(* The actor and the conversation are resolved, then the two limits are
   asked in the same breath.  A message over the conversation's limit has
   been charged to its actor already. *)
Admit(c) ==
  /\ pc[c] = "resolve"
  /\ actorLimiter' = Checked(actorLimiter, ActorPolicy, Actor(c), clock)
  /\ threadLimiter' = IF AdmitActor(c)
                        THEN Checked(threadLimiter, ThreadPolicy, Thread[Message(c)], clock)
                        ELSE threadLimiter
  /\ admitted' = [a \in Actors |->
       IF a = Actor(c) THEN IF AdmitActor(c) THEN Append(admitted[a], clock) ELSE admitted[a]
       ELSE IF Holds(actorLimiter', a) THEN admitted[a] ELSE <<>>]
  /\ IF AdmitActor(c) /\ AdmitThread(c)
       THEN Goto(c, "persist") /\ UNCHANGED <<pos, reasons>>
       ELSE Continue(c) /\ Lost(Message(c), "limit")
  /\ UNCHANGED <<memory, httpLimiter, rows, delivery, accepted, answer, counters, forgotten, early>>

Persist(c) ==
  /\ pc[c] = "persist"
  /\ stored' = [stored EXCEPT ![Message(c)] = @ + 1]
  /\ Goto(c, "publish")
  /\ UNCHANGED <<memory, limiters, bot, published, delivery, pos, accepted, answer, counters, history>>

(* The bus hands the envelope to its subscribers ... *)
Publish(c) ==
  /\ pc[c] = "publish"
  /\ published' = [published EXCEPT ![Message(c)] = @ + 1]
  /\ Goto(c, "turn")
  /\ UNCHANGED <<memory, limiters, bot, stored, delivery, pos, accepted, answer, counters, history>>

(* ... and waits for the agent's turn, whose failure it swallows. *)
TurnEnds(c) ==
  /\ pc[c] = "turn"
  /\ accepted' = [accepted EXCEPT ![c] = @ + 1]
  /\ Continue(c)
  /\ UNCHANGED <<memory, limiters, rows, delivery, answer, counters, history>>

(* Every record is done. *)
Answer(c) ==
  /\ pc[c] = "next" /\ ~AtRecord(c)
  /\ Return(c, IF accepted[c] > 0 THEN "ok" ELSE "ignored")
  /\ UNCHANGED <<memory, limiters, rows, delivery, counters, history>>

(* A database call of ingest throws, and with it the whole delivery: 500.
   An insert may have been committed although its caller sees an error. *)
Fail(c) ==
  /\ failures < MaxDbFailures
  /\ failures' = failures + 1
  /\ pc[c] \in Checks
  /\ Return(c, "error")
  /\ Lost(Message(c), "fault")
  /\ stored' \in {stored} \cup (IF pc[c] = "persist"
                                  THEN {[stored EXCEPT ![Message(c)] = @ + 1]} ELSE {})
  /\ UNCHANGED <<memory, limiters, bot, published, delivery, clock, crashes, forgotten,
                 early, admitted>>

Deliver(c) == \/ Arrive(c) \/ Poll(c) \/ Verify(c) \/ Ignore(c) \/ Ingest(c)
              \/ CheckSelf(c) \/ Admit(c) \/ Persist(c) \/ Publish(c)
              \/ TurnEnds(c) \/ Answer(c) \/ Fail(c)

PastSelfCheck == {"resolve", "persist", "publish", "turn"}

(* ensureGitHubBotActor, started with the process and awaited by nobody.  Its
   failure is only logged: then the step is never taken. *)
SeedBot ==
  /\ ~bot
  /\ bot' = TRUE
  /\ early' = {c \in early : pc[c] \in PastSelfCheck /\ Actor(c) = Bot}
  /\ UNCHANGED <<memory, limiters, stored, published, calls, counters, forgotten, reasons,
                 admitted>>

Tick ==
  /\ clock < MaxClock
  /\ clock' = clock + 1
  /\ UNCHANGED <<memory, limiters, rows, calls, failures, crashes, history>>

(* The calls that hold a message: past its deduplication, not yet done. *)
Holding(m) == {c \in Calls : pc[c] \in Checks \cup {"publish"} /\ Message(c) = m}

(* Mutant of Crash: the bot's account is known in memory only. *)
CrashUnseeds ==
  /\ crashes < MaxCrashes
  /\ crashes' = crashes + 1
  /\ bot' = FALSE
  /\ UNCHANGED <<memory, limiters, stored, published, calls, clock, failures, history>>

(* The process dies and a new one starts. *)
Crash ==
  /\ crashes < MaxCrashes
  /\ crashes' = crashes + 1
  /\ seen' = <<>> /\ dedup' = <<>>
  /\ httpLimiter' = [r \in Routes |-> Fresh(Clients)]
  /\ actorLimiter' = Fresh(Actors)
  /\ threadLimiter' = Fresh(Threads)
  /\ pc' = [c \in Calls |-> IF pc[c] \in {"idle", "answered"} THEN pc[c] ELSE "aborted"]
  /\ pos' = [c \in Calls |-> 1]
  /\ accepted' = [c \in Calls |-> 0]
  /\ forgotten' = [m \in Messages |->
       IF m \in Elements(dedup) THEN forgotten[m] + 1 ELSE forgotten[m]]
  /\ reasons' = [m \in Messages |->
       IF Holding(m) # {} THEN reasons[m] \cup {"crash"} ELSE reasons[m]]
  /\ admitted' = [a \in Actors |-> <<>>]
  /\ UNCHANGED <<rows, delivery, answer, clock, failures, early>>

Next == \/ \E c \in Calls : Deliver(c)
        \/ SeedBot \/ Tick \/ Crash

Spec == Init /\ [][Next]_vars

-----------------------------------------------------------------------------
(* A message is stored and published at most once more than its id was
   forgotten, by eviction or by a restart: no redelivery, under the same or
   a fresh event id, and no race of two deliveries reaches the agent twice,
   so none of them posts a second reply (docs/architecture/integrations.md). *)
ProcessedOnce ==
  \A m \in Messages : published[m] <= stored[m] /\ stored[m] <= 1 + forgotten[m]

(* The usable messages of a call's delivery. *)
Wanted(c) == {r.message : r \in Elements(delivery[c].records)} \ (Filtered \cup {None})

Settled(m) == published[m] > 0 \/ Holding(m) # {}

(* A delivery answered 200 has had every one of its messages published, is
   in the hands of another call, or was dropped for a reason: its sender is
   the bot, a limit was hit, or the process failed it. *)
LossExplained ==
  \A c \in Calls : answer[c] \in {"ok", "ignored"} =>
    \A m \in Wanted(c) : Settled(m) \/ reasons[m] # {}

(* SeenEvents is a "set of already-processed event ids, guarding against
   retries" (caspian-gateway.ts): what a retry is told to be done with was
   published or dropped on purpose, and not by the failure it retries. *)
RetryRepairs ==
  \A c \in Calls : answer[c] \in {"ok", "ignored"} =>
    \A m \in Wanted(c) : Settled(m) \/ reasons[m] \cap {"self", "limit"} # {}

(* The agent does not answer itself: once its account is seeded, and however
   often the process restarts, no message of the bot gets past the self-event
   check; only calls that were past it at that moment still go on. *)
BotIsQuiet ==
  \A c \in Calls : pc[c] \in PastSelfCheck /\ Actor(c) = Bot => c \in early

(* In no window is an actor admitted more often than its limit, unless the
   limiter forgot the actor in between; a refused message costs nothing. *)
WithinBudget ==
  \A a \in Actors :
    Cardinality({i \in DOMAIN admitted[a] : clock - admitted[a][i] < ActorPolicy.window})
      <= ActorPolicy.max

-----------------------------------------------------------------------------
(* The remembered ids are those of the deduplication service, and a message
   is pending in the calls that hold it. *)
Promise == INSTANCE AtMostOnce WITH
  remembered <- Elements(dedup),
  pending <- [m \in Messages |-> Cardinality(Holding(m))]

(* Retries, racing deliveries, evictions, failures and restarts included,
   ingress keeps that promise. *)
ImplementsAtMostOnce == Promise!Spec
================================================================================
