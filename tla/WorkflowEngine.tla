----------------------------- MODULE WorkflowEngine -----------------------------
(***************************************************************************)
(* WorkflowEngine.handleEvent over ConversationStateStore: one turn per    *)
(* event, many turns in flight.  Every await of a turn that reads or       *)
(* writes the conversation row is an action of its own, because nothing    *)
(* serialises the turns of one conversation: webhook deliveries are        *)
(* handled concurrently and the row is read, then written, without a       *)
(* transaction.                                                            *)
(*                                                                         *)
(* turn[e].pc:                                                             *)
(*   new        the event is on the bus                                    *)
(*   context    past the escalation gate, before agent.execute             *)
(*   persist    agent.execute has returned (or thrown)                     *)
(*   outcome    recordOutcome has read the streak, not yet written it      *)
(*   triage     saveTriageState is next                                    *)
(*   onboard    recordOnboarded is next                                    *)
(*   respond    envelope.respond is next                                   *)
(*   record     the reply is out, the agent's own message not yet stored   *)
(*   done, suppressed, dropped   the turn is over                          *)
(***************************************************************************)
EXTENDS MaintainerAgent

CONSTANTS
  Events,         \* the events of a behaviour
  Conversations,
  Actors,
  ConversationOf, \* [Events -> Conversations]
  ActorOf,        \* [Events -> Actors]
  Messages,       \* the messages an event can carry
  MaxDbFailures,  \* bound: database calls that fail
  MaxCrashes,     \* bound: process crashes
  MaxClears       \* bound: times a maintainer clears an escalation

ASSUME EngineAssumption ==
  /\ IsFiniteSet(Events)
  /\ ConversationOf \in [Events -> Conversations]
  /\ ActorOf \in [Events -> Actors]
  /\ Messages \subseteq Message
  /\ None \notin {"handoff", "answer", "proposal"}
  /\ MaxDbFailures \in Nat /\ MaxCrashes \in Nat /\ MaxClears \in Nat

VARIABLES
  store,      \* the conversations rows: escalation, streak, triage state
  turn,       \* what each turn in flight holds in its local variables
  onboarded,  \* actors with onboardedAt set
  memory,     \* events whose reply is stored as a message of the agent
  replies,    \* history: what was handed to envelope.respond
  ledger,     \* history: the outcome of each event last written to the store
  stated,     \* history: issue fields stated by triaged messages
  racing,     \* history: turns past the gate when the escalation was written
  failures, crashes, clears   \* the bounds' counters

vars == <<store, turn, onboarded, memory, replies, ledger, stated, racing,
          failures, crashes, clears>>
history == <<replies, ledger, stated, racing>>
counters == <<failures, crashes, clears>>

Row == [escalation: EscalationReason \cup {None}, streak: Nat,
        triage: SUBSET Fields]

InFlight == {"context", "persist", "outcome", "triage", "onboard", "respond"}
Over == {"done", "suppressed", "dropped"}
PC == {"new", "record"} \cup InFlight \cup Over

(* triageSeen and streakSeen are what the gate read; streakRead is what
   recordOutcome read. *)
Turn == [pc: PC, streakSeen: Nat, triageSeen: SUBSET Fields,
         response: Response, streakRead: Nat]

NoResponse == FallbackResponse
Fresh(pc) == [pc |-> pc, streakSeen |-> 0, triageSeen |-> {},
              response |-> NoResponse, streakRead |-> 0]

TurnsOf(c) == {e \in Events : ConversationOf[e] = c}
RowOf(e) == store[ConversationOf[e]]
FailedTurns(c) == {e \in TurnsOf(c) : ledger[e] = "failed"}

TypeOK ==
  /\ store \in [Conversations -> Row]
  /\ turn \in [Events -> Turn]
  /\ onboarded \subseteq Actors
  /\ memory \subseteq Events
  /\ replies \in [Events -> {None, "handoff", "answer", "proposal"}]
  /\ ledger \in [Events -> {"none", "confident", "failed", "escalated", "released"}]
  /\ stated \in [Conversations -> SUBSET Fields]
  /\ racing \in [Conversations -> SUBSET Events]
  /\ failures \in 0 .. MaxDbFailures
  /\ crashes \in 0 .. MaxCrashes
  /\ clears \in 0 .. MaxClears

Init ==
  /\ store = [c \in Conversations |-> [escalation |-> None, streak |-> 0, triage |-> {}]]
  /\ turn = [e \in Events |-> Fresh("new")]
  /\ onboarded = {}
  /\ memory = {}
  /\ replies = [e \in Events |-> None]
  /\ ledger = [e \in Events |-> "none"]
  /\ stated = [c \in Conversations |-> {}]
  /\ racing = [c \in Conversations |-> {}]
  /\ failures = 0 /\ crashes = 0 /\ clears = 0

-----------------------------------------------------------------------------
(* Mutant of Gate: the escalation flag is read and not acted upon. *)
GateIgnored(e) ==
  /\ turn[e].pc = "new"
  /\ turn' = [turn EXCEPT ![e] =
       [Fresh("context") EXCEPT !.streakSeen = RowOf(e).streak,
                                !.triageSeen = RowOf(e).triage]]
  /\ UNCHANGED <<store, onboarded, memory, history, counters>>

(* stateStore.get and the escalation gate. *)
Gate(e) ==
  /\ turn[e].pc = "new"
  /\ turn' = [turn EXCEPT ![e] =
       IF RowOf(e).escalation # None
         THEN Fresh("suppressed")
         ELSE [Fresh("context") EXCEPT !.streakSeen = RowOf(e).streak,
                                       !.triageSeen = RowOf(e).triage]]
  /\ UNCHANGED <<store, onboarded, memory, history, counters>>

(* Loading memory, accounts, cross-channel history and the profile reads
   tables this module does not write; agent.execute follows, and a throw
   becomes the fallback response. *)
RunAgent(e, m, r) ==
  /\ turn[e].pc = "context"
  /\ \/ r \in Execute(m, turn[e].streakSeen, turn[e].triageSeen)
     \/ r = FallbackResponse /\ MayThrow(m, turn[e].streakSeen)
  /\ turn' = [turn EXCEPT ![e] = [Fresh("persist") EXCEPT !.response = r]]
  /\ stated' = [stated EXCEPT ![ConversationOf[e]] =
                  IF r.workflow = "triage-workflow" THEN @ \cup m.fields ELSE @]
  /\ UNCHANGED <<store, onboarded, memory, replies, ledger, racing, counters>>

(* Mutant of AfterOutcome: an escalated turn returns without replying. *)
AfterOutcomeSilent(r) ==
  IF r.reason # None THEN "done"
  ELSE IF r.savesTriage THEN "triage"
  ELSE IF r.workflow = "onboarding-workflow" THEN "onboard"
  ELSE "respond"

(* The step after the escalation flag or the streak is written. *)
AfterOutcome(r) ==
  IF r.savesTriage THEN "triage"
  ELSE IF r.workflow = "onboarding-workflow" THEN "onboard"
  ELSE "respond"

Advance(e, pc) == turn' = [turn EXCEPT ![e].pc = pc, ![e].streakRead = 0]

(* stateStore.escalate: the streak and the triage state stay as they are. *)
Escalate(e) ==
  LET c == ConversationOf[e] IN
  /\ turn[e].pc = "persist"
  /\ turn[e].response.reason # None
  /\ store' = [store EXCEPT ![c].escalation = turn[e].response.reason]
  /\ Advance(e, AfterOutcome(turn[e].response))
  /\ ledger' = [ledger EXCEPT ![e] = "escalated"]
  /\ racing' = [racing EXCEPT ![c] =
       IF store[c].escalation # None THEN @
       ELSE {x \in TurnsOf(c) : turn[x].pc \in InFlight}]
  /\ UNCHANGED <<onboarded, memory, replies, stated, counters>>

(* stateStore.recordOutcome, its read ... *)
ReadOutcome(e) ==
  /\ turn[e].pc = "persist"
  /\ turn[e].response.reason = None
  /\ turn' = [turn EXCEPT ![e].pc = "outcome", ![e].streakRead = RowOf(e).streak]
  /\ UNCHANGED <<store, onboarded, memory, history, counters>>

(* Mutant of WriteOutcome: the whole row is written back, and a confident
   turn takes the escalation with it. *)
WriteOutcomeWholeRow(e) ==
  LET failed == turn[e].response.confidence < ConfidenceThreshold IN
  /\ turn[e].pc = "outcome"
  /\ store' = [store EXCEPT ![ConversationOf[e]].streak =
                               IF failed THEN turn[e].streakRead + 1 ELSE 0,
                            ![ConversationOf[e]].escalation = None]
  /\ Advance(e, AfterOutcome(turn[e].response))
  /\ ledger' = [ledger EXCEPT ![e] = IF failed THEN "failed" ELSE "confident"]
  /\ UNCHANGED <<onboarded, memory, replies, stated, racing, counters>>

(* ... and its write, from the streak it read. *)
WriteOutcome(e) ==
  LET failed == turn[e].response.confidence < ConfidenceThreshold IN
  /\ turn[e].pc = "outcome"
  /\ store' = [store EXCEPT ![ConversationOf[e]].streak =
                 IF failed THEN turn[e].streakRead + 1 ELSE 0]
  /\ Advance(e, AfterOutcome(turn[e].response))
  /\ ledger' = [ledger EXCEPT ![e] = IF failed THEN "failed" ELSE "confident"]
  /\ UNCHANGED <<onboarded, memory, replies, stated, racing, counters>>

(* stateStore.saveTriageState: the whole field set is overwritten. *)
SaveTriage(e) ==
  /\ turn[e].pc = "triage"
  /\ store' = [store EXCEPT ![ConversationOf[e]].triage = turn[e].response.triage]
  /\ Advance(e, "respond")
  /\ UNCHANGED <<onboarded, memory, history, counters>>

RecordOnboarded(e) ==
  /\ turn[e].pc = "onboard"
  /\ onboarded' = onboarded \cup {ActorOf[e]}
  /\ Advance(e, "respond")
  /\ UNCHANGED <<store, memory, history, counters>>

ReplyKind(r) ==
  IF r.reason # None THEN "handoff"
  ELSE IF r.proposes THEN "proposal" ELSE "answer"

(* envelope.respond: sent live or queued for the recovery worker. *)
Respond(e) ==
  /\ turn[e].pc = "respond"
  /\ replies' = [replies EXCEPT ![e] = ReplyKind(turn[e].response)]
  /\ Advance(e, "record")
  /\ UNCHANGED <<store, onboarded, memory, ledger, stated, racing, counters>>

(* The agent's own message is stored; a failure here is caught. *)
PersistReply(e) ==
  /\ turn[e].pc = "record"
  /\ memory' \in {memory \cup {e}, memory}
  /\ turn' = [turn EXCEPT ![e] = Fresh("done")]
  /\ UNCHANGED <<store, onboarded, history, counters>>

(* Any other database call of the turn throws out of handleEvent, and the
   bus logs it. *)
DbFailure(e) ==
  /\ turn[e].pc \in {"new"} \cup InFlight
  /\ failures < MaxDbFailures
  /\ failures' = failures + 1
  /\ turn' = [turn EXCEPT ![e] = Fresh("dropped")]
  /\ UNCHANGED <<store, onboarded, memory, history, crashes, clears>>

(* The process dies: every turn in flight is gone, the rows stay. *)
Crash ==
  /\ crashes < MaxCrashes
  /\ crashes' = crashes + 1
  /\ turn' = [e \in Events |-> IF turn[e].pc \in InFlight \cup {"record"}
                               THEN Fresh("dropped") ELSE turn[e]]
  /\ UNCHANGED <<store, onboarded, memory, history, failures, clears>>

(* A maintainer clears the escalation: a manual update of the row. *)
HumanClear(c) ==
  /\ clears < MaxClears
  /\ store[c].escalation # None
  /\ clears' = clears + 1
  /\ store' = [store EXCEPT ![c].escalation = None]
  /\ ledger' = [e \in Events |-> IF ledger[e] = "escalated" /\ ConversationOf[e] = c
                                 THEN "released" ELSE ledger[e]]
  /\ UNCHANGED <<turn, onboarded, memory, replies, stated, racing, failures, crashes>>

Reply(e) == Respond(e) \/ PersistReply(e)
Persist(e) == \/ Escalate(e) \/ ReadOutcome(e) \/ WriteOutcome(e)
              \/ SaveTriage(e) \/ RecordOnboarded(e)
RunAny(e) == \E m \in Messages :
               \E r \in Execute(m, turn[e].streakSeen, turn[e].triageSeen)
                        \cup {FallbackResponse} : RunAgent(e, m, r)

TurnStep(e) == Gate(e) \/ RunAny(e) \/ Persist(e) \/ Reply(e)

Next ==
  \/ \E e \in Events : TurnStep(e) \/ DbFailure(e)
  \/ Crash
  \/ \E c \in Conversations : HumanClear(c)

Spec == Init /\ [][Next]_vars

-----------------------------------------------------------------------------
(* A conversation is handed over for repeated failure only after that many
   of its turns really ended below the confidence threshold: however turns
   interleave between the read and the write of recordOutcome, the streak
   never counts a failure that was not recorded. *)
StreakEarned ==
  /\ \A c \in Conversations :
       /\ store[c].streak <= Cardinality(FailedTurns(c))
       /\ store[c].escalation = "repeated_failure"
            => Cardinality(FailedTurns(c)) >= FailureStreakThreshold
  /\ \A e \in Events :
       turn[e].response.reason = "repeated_failure"
         => Cardinality(FailedTurns(ConversationOf[e])) >= FailureStreakThreshold

(* "I'll hold off on responding further until then": a handoff reply is
   sent only once the escalation is in the conversation row, and no turn
   that was in flight (recordOutcome and saveTriageState write the same
   row) takes it out again; only a maintainer does. *)
HandoffHonest ==
  \A e \in Events :
    /\ replies[e] = "handoff" => ledger[e] \in {"escalated", "released"}
    /\ ledger[e] = "escalated" => RowOf(e).escalation # None

(* The gate is checked once, at the start of a turn.  A turn that replies
   autonomously in an escalated conversation was already past the gate when
   the escalation was written; no turn that starts later does. *)
OnlyRacingTurnsAnswer ==
  [][\A e \in Events :
       /\ replies'[e] # replies[e]
       /\ replies'[e] \in {"answer", "proposal"}
       /\ RowOf(e).escalation # None
       => e \in racing[ConversationOf[e]]]_vars

(* A GitHub issue is proposed only when messages of the conversation have
   stated every required field, in whatever order their turns overwrote
   each other's triage state. *)
ProposalGrounded ==
  \A e \in Events : replies[e] = "proposal" => stated[ConversationOf[e]] = Fields

(* No event is left without a reply unnoticed: a turn that ends without
   one was cut off by a database failure or a crash, or the conversation
   had been escalated by another of its turns.  In particular a turn that
   escalates always announces it, and a throwing workflow is answered. *)
SilenceExplained ==
  \A e \in Events :
    turn[e].pc \in Over /\ replies[e] = None =>
      \/ turn[e].pc = "dropped"
      \/ /\ turn[e].pc = "suppressed"
         /\ \E x \in TurnsOf(ConversationOf[e]) \ {e} :
              ledger[x] \in {"escalated", "released"}

(* What the documentation says of an escalated conversation: the agent
   never auto-replies to it until a human clears it. *)
NoReplyUnderHumanControl ==
  [][\A e \in Events :
       /\ replies'[e] # replies[e]
       /\ replies'[e] \in {"answer", "proposal"}
       => RowOf(e).escalation = None]_vars

-----------------------------------------------------------------------------
=================================================================================
