-------------------------- MODULE WorkflowEngine_proofs --------------------------
(* Proofs about WorkflowEngine, for any number of events and conversations. *)
EXTENDS WorkflowEngine, FiniteSetTheorems, TLAPS

(***************************************************************************)
(* The agent's operators.                                                  *)
(***************************************************************************)

(* Every score of the classifier is a confidence. *)
LEMMA ClassifyType ==
  ASSUME NEW m \in Message
  PROVE  /\ Classify(m) \in Classification
         /\ ClassifyEvent(m) \in Classification
<1>2. m.escalation \in Nat /\ m.prSummary \in Nat /\ m.bug \in Nat /\ m.contribution \in Nat
  BY DEF Message
<1>3. Classify(m) \in Classification
  <2>1. /\ Scored(70, 10, m.escalation) \in 0 .. 100
        /\ Scored(65, 12, m.prSummary) \in 0 .. 100
        /\ Scored(60, 12, m.bug) \in 0 .. 100
        /\ Scored(60, 12, m.contribution) \in 0 .. 100
    BY <1>2, SMT DEF Scored, Smaller
  <2>2. \A i \in Intents, c \in 0 .. 100 :
          [intent |-> i, confidence |-> c] \in Classification
    BY DEF Classification
  <2>3. CASE m.escalation > 0
    BY <2>1, <2>2, <2>3 DEF Classify, Intents
  <2>4. CASE ~ m.escalation > 0 /\ m.prSummary > 0
    BY <2>1, <2>2, <2>4 DEF Classify, Intents
  <2>5. CASE ~ m.escalation > 0 /\ ~ m.prSummary > 0
    <3>1. CASE m.bug > 0 /\ m.contribution > 0
      <4> DEFINE i == IF m.bug >= m.contribution THEN "bug_report"
                                                 ELSE "contribution_question"
      <4>1. i \in Intents /\ 40 \in 0 .. 100
        BY DEF Intents
      <4>2. Classify(m) = [intent |-> i, confidence |-> 40]
        BY <2>5, <3>1 DEF Classify
      <4> HIDE DEF i
      <4>3. QED
        BY <2>2, <4>1, <4>2
    <3>2. CASE m.bug > 0 /\ ~ m.contribution > 0
      BY <2>1, <2>2, <2>5, <3>2 DEF Classify, Intents
    <3>3. CASE ~ m.bug > 0 /\ m.contribution > 0
      BY <2>1, <2>2, <2>5, <3>3 DEF Classify, Intents
    <3>4. CASE ~ m.bug > 0 /\ ~ m.contribution > 0
      <4>1. 85 \in 0 .. 100 /\ "general_qa" \in Intents
        BY DEF Intents
      <4>2. Classify(m) = [intent |-> "general_qa", confidence |-> 85]
        BY <2>5, <3>4 DEF Classify
      <4>3. QED
        BY <2>2, <4>1, <4>2
    <3>5. QED
      BY <3>1, <3>2, <3>3, <3>4
  <2>6. QED
    BY <2>3, <2>4, <2>5
<1>4. QED
  BY <1>3 DEF ClassifyEvent, Classification, Intents

(* Whatever the turn read, execute returns a response record. *)
LEMMA ExecuteType ==
  ASSUME NEW m \in Message, NEW n \in Nat, NEW prior \in SUBSET Fields
  PROVE  Execute(m, n, prior) \subseteq Response
<1> DEFINE cls == ClassifyEvent(m)
           reason == Evaluate(cls, n)
<1>1. cls \in Classification
  BY ClassifyType
<1>2. reason \in EscalationReason \cup {None}
  BY DEF Evaluate, EscalationReason
<1>3. \A w \in Workflows, c \in 0 .. 100 : Plain(w, c) \in Response
  BY DEF Plain, Response
<1>4. m.fields \in SUBSET Fields
  BY DEF Message
<1>5. cls.confidence \in 0 .. 100
  BY <1>1 DEF Classification
<1>6. Smaller(cls.confidence, 50) \in 0 .. 100
  BY <1>5, SMT DEF Smaller
<1>7. EscalationResponse(cls, reason) \in Response
  BY <1>2, <1>3, <1>5 DEF EscalationResponse, Workflows, Response, Plain
<1>8. TriageResponse(cls, m, prior) \in Response
  BY <1>3, <1>4, <1>5 DEF TriageResponse, Collect, Workflows, Response, Plain
<1>9. OnboardingResponses(cls) \subseteq Response
  BY <1>3, <1>5, <1>6 DEF OnboardingResponses, Workflows
<1>10. PRSummaryResponses(cls) \subseteq Response
  <2>1. 40 \in 0 .. 100
    OBVIOUS
  <2>2. QED
    BY <1>3, <1>5, <1>6, <2>1 DEF PRSummaryResponses, Workflows
<1>11. GeneralResponse(cls) \in Response
  BY <1>3, <1>5 DEF GeneralResponse, Workflows
<1> HIDE DEF cls, reason
<1>12. QED
  BY <1>7, <1>8, <1>9, <1>10, <1>11 DEF Execute, cls, reason

LEMMA FallbackType == FallbackResponse \in Response
BY DEF FallbackResponse, Plain, Response, Workflows

(* Who reports what: only the escalation workflow gives a reason, and it
   gives "repeated_failure" only at the threshold; only triage proposes an
   issue, and only when what it read and the message give every field. *)
LEMMA ExecuteReports ==
  ASSUME NEW m \in Message, NEW n \in Nat, NEW prior \in SUBSET Fields,
         NEW r \in Execute(m, n, prior)
  PROVE  /\ r.reason = "repeated_failure" => n >= FailureStreakThreshold
         /\ r.triage \subseteq prior \cup m.fields
         /\ r.workflow # "triage-workflow" => r.triage = {} /\ ~ r.proposes
         /\ r.proposes => prior \cup m.fields = Fields
<1> DEFINE cls == ClassifyEvent(m)
           reason == Evaluate(cls, n)
<1> USE PolicyAssumption
<1>1. reason = "repeated_failure" => n >= FailureStreakThreshold
  BY DEF Evaluate
<1>2. CASE r = EscalationResponse(cls, reason)
  BY <1>1, <1>2 DEF EscalationResponse, Plain
<1>3. CASE r = TriageResponse(cls, m, prior)
  BY <1>3 DEF TriageResponse, Collect, Plain
<1>4. CASE \E w \in Workflows \ {"triage-workflow"} : \E c : r = Plain(w, c)
  BY <1>4 DEF Plain
<1> HIDE DEF cls, reason
<1>5. QED
  BY <1>2, <1>3, <1>4 DEF Execute, OnboardingResponses, PRSummaryResponses,
     GeneralResponse, Workflows, cls, reason

LEMMA FallbackReports ==
  /\ FallbackResponse.reason = None
  /\ FallbackResponse.triage = {}
  /\ ~ FallbackResponse.proposes
BY DEF FallbackResponse, Plain

(***************************************************************************)
(* Type correctness.                                                       *)
(***************************************************************************)

LEMMA FreshType ==
  ASSUME NEW pc \in PC
  PROVE  Fresh(pc) \in Turn
BY FallbackType DEF Fresh, NoResponse, Turn

LEMMA AfterOutcomeType ==
  ASSUME NEW r
  PROVE  AfterOutcome(r) \in {"triage", "onboard", "respond"}
BY DEF AfterOutcome

(* Moving a turn on keeps it well typed. *)
LEMMA AdvanceType ==
  ASSUME TypeOK, NEW e \in Events, NEW pc \in PC, Advance(e, pc)
  PROVE  turn' \in [Events -> Turn]
<1>1. turn[e] \in Turn
  BY DEF TypeOK
<1>2. [turn[e] EXCEPT !.pc = pc, !.streakRead = 0] \in Turn
  BY <1>1 DEF Turn
<1>3. QED
  BY <1>1, <1>2 DEF TypeOK, Advance, Turn

LEMMA TypeInit == Init => TypeOK
<1> SUFFICES ASSUME Init PROVE TypeOK
  OBVIOUS
<1>1. turn \in [Events -> Turn]
  BY FreshType DEF Init, PC
<1>2. store \in [Conversations -> Row]
  BY DEF Init, Row
<1>3. 0 \in 0 .. MaxDbFailures /\ 0 \in 0 .. MaxCrashes /\ 0 \in 0 .. MaxClears
  BY EngineAssumption
<1>4. racing \in [Conversations -> SUBSET Events] /\ stated \in [Conversations -> SUBSET Fields]
  BY DEF Init
<1>5. /\ replies \in [Events -> {None, "handoff", "answer", "proposal"}]
      /\ ledger \in [Events -> {"none", "confident", "failed", "escalated", "released"}]
  BY DEF Init
<1>6. QED
  BY <1>1, <1>2, <1>3, <1>4, <1>5 DEF Init, TypeOK

(* A step of one turn is well typed. *)
LEMMA TypeTurn ==
  ASSUME TypeOK, NEW e \in Events, TurnStep(e)
  PROVE  TypeOK'
<1> USE EngineAssumption
<1>1. /\ turn[e] \in Turn
      /\ ConversationOf[e] \in Conversations
      /\ RowOf(e) \in Row
      /\ turn[e].response \in Response
      /\ store \in [Conversations -> Row]
  BY DEF TypeOK, Turn, RowOf
<1>2. CASE Gate(e)
  <2>1. [Fresh("context") EXCEPT !.streakSeen = RowOf(e).streak,
                                 !.triageSeen = RowOf(e).triage] \in Turn
    BY <1>1, FreshType DEF PC, InFlight, Turn, Row
  <2>2. Fresh("suppressed") \in Turn
    BY FreshType DEF PC, Over
  <2>3. turn' \in [Events -> Turn]
    BY <1>2, <2>1, <2>2 DEF Gate, TypeOK
  <2>4. QED
    BY <1>2, <2>3 DEF Gate, TypeOK, history, counters
<1>3. CASE RunAny(e)
  <2> PICK m \in Messages :
           \E r \in Execute(m, turn[e].streakSeen, turn[e].triageSeen)
                    \cup {FallbackResponse} : RunAgent(e, m, r)
    BY <1>3 DEF RunAny
  <2>1. PICK r \in Execute(m, turn[e].streakSeen, turn[e].triageSeen)
                   \cup {FallbackResponse} : RunAgent(e, m, r)
    OBVIOUS
  <2>2. r \in Response
    BY <1>1, ExecuteType, FallbackType DEF Turn
  <2>3. [Fresh("persist") EXCEPT !.response = r] \in Turn
    BY <2>2, FreshType DEF PC, InFlight, Turn
  <2>4. turn' \in [Events -> Turn]
    BY <2>1, <2>3 DEF RunAgent, TypeOK
  <2>5. m.fields \subseteq Fields
    BY DEF Message
  <2>6. stated' \in [Conversations -> SUBSET Fields]
    BY <1>1, <2>1, <2>5 DEF RunAgent, TypeOK
  <2>7. QED
    BY <2>1, <2>4, <2>6 DEF RunAgent, TypeOK, counters
<1>4. CASE Escalate(e)
  <2>1. turn' \in [Events -> Turn]
    BY <1>4, AdvanceType, AfterOutcomeType DEF Escalate, PC, InFlight
  <2>2. turn[e].response.reason \in EscalationReason \cup {None}
    BY <1>1 DEF Response
  <2>3. store' \in [Conversations -> Row]
    BY <1>1, <1>4, <2>2 DEF Escalate, Row
  <2>4. racing' \in [Conversations -> SUBSET Events]
    BY <1>1, <1>4 DEF Escalate, TypeOK, TurnsOf
  <2>5. ledger' \in [Events -> {"none", "confident", "failed", "escalated", "released"}]
    BY <1>4 DEF Escalate, TypeOK
  <2>6. QED
    BY <1>4, <2>1, <2>3, <2>4, <2>5 DEF Escalate, TypeOK, counters
<1>5. CASE ReadOutcome(e)
  <2>1. [turn[e] EXCEPT !.pc = "outcome", !.streakRead = RowOf(e).streak] \in Turn
    BY <1>1 DEF Turn, Row, PC, InFlight
  <2>2. turn' \in [Events -> Turn]
    BY <1>5, <2>1 DEF ReadOutcome, TypeOK
  <2>3. QED
    BY <1>5, <2>2 DEF ReadOutcome, TypeOK, history, counters
<1>6. CASE WriteOutcome(e)
  <2>1. turn' \in [Events -> Turn]
    BY <1>6, AdvanceType, AfterOutcomeType DEF WriteOutcome, PC, InFlight
  <2>2. turn[e].streakRead \in Nat
    BY <1>1 DEF Turn
  <2>3. store' \in [Conversations -> Row]
    BY <1>1, <1>6, <2>2 DEF WriteOutcome, Row
  <2>4. ledger' \in [Events -> {"none", "confident", "failed", "escalated", "released"}]
    BY <1>6 DEF WriteOutcome, TypeOK
  <2>5. QED
    BY <1>6, <2>1, <2>3, <2>4 DEF WriteOutcome, TypeOK, counters
<1>7. CASE SaveTriage(e)
  <2>1. turn' \in [Events -> Turn]
    BY <1>7, AdvanceType DEF SaveTriage, PC, InFlight
  <2>2. turn[e].response.triage \subseteq Fields
    BY <1>1 DEF Response
  <2>3. store' \in [Conversations -> Row]
    BY <1>1, <1>7, <2>2 DEF SaveTriage, Row
  <2>4. QED
    BY <1>7, <2>1, <2>3 DEF SaveTriage, TypeOK, history, counters
<1>8. CASE RecordOnboarded(e)
  <2>1. turn' \in [Events -> Turn]
    BY <1>8, AdvanceType DEF RecordOnboarded, PC, InFlight
  <2>2. QED
    BY <1>8, <2>1 DEF RecordOnboarded, TypeOK, history, counters
<1>9. CASE Respond(e)
  <2>1. turn' \in [Events -> Turn]
    BY <1>9, AdvanceType DEF Respond, PC
  <2>2. ReplyKind(turn[e].response) \in {"handoff", "answer", "proposal"}
    BY DEF ReplyKind
  <2>3. replies' \in [Events -> {None, "handoff", "answer", "proposal"}]
    BY <1>9, <2>2 DEF Respond, TypeOK
  <2>4. QED
    BY <1>9, <2>1, <2>3 DEF Respond, TypeOK, counters
<1>10. CASE PersistReply(e)
  <2>1. turn' \in [Events -> Turn]
    BY <1>10, FreshType DEF PersistReply, TypeOK, PC, Over
  <2>2. QED
    BY <1>10, <2>1 DEF PersistReply, TypeOK, history, counters
<1>11. QED
  BY <1>2, <1>3, <1>4, <1>5, <1>6, <1>7, <1>8, <1>9, <1>10
     DEF TurnStep, Persist, Reply

LEMMA TypeStep == TypeOK /\ [Next]_vars => TypeOK'
<1> SUFFICES ASSUME TypeOK, [Next]_vars PROVE TypeOK'
  OBVIOUS
<1> USE EngineAssumption
<1>1. ASSUME NEW e \in Events, TurnStep(e) PROVE TypeOK'
  BY <1>1, TypeTurn
<1>2. ASSUME NEW e \in Events, DbFailure(e) PROVE TypeOK'
  <2>1. turn' \in [Events -> Turn]
    BY <1>2, FreshType DEF DbFailure, TypeOK, PC, Over
  <2>2. failures' \in 0 .. MaxDbFailures
    BY <1>2 DEF DbFailure, TypeOK
  <2>3. QED
    BY <1>2, <2>1, <2>2 DEF DbFailure, TypeOK, history
<1>3. CASE Crash
  <2>1. turn' \in [Events -> Turn]
    BY <1>3, FreshType DEF Crash, TypeOK, PC, Over
  <2>2. crashes' \in 0 .. MaxCrashes
    BY <1>3 DEF Crash, TypeOK
  <2>3. QED
    BY <1>3, <2>1, <2>2 DEF Crash, TypeOK, history
<1>4. ASSUME NEW c \in Conversations, HumanClear(c) PROVE TypeOK'
  <2>1. store' \in [Conversations -> Row]
    BY <1>4 DEF HumanClear, TypeOK, Row
  <2>2. clears' \in 0 .. MaxClears
    BY <1>4 DEF HumanClear, TypeOK
  <2>3. ledger' \in [Events -> {"none", "confident", "failed", "escalated", "released"}]
    BY <1>4 DEF HumanClear, TypeOK
  <2>4. QED
    BY <1>4, <2>1, <2>2, <2>3 DEF HumanClear, TypeOK
<1>5. CASE UNCHANGED vars
  BY <1>5 DEF vars, TypeOK, history, counters
<1>6. QED
  BY <1>1, <1>2, <1>3, <1>4, <1>5 DEF Next

(* The conversation rows, the turns in flight and the histories stay in
   their types, whatever turns interleave, fail or are cut off. *)
THEOREM TypeCorrect == Spec => []TypeOK
BY TypeInit, TypeStep, PTL DEF Spec

(***************************************************************************)
(* The handoff promise.                                                    *)
(***************************************************************************)

(* Until a turn writes its outcome it has no entry in the ledger. *)
LedgerInv ==
  \A e \in Events :
    turn[e].pc \in {"new", "context", "persist", "outcome"} => ledger[e] = "none"

(* A turn carries a reason to escalate past the outcome write only if it
   wrote the escalation. *)
HandoffInv ==
  /\ HandoffHonest
  /\ \A e \in Events :
       /\ turn[e].pc = "outcome" => turn[e].response.reason = None
       /\ turn[e].pc \in {"triage", "onboard", "respond"}
            /\ turn[e].response.reason # None
              => ledger[e] \in {"escalated", "released"}

LEMMA HandoffInit == Init => LedgerInv /\ HandoffInv
BY EngineAssumption DEF Init, LedgerInv, HandoffInv, HandoffHonest, Fresh, NoResponse, RowOf,
   FallbackResponse, Plain

(* The handoff invariant over the steps of one turn. *)
LEMMA HandoffTurn ==
  ASSUME TypeOK, LedgerInv, HandoffInv, NEW e \in Events, TurnStep(e)
  PROVE  LedgerInv' /\ HandoffInv'
<1> USE EngineAssumption, PolicyAssumption DEF LedgerInv, HandoffInv, HandoffHonest, RowOf
<1>1. /\ \A x \in Events : turn[x] \in Turn /\ ConversationOf[x] \in Conversations
      /\ turn \in [Events -> Turn]
      /\ store \in [Conversations -> Row]
      /\ ledger \in [Events -> {"none", "confident", "failed", "escalated", "released"}]
      /\ replies \in [Events -> {None, "handoff", "answer", "proposal"}]
  BY DEF TypeOK
<1>2. CASE Gate(e)
  BY <1>1, <1>2 DEF Gate, Fresh, NoResponse, FallbackResponse, Plain, history
<1>3. CASE RunAny(e)
  BY <1>1, <1>3 DEF RunAny, RunAgent, Fresh
<1>4. CASE Escalate(e)
  <2>1. turn[e].response.reason # None /\ turn[e].pc = "persist"
    BY <1>4 DEF Escalate
  <2>2. turn[e].response \in Response /\ turn[e].response.reason \in EscalationReason \cup {None}
    BY <1>1 DEF Turn, Response
  <2> DEFINE c == ConversationOf[e]
  <2>3. /\ store'[c].escalation # None
        /\ \A d \in Conversations \ {c} : store'[d] = store[d]
    BY <1>1, <1>4, <2>1 DEF Escalate, Row
  <2>4. /\ ledger'[e] = "escalated" /\ turn'[e].pc \in {"triage", "onboard", "respond"}
        /\ \A x \in Events \ {e} : ledger'[x] = ledger[x] /\ turn'[x] = turn[x]
        /\ replies' = replies
    BY <1>1, <1>4, AfterOutcomeType DEF Escalate, Advance, Turn
  <2>5. replies[e] = "handoff" => ledger[e] \in {"escalated", "released"}
    OBVIOUS
  <2>6. LedgerInv'
    BY <2>4
  <2>7. HandoffHonest'
    BY <1>1, <2>3, <2>4, <2>5
  <2>8. QED
    BY <2>4, <2>6, <2>7
<1>5. CASE ReadOutcome(e)
  BY <1>1, <1>5 DEF ReadOutcome, history, Turn
<1>6. CASE WriteOutcome(e)
  BY <1>1, <1>6, AfterOutcomeType DEF WriteOutcome, Advance, Row, Turn
<1>7. CASE SaveTriage(e)
  BY <1>1, <1>7 DEF SaveTriage, Advance, history, Row, Turn
<1>8. CASE RecordOnboarded(e)
  BY <1>1, <1>8 DEF RecordOnboarded, Advance, history, Turn
<1>9. CASE Respond(e)
  BY <1>1, <1>9 DEF Respond, Advance, ReplyKind, Turn
<1>10. CASE PersistReply(e)
  BY <1>1, <1>10 DEF PersistReply, Fresh, NoResponse, history
<1>11. QED
  BY <1>2, <1>3, <1>4, <1>5, <1>6, <1>7, <1>8, <1>9, <1>10
     DEF TurnStep, Persist, Reply

LEMMA HandoffStep == TypeOK /\ LedgerInv /\ HandoffInv /\ [Next]_vars => LedgerInv' /\ HandoffInv'
<1> SUFFICES ASSUME TypeOK, LedgerInv, HandoffInv, [Next]_vars
             PROVE  LedgerInv' /\ HandoffInv'
  OBVIOUS
<1>1. ASSUME NEW e \in Events, TurnStep(e) PROVE LedgerInv' /\ HandoffInv'
  BY <1>1, HandoffTurn
<1> USE EngineAssumption DEF LedgerInv, HandoffInv, HandoffHonest, RowOf
<1>2. ASSUME NEW e \in Events, DbFailure(e) PROVE LedgerInv' /\ HandoffInv'
  BY <1>2 DEF DbFailure, Fresh, NoResponse, history, TypeOK
<1>3. CASE Crash
  BY <1>3 DEF Crash, Fresh, NoResponse, history, TypeOK
<1>4. ASSUME NEW c \in Conversations, HumanClear(c) PROVE LedgerInv' /\ HandoffInv'
  BY <1>4 DEF HumanClear, TypeOK, Row
<1>5. CASE UNCHANGED vars
  BY <1>5 DEF vars, history
<1>6. QED
  BY <1>1, <1>2, <1>3, <1>4, <1>5 DEF Next

(* "I'll hold off": a handoff reply is backed by the escalation in the
   conversation row, and no other turn of the conversation removes it. *)
THEOREM HandoffIsHonest == Spec => []HandoffHonest
<1>1. HandoffInv => HandoffHonest
  BY DEF HandoffInv
<1>2. QED
  BY <1>1, TypeInit, TypeStep, HandoffInit, HandoffStep, PTL DEF Spec

(***************************************************************************)
(* The failure streak.                                                     *)
(***************************************************************************)

NumFailed(c) == Cardinality(FailedTurns(c))

(* Every copy of the streak, in the row or in a turn's locals, is at most
   the number of failed turns recorded: recordOutcome may lose increments
   to a concurrent turn, and never invents one. *)
StreakInv ==
  /\ StreakEarned
  /\ \A e \in Events : /\ turn[e].streakSeen <= NumFailed(ConversationOf[e])
                        /\ turn[e].streakRead <= NumFailed(ConversationOf[e])

LEMMA FailedFinite ==
  ASSUME NEW c
  PROVE  IsFiniteSet(FailedTurns(c)) /\ NumFailed(c) \in Nat
<1>1. FailedTurns(c) \in SUBSET Events
  BY DEF FailedTurns, TurnsOf
<1>2. QED
  BY <1>1, EngineAssumption, FS_Subset, FS_CardinalityType DEF NumFailed

(* A step that forgets no failure does not lower the count. *)
LEMMA FailedGrow ==
  ASSUME NEW c, FailedTurns(c) \subseteq FailedTurns(c)'
  PROVE  /\ NumFailed(c) \in Nat /\ NumFailed(c)' \in Nat
         /\ NumFailed(c) <= NumFailed(c)'
<1>1. FailedTurns(c)' \in SUBSET Events
  BY DEF FailedTurns, TurnsOf
<1>2. IsFiniteSet(FailedTurns(c)')
  BY <1>1, EngineAssumption, FS_Subset
<1>3. FailedTurns(c) \in SUBSET (FailedTurns(c)')
  OBVIOUS
<1>4. Cardinality(FailedTurns(c)) <= Cardinality(FailedTurns(c)')
  BY <1>2, <1>3, FS_Subset
<1>5. NumFailed(c)' \in Nat
  BY <1>2, FS_CardinalityType DEF NumFailed
<1>6. QED
  BY <1>4, <1>5, FailedFinite DEF NumFailed

(* Recording a failure of a turn that had none adds one. *)
LEMMA FailedAdd ==
  ASSUME NEW e \in Events, ledger[e] # "failed",
         ledger \in [Events -> {"none", "confident", "failed", "escalated", "released"}],
         ledger' = [ledger EXCEPT ![e] = "failed"]
  PROVE  NumFailed(ConversationOf[e])' = NumFailed(ConversationOf[e]) + 1
<1> DEFINE c == ConversationOf[e]
<1>1. FailedTurns(c)' = FailedTurns(c) \cup {e}
  BY DEF FailedTurns, TurnsOf
<1>2. e \notin FailedTurns(c)
  BY DEF FailedTurns
<1>3. Cardinality(FailedTurns(c) \cup {e}) = Cardinality(FailedTurns(c)) + 1
  BY <1>2, FailedFinite, FS_AddElement
<1>4. QED
  BY <1>1, <1>3 DEF NumFailed

LEMMA StreakInit == Init => StreakInv
<1> SUFFICES ASSUME Init PROVE StreakInv
  OBVIOUS
<1>1. \A c : NumFailed(c) \in Nat
  BY FailedFinite
<1>2. \A e \in Events : /\ turn[e].streakSeen = 0 /\ turn[e].streakRead = 0
                        /\ turn[e].response.reason = None
  BY DEF Init, Fresh, NoResponse, FallbackResponse, Plain
<1>3. \A c \in Conversations : store[c].streak = 0 /\ store[c].escalation = None
  BY DEF Init
<1>4. QED
  BY <1>1, <1>2, <1>3, PolicyAssumption, EngineAssumption DEF StreakInv, StreakEarned, NumFailed

(* The streak invariant follows for the next state once every copy of the
   streak there is bounded by the count there. *)
LEMMA StreakTurn ==
  ASSUME TypeOK, LedgerInv, StreakInv, NEW e \in Events, TurnStep(e)
  PROVE  StreakInv'
<1> USE EngineAssumption, PolicyAssumption
<1>1. /\ \A x \in Events : /\ turn[x] \in Turn /\ ConversationOf[x] \in Conversations
                            /\ turn[x].response \in Response
                            /\ turn[x].streakSeen \in Nat /\ turn[x].streakRead \in Nat
      /\ turn \in [Events -> Turn]
      /\ \A c \in Conversations : store[c] \in Row /\ store[c].streak \in Nat
      /\ store \in [Conversations -> Row]
      /\ ledger \in [Events -> {"none", "confident", "failed", "escalated", "released"}]
  BY DEF TypeOK, Turn, Row
<1> DEFINE Bounded(x, n) == /\ x.streakSeen <= n /\ x.streakRead <= n
                            /\ x.response.reason = "repeated_failure"
                                 => n >= FailureStreakThreshold
<1>2. \A x \in Events : Bounded(turn[x], NumFailed(ConversationOf[x]))
  BY DEF StreakInv, StreakEarned, NumFailed
<1>3. \A c \in Conversations :
        /\ store[c].streak <= NumFailed(c)
        /\ store[c].escalation = "repeated_failure" => NumFailed(c) >= FailureStreakThreshold
  BY DEF StreakInv, StreakEarned, NumFailed
<1>4. SUFFICES /\ \A x \in Events : Bounded(turn'[x], NumFailed(ConversationOf[x])')
               /\ \A c \in Conversations :
                    /\ store'[c].streak <= NumFailed(c)'
                    /\ store'[c].escalation = "repeated_failure"
                         => NumFailed(c)' >= FailureStreakThreshold
  BY <1>4 DEF StreakInv, StreakEarned, NumFailed
<1>5. \A c : FailedTurns(c) \subseteq FailedTurns(c)'
  <2>1. ledger[e] = "none" \/ ledger' = ledger
    BY DEF TurnStep, Gate, RunAny, RunAgent, Persist, Escalate, ReadOutcome, WriteOutcome,
       SaveTriage, RecordOnboarded, Reply, Respond, PersistReply, history, LedgerInv
  <2>2. \A x \in Events \ {e} : ledger'[x] = ledger[x]
    BY <1>1 DEF TurnStep, Gate, RunAny, RunAgent, Persist, Escalate, ReadOutcome, WriteOutcome,
       SaveTriage, RecordOnboarded, Reply, Respond, PersistReply, history
  <2>3. QED
    BY <2>1, <2>2 DEF FailedTurns, TurnsOf
<1>6. \A c : NumFailed(c) \in Nat /\ NumFailed(c)' \in Nat /\ NumFailed(c) <= NumFailed(c)'
  BY <1>5, FailedGrow
<1>7. \A x \in Events : Bounded(turn[x], NumFailed(ConversationOf[x])')
  BY <1>1, <1>2, <1>6
<1>8. \A c \in Conversations :
        /\ store[c].streak <= NumFailed(c)'
        /\ store[c].escalation = "repeated_failure" => NumFailed(c)' >= FailureStreakThreshold
  BY <1>1, <1>3, <1>6
<1> DEFINE me == ConversationOf[e]
<1>9. me \in Conversations /\ NumFailed(me)' \in Nat
  BY <1>1, <1>6
<1> HIDE DEF Bounded, me
<1>10. ASSUME \A x \in Events \ {e} : turn'[x] = turn[x], Bounded(turn'[e], NumFailed(me)')
       PROVE  \A x \in Events : Bounded(turn'[x], NumFailed(ConversationOf[x])')
  BY <1>7, <1>10 DEF me
<1>11. Bounded(Fresh("done"), NumFailed(me)') /\ Bounded(Fresh("suppressed"), NumFailed(me)')
  BY <1>9 DEF Bounded, Fresh, NoResponse, FallbackResponse, Plain
<1>12. CASE Gate(e)
  <2>1. store[me].streak <= NumFailed(me)'
    BY <1>8, <1>9
  <2>2. Bounded([Fresh("context") EXCEPT !.streakSeen = RowOf(e).streak,
                                         !.triageSeen = RowOf(e).triage], NumFailed(me)')
    BY <2>1, <1>9 DEF Bounded, Fresh, NoResponse, FallbackResponse, Plain, RowOf, me
  <2>3. Bounded(turn'[e], NumFailed(me)') /\ \A x \in Events \ {e} : turn'[x] = turn[x]
    BY <1>1, <1>11, <1>12, <2>2 DEF Gate
  <2>4. QED
    BY <1>8, <1>10, <1>12, <2>3 DEF Gate
<1>13. CASE RunAny(e)
  <2> PICK m \in Messages :
           \E r \in Execute(m, turn[e].streakSeen, turn[e].triageSeen)
                    \cup {FallbackResponse} : RunAgent(e, m, r)
    BY <1>13 DEF RunAny
  <2>1. PICK r \in Execute(m, turn[e].streakSeen, turn[e].triageSeen)
                   \cup {FallbackResponse} : RunAgent(e, m, r)
    OBVIOUS
  <2>2. r.reason = "repeated_failure" => turn[e].streakSeen >= FailureStreakThreshold
    BY <1>1, <2>1, ExecuteReports, FallbackReports DEF Turn
  <2>3. r.reason = "repeated_failure" => NumFailed(me)' >= FailureStreakThreshold
    BY <1>1, <1>7, <1>9, <2>2 DEF Bounded, me
  <2>4. Bounded([Fresh("persist") EXCEPT !.response = r], NumFailed(me)')
    BY <1>9, <2>3 DEF Bounded, Fresh
  <2>5. Bounded(turn'[e], NumFailed(me)') /\ \A x \in Events \ {e} : turn'[x] = turn[x]
    BY <1>1, <2>1, <2>4 DEF RunAgent
  <2>6. QED
    BY <1>8, <1>10, <2>1, <2>5 DEF RunAgent
<1>14. ASSUME NEW pc \in PC, Advance(e, pc)
       PROVE  \A x \in Events : Bounded(turn'[x], NumFailed(ConversationOf[x])')
  <2>1. Bounded([turn[e] EXCEPT !.pc = pc, !.streakRead = 0], NumFailed(me)')
    BY <1>1, <1>7, <1>9 DEF Bounded, Turn, me
  <2>2. turn'[e] = [turn[e] EXCEPT !.pc = pc, !.streakRead = 0]
        /\ \A x \in Events \ {e} : turn'[x] = turn[x]
    BY <1>1, <1>14 DEF Advance
  <2>3. QED
    BY <1>10, <2>1, <2>2
<1>15. CASE Escalate(e)
  <2>1. AfterOutcome(turn[e].response) \in PC
    BY AfterOutcomeType DEF PC, InFlight
  <2>2. turn[e].response.reason = "repeated_failure" => NumFailed(me)' >= FailureStreakThreshold
    BY <1>7 DEF Bounded, me
  <2>3. \A c \in Conversations :
          /\ store'[c].streak = store[c].streak
          /\ store'[c].escalation = IF c = me THEN turn[e].response.reason
                                              ELSE store[c].escalation
    BY <1>1, <1>15 DEF Escalate, Row, me
  <2>4. QED
    BY <1>8, <1>14, <1>15, <2>1, <2>2, <2>3 DEF Escalate
<1>16. CASE ReadOutcome(e)
  <2>1. store[me].streak <= NumFailed(me)'
    BY <1>8, <1>9
  <2>2. Bounded([turn[e] EXCEPT !.pc = "outcome", !.streakRead = RowOf(e).streak], NumFailed(me)')
    BY <1>1, <1>7, <2>1 DEF Bounded, Turn, RowOf, me
  <2>3. Bounded(turn'[e], NumFailed(me)') /\ \A x \in Events \ {e} : turn'[x] = turn[x]
    BY <1>1, <1>16, <2>2 DEF ReadOutcome
  <2>4. QED
    BY <1>8, <1>10, <1>16, <2>3 DEF ReadOutcome
<1>17. CASE WriteOutcome(e)
  <2>1. AfterOutcome(turn[e].response) \in PC
    BY AfterOutcomeType DEF PC, InFlight
  <2>2. ASSUME turn[e].response.confidence < ConfidenceThreshold
        PROVE  turn[e].streakRead + 1 <= NumFailed(me)'
    <3>1. ledger' = [ledger EXCEPT ![e] = "failed"] /\ ledger[e] # "failed"
      BY <1>17, <2>2 DEF WriteOutcome, LedgerInv
    <3>2. NumFailed(me)' = NumFailed(me) + 1
      BY <1>1, <3>1, FailedAdd DEF me
    <3>3. turn[e].streakRead <= NumFailed(me) /\ NumFailed(me) \in Nat /\ turn[e].streakRead \in Nat
      BY <1>1, <1>2, <1>6 DEF Bounded, me
    <3>4. QED
      BY <3>2, <3>3
  <2>3. \A c \in Conversations :
          /\ store'[c].escalation = store[c].escalation
          /\ store'[c].streak = IF c # me THEN store[c].streak
               ELSE IF turn[e].response.confidence < ConfidenceThreshold
                      THEN turn[e].streakRead + 1 ELSE 0
    BY <1>1, <1>17 DEF WriteOutcome, Row, me
  <2>4. QED
    BY <1>8, <1>9, <1>14, <1>17, <2>1, <2>2, <2>3 DEF WriteOutcome
<1>18. CASE SaveTriage(e)
  <2>1. \A c \in Conversations : /\ store'[c].escalation = store[c].escalation
                                  /\ store'[c].streak = store[c].streak
    BY <1>1, <1>18 DEF SaveTriage, Row
  <2>2. QED
    BY <1>8, <1>14, <1>18, <2>1 DEF SaveTriage, PC, InFlight
<1>19. CASE RecordOnboarded(e)
  BY <1>8, <1>14, <1>19 DEF RecordOnboarded, PC, InFlight
<1>20. CASE Respond(e)
  BY <1>8, <1>14, <1>20 DEF Respond, PC
<1>21. CASE PersistReply(e)
  <2>1. Bounded(turn'[e], NumFailed(me)') /\ \A x \in Events \ {e} : turn'[x] = turn[x]
    BY <1>1, <1>11, <1>21 DEF PersistReply
  <2>2. QED
    BY <1>8, <1>10, <1>21, <2>1 DEF PersistReply
<1>22. QED
  BY <1>12, <1>13, <1>15, <1>16, <1>17, <1>18, <1>19, <1>20, <1>21
     DEF TurnStep, Persist, Reply

(* A step that leaves the ledger's failures, the streaks and the turns'
   copies of them alone, or clears them, keeps the streak invariant. *)
LEMMA StreakFrame ==
  ASSUME TypeOK, StreakInv,
         \A c : FailedTurns(c)' = FailedTurns(c),
         \A c \in Conversations : /\ store'[c].streak = store[c].streak
                                  /\ store'[c].escalation \in {store[c].escalation, None},
         \A e \in Events : turn'[e] = turn[e] \/ turn'[e] = Fresh("dropped")
  PROVE  StreakInv'
<1> USE EngineAssumption, PolicyAssumption
<1>1. \A c : NumFailed(c) \in Nat /\ NumFailed(c)' = NumFailed(c)
  BY FailedFinite DEF NumFailed
<1>2. /\ Fresh("dropped").streakSeen = 0 /\ Fresh("dropped").streakRead = 0
      /\ Fresh("dropped").response.reason = None
  BY DEF Fresh, NoResponse, FallbackResponse, Plain
<1>3. QED
  BY <1>1, <1>2 DEF StreakInv, StreakEarned, NumFailed

LEMMA StreakStep == TypeOK /\ LedgerInv /\ StreakInv /\ [Next]_vars => StreakInv'
<1> SUFFICES ASSUME TypeOK, LedgerInv, StreakInv, [Next]_vars PROVE StreakInv'
  OBVIOUS
<1>1. ASSUME NEW e \in Events, TurnStep(e) PROVE StreakInv'
  BY <1>1, StreakTurn
<1>2. ASSUME NEW e \in Events, DbFailure(e) PROVE StreakInv'
  <2>1. \A c : FailedTurns(c)' = FailedTurns(c)
    BY <1>2 DEF DbFailure, history, FailedTurns, TurnsOf
  <2>2. \A x \in Events : turn'[x] = turn[x] \/ turn'[x] = Fresh("dropped")
    BY <1>2 DEF DbFailure, TypeOK
  <2>3. QED
    BY <1>2, <2>1, <2>2, StreakFrame DEF DbFailure
<1>3. CASE Crash
  <2>1. \A c : FailedTurns(c)' = FailedTurns(c)
    BY <1>3 DEF Crash, history, FailedTurns, TurnsOf
  <2>2. \A x \in Events : turn'[x] = turn[x] \/ turn'[x] = Fresh("dropped")
    BY <1>3 DEF Crash
  <2>3. QED
    BY <1>3, <2>1, <2>2, StreakFrame DEF Crash
<1>4. ASSUME NEW c \in Conversations, HumanClear(c) PROVE StreakInv'
  <2>1. \A d : FailedTurns(d)' = FailedTurns(d)
    BY <1>4 DEF HumanClear, FailedTurns, TurnsOf
  <2>2. \A d \in Conversations : /\ store'[d].streak = store[d].streak
                                 /\ store'[d].escalation \in {store[d].escalation, None}
    BY <1>4 DEF HumanClear, TypeOK, Row
  <2>3. turn' = turn
    BY <1>4 DEF HumanClear
  <2>4. QED
    BY <2>1, <2>2, <2>3, StreakFrame
<1>5. CASE UNCHANGED vars
  <2>1. store' = store /\ turn' = turn /\ \A d : FailedTurns(d)' = FailedTurns(d)
    BY <1>5 DEF vars, FailedTurns, TurnsOf
  <2>2. QED
    BY <2>1, StreakFrame
<1>6. QED
  BY <1>1, <1>2, <1>3, <1>4, <1>5 DEF Next

(* A conversation goes to a human for repeated failure only after that many
   of its turns were recorded below the confidence threshold. *)
THEOREM StreakIsEarned == Spec => []StreakEarned
<1>1. StreakInv => StreakEarned
  BY DEF StreakInv
<1>2. QED
  BY <1>1, TypeInit, TypeStep, HandoffInit, HandoffStep, StreakInit, StreakStep, PTL DEF Spec

(***************************************************************************)
(* The gate.                                                               *)
(***************************************************************************)

(* Every turn of an escalated conversation that is past the gate was past
   it when the escalation was written. *)
RacingInv ==
  \A e \in Events :
    turn[e].pc \in InFlight /\ RowOf(e).escalation # None => e \in racing[ConversationOf[e]]

LEMMA RacingInit == Init => RacingInv
BY DEF Init, RacingInv, Fresh, InFlight

LEMMA RacingTurn ==
  ASSUME TypeOK, RacingInv, NEW e \in Events, TurnStep(e)
  PROVE  RacingInv'
<1> USE EngineAssumption DEF RacingInv, RowOf
<1>1. /\ \A x \in Events : turn[x] \in Turn /\ ConversationOf[x] \in Conversations
      /\ turn \in [Events -> Turn]
      /\ store \in [Conversations -> Row]
      /\ racing \in [Conversations -> SUBSET Events]
  BY DEF TypeOK
<1>2. CASE Gate(e)
  BY <1>1, <1>2 DEF Gate, Fresh, InFlight, history
<1>3. CASE RunAny(e)
  BY <1>1, <1>3 DEF RunAny, RunAgent, Fresh, InFlight
<1>4. CASE Escalate(e)
  <2> DEFINE c == ConversationOf[e]
  <2>1. \A d \in Conversations \ {c} : store'[d] = store[d] /\ racing'[d] = racing[d]
    BY <1>1, <1>4 DEF Escalate
  <2>2. \A x \in Events : turn'[x].pc \in InFlight => turn[x].pc \in InFlight
    BY <1>1, <1>4 DEF Escalate, Advance, InFlight
  <2>3. racing'[c] = IF store[c].escalation # None THEN racing[c]
                     ELSE {x \in TurnsOf(c) : turn[x].pc \in InFlight}
    BY <1>1, <1>4 DEF Escalate
  <2>4. QED
    BY <1>1, <2>1, <2>2, <2>3 DEF TurnsOf
<1>5. CASE Persist(e) /\ ~ Escalate(e)
  <2>1. \A d \in Conversations : store'[d].escalation = store[d].escalation
    BY <1>1, <1>5 DEF Persist, ReadOutcome, WriteOutcome, SaveTriage, RecordOnboarded, Row
  <2>2. \A x \in Events : turn'[x].pc \in InFlight => turn[x].pc \in InFlight
    BY <1>1, <1>5 DEF Persist, ReadOutcome, WriteOutcome, SaveTriage, RecordOnboarded,
       Advance, InFlight
  <2>3. racing' = racing
    BY <1>5 DEF Persist, ReadOutcome, WriteOutcome, SaveTriage, RecordOnboarded, history
  <2>4. QED
    BY <1>1, <2>1, <2>2, <2>3
<1>6. CASE Respond(e)
  BY <1>1, <1>6 DEF Respond, Advance, InFlight
<1>7. CASE PersistReply(e)
  BY <1>1, <1>7 DEF PersistReply, Fresh, InFlight, history
<1>8. QED
  BY <1>2, <1>3, <1>4, <1>5, <1>6, <1>7 DEF TurnStep, Reply, Persist

LEMMA RacingStep == TypeOK /\ RacingInv /\ [Next]_vars => RacingInv'
<1> SUFFICES ASSUME TypeOK, RacingInv, [Next]_vars PROVE RacingInv'
  OBVIOUS
<1>1. ASSUME NEW e \in Events, TurnStep(e) PROVE RacingInv'
  BY <1>1, RacingTurn
<1> USE EngineAssumption DEF RacingInv, RowOf
<1>2. ASSUME NEW e \in Events, DbFailure(e) PROVE RacingInv'
  BY <1>2 DEF DbFailure, Fresh, InFlight, history, TypeOK
<1>3. CASE Crash
  BY <1>3 DEF Crash, Fresh, InFlight, history
<1>4. ASSUME NEW c \in Conversations, HumanClear(c) PROVE RacingInv'
  BY <1>4 DEF HumanClear, TypeOK, Row
<1>5. CASE UNCHANGED vars
  BY <1>5 DEF vars
<1>6. QED
  BY <1>1, <1>2, <1>3, <1>4, <1>5 DEF Next

(* Only a turn that raced the escalation replies autonomously after it. *)
LEMMA AnswerStep ==
  ASSUME TypeOK, RacingInv, [Next]_vars,
         NEW e \in Events, replies'[e] # replies[e], RowOf(e).escalation # None
  PROVE  e \in racing[ConversationOf[e]]
<1>1. PICK x \in Events : Respond(x)
  BY DEF Next, TurnStep, Gate, RunAny, RunAgent, Persist, Escalate, ReadOutcome, WriteOutcome,
     SaveTriage, RecordOnboarded, Reply, PersistReply, DbFailure, Crash, HumanClear, vars, history
<1>2. x = e
  BY <1>1 DEF Respond, TypeOK
<1>3. turn[e].pc \in InFlight
  BY <1>1, <1>2 DEF Respond, InFlight
<1>4. QED
  BY <1>3 DEF RacingInv

(* The gate holds for every turn that starts after the escalation was
   written: an autonomous reply in an escalated conversation comes from a
   turn that had already passed the gate. *)
THEOREM GateHolds == Spec => OnlyRacingTurnsAnswer
<1>1. TypeOK /\ RacingInv /\ [Next]_vars
        => [\A e \in Events :
              /\ replies'[e] # replies[e]
              /\ replies'[e] \in {"answer", "proposal"}
              /\ RowOf(e).escalation # None
              => e \in racing[ConversationOf[e]]]_vars
  BY AnswerStep
<1>2. QED
  BY <1>1, TypeInit, TypeStep, RacingInit, RacingStep, PTL DEF Spec, OnlyRacingTurnsAnswer

(***************************************************************************)
(* Proposed issues.                                                        *)
(***************************************************************************)

(* The saved triage state, every copy a turn holds and every response speak
   only of fields the conversation's messages have stated. *)
GroundedInv ==
  /\ ProposalGrounded
  /\ \A c \in Conversations : store[c].triage \subseteq stated[c]
  /\ \A e \in Events :
       /\ turn[e].triageSeen \subseteq stated[ConversationOf[e]]
       /\ turn[e].response.triage \subseteq stated[ConversationOf[e]]
       /\ turn[e].response.proposes => stated[ConversationOf[e]] = Fields

LEMMA GroundedInit == Init => GroundedInv
BY EngineAssumption DEF Init, GroundedInv, ProposalGrounded, Fresh, NoResponse,
   FallbackResponse, Plain

LEMMA FreshGrounded ==
  ASSUME NEW pc
  PROVE  /\ Fresh(pc).triageSeen = {} /\ Fresh(pc).response.triage = {}
         /\ ~ Fresh(pc).response.proposes
BY DEF Fresh, NoResponse, FallbackResponse, Plain

LEMMA GroundedTurn ==
  ASSUME TypeOK, GroundedInv, NEW e \in Events, TurnStep(e)
  PROVE  GroundedInv'
<1> USE EngineAssumption
<1>1. /\ \A x \in Events : turn[x] \in Turn /\ ConversationOf[x] \in Conversations
      /\ turn \in [Events -> Turn]
      /\ store \in [Conversations -> Row]
      /\ stated \in [Conversations -> SUBSET Fields]
      /\ replies \in [Events -> {None, "handoff", "answer", "proposal"}]
  BY DEF TypeOK
<1>2. CASE Gate(e)
  <2>1. [Fresh("context") EXCEPT !.streakSeen = RowOf(e).streak,
                                 !.triageSeen = RowOf(e).triage].triageSeen
          \subseteq stated[ConversationOf[e]]
    BY <1>1 DEF RowOf, GroundedInv, Fresh
  <2>2. [Fresh("context") EXCEPT !.streakSeen = RowOf(e).streak,
                                 !.triageSeen = RowOf(e).triage].response = NoResponse
    BY DEF Fresh
  <2>3. NoResponse.triage = {} /\ ~ NoResponse.proposes
    BY DEF NoResponse, FallbackResponse, Plain
  <2>4. /\ turn'[e].triageSeen \subseteq stated[ConversationOf[e]]
        /\ turn'[e].response.triage = {} /\ ~ turn'[e].response.proposes
    BY <1>1, <1>2, <2>1, <2>2, <2>3, FreshGrounded DEF Gate
  <2>5. \A x \in Events \ {e} : turn'[x] = turn[x]
    BY <1>1, <1>2 DEF Gate
  <2>6. QED
    BY <1>2, <2>4, <2>5 DEF Gate, GroundedInv, ProposalGrounded, history
<1>3. CASE RunAny(e)
  <2> PICK m \in Messages :
           \E r \in Execute(m, turn[e].streakSeen, turn[e].triageSeen)
                    \cup {FallbackResponse} : RunAgent(e, m, r)
    BY <1>3 DEF RunAny
  <2>1. PICK r \in Execute(m, turn[e].streakSeen, turn[e].triageSeen)
                   \cup {FallbackResponse} : RunAgent(e, m, r)
    OBVIOUS
  <2> DEFINE c == ConversationOf[e]
  <2>2. /\ stated'[c] = IF r.workflow = "triage-workflow" THEN stated[c] \cup m.fields
                                                         ELSE stated[c]
        /\ \A d \in Conversations \ {c} : stated'[d] = stated[d]
    <3>1. stated' = [stated EXCEPT ![c] = IF r.workflow = "triage-workflow"
                                            THEN stated[c] \cup m.fields ELSE stated[c]]
      BY <2>1 DEF RunAgent
    <3> HIDE DEF c
    <3>2. c \in Conversations
      BY <1>1 DEF c
    <3>3. QED
      BY <1>1, <3>1, <3>2
  <2>3. turn[e].triageSeen \subseteq stated[c] /\ turn[e].triageSeen \in SUBSET Fields
        /\ turn[e].streakSeen \in Nat /\ m \in Message
    BY <1>1 DEF GroundedInv, Turn
  <2>4. r.triage \subseteq stated'[c]
    <3>1. CASE r \in Execute(m, turn[e].streakSeen, turn[e].triageSeen)
      BY <2>2, <2>3, <3>1, ExecuteReports
    <3>2. CASE r = FallbackResponse
      BY <3>2, FallbackReports
    <3>3. QED
      BY <3>1, <3>2
  <2>5. r.proposes => stated'[c] = Fields
    <3>1. CASE r \in Execute(m, turn[e].streakSeen, turn[e].triageSeen)
      <4>1. stated[c] \subseteq Fields /\ m.fields \subseteq Fields
        BY <1>1, <2>3 DEF Message
      <4>2. r.proposes => turn[e].triageSeen \cup m.fields = Fields
                          /\ r.workflow = "triage-workflow"
        BY <2>3, <3>1, ExecuteReports
      <4>3. QED
        BY <2>2, <2>3, <4>1, <4>2
    <3>2. CASE r = FallbackResponse
      BY <3>2, FallbackReports
    <3>3. QED
      BY <3>1, <3>2
  <2>6. \A d \in Conversations : stated[d] \subseteq stated'[d] /\ stated'[d] \subseteq Fields
    BY <1>1, <2>2 DEF Message
  <2>7. /\ turn'[e].triageSeen = {} /\ turn'[e].response = r
        /\ \A x \in Events \ {e} : turn'[x] = turn[x]
        /\ store' = store /\ replies' = replies
    BY <1>1, <2>1 DEF RunAgent, Fresh
  <2>8. \A x \in Events : stated[ConversationOf[x]] = Fields => stated'[ConversationOf[x]] = Fields
    <3>1. ASSUME NEW d \in Conversations, stated[d] = Fields PROVE stated'[d] = Fields
      BY <2>6, <3>1
    <3>2. QED
      BY <1>1, <3>1
  <2>9. QED
    BY <1>1, <2>4, <2>5, <2>6, <2>7, <2>8 DEF GroundedInv, ProposalGrounded
<1>4. CASE Persist(e)
  <2>1. \A x \in Events : /\ turn'[x].triageSeen = turn[x].triageSeen
                          /\ turn'[x].response = turn[x].response
    <3>1. \/ \E pc : Advance(e, pc)
          \/ ReadOutcome(e)
      BY <1>4 DEF Persist, Escalate, WriteOutcome, SaveTriage, RecordOnboarded
    <3>2. ASSUME NEW pc, Advance(e, pc)
          PROVE  \A x \in Events : /\ turn'[x].triageSeen = turn[x].triageSeen
                                  /\ turn'[x].response = turn[x].response
      <4>1. turn' = [turn EXCEPT ![e] = [turn[e] EXCEPT !.pc = pc, !.streakRead = 0]]
        BY <3>2 DEF Advance
      <4>2. \A x \in Events : turn'[x] = IF x = e THEN [turn[e] EXCEPT !.pc = pc, !.streakRead = 0]
                                                 ELSE turn[x]
        BY <1>1, <4>1
      <4>3. QED
        BY <1>1, <4>2 DEF Turn
    <3>3. CASE ReadOutcome(e)
      BY <1>1, <3>3 DEF ReadOutcome, Turn
    <3>4. QED
      BY <3>1, <3>2, <3>3
  <2>2. \A c \in Conversations : store'[c].triage \in
          {store[c].triage} \cup {turn[x].response.triage : x \in TurnsOf(c)}
    <3>1. CASE SaveTriage(e)
      <4> DEFINE me == ConversationOf[e]
      <4>1. /\ store'[me].triage = turn[e].response.triage
            /\ \A c \in Conversations \ {me} : store'[c] = store[c]
        BY <1>1, <3>1 DEF SaveTriage, Row
      <4>2. e \in TurnsOf(me)
        BY DEF TurnsOf
      <4>3. QED
        BY <4>1, <4>2
    <3>2. CASE ~ SaveTriage(e)
      <4>1. \A c \in Conversations : store'[c].triage = store[c].triage
        <5>1. CASE Escalate(e)
          BY <1>1, <5>1 DEF Escalate, Row
        <5>2. CASE WriteOutcome(e)
          BY <1>1, <5>2 DEF WriteOutcome, Row
        <5>3. CASE ReadOutcome(e) \/ RecordOnboarded(e)
          BY <5>3 DEF ReadOutcome, RecordOnboarded
        <5>4. QED
          BY <1>4, <3>2, <5>1, <5>2, <5>3 DEF Persist
      <4>2. QED
        BY <4>1
    <3>3. QED
      BY <3>1, <3>2
  <2>3. stated' = stated /\ replies' = replies
    BY <1>4 DEF Persist, Escalate, ReadOutcome, WriteOutcome, SaveTriage,
       RecordOnboarded, history
  <2>4. QED
    BY <2>1, <2>2, <2>3 DEF GroundedInv, ProposalGrounded, TurnsOf
<1>5. CASE Respond(e)
  <2>1. \A x \in Events : /\ turn'[x].triageSeen = turn[x].triageSeen
                          /\ turn'[x].response = turn[x].response
    BY <1>1, <1>5 DEF Respond, Advance, Turn
  <2>2. replies'[e] = "proposal" => turn[e].response.proposes
    BY <1>1, <1>5 DEF Respond, ReplyKind
  <2>3. \A x \in Events \ {e} : replies'[x] = replies[x]
    BY <1>1, <1>5 DEF Respond
  <2>4. QED
    BY <1>5, <2>1, <2>2, <2>3 DEF Respond, GroundedInv, ProposalGrounded
<1>6. CASE PersistReply(e)
  <2>1. turn'[e] = Fresh("done") /\ \A x \in Events \ {e} : turn'[x] = turn[x]
    BY <1>1, <1>6 DEF PersistReply
  <2>2. QED
    BY <1>6, <2>1, FreshGrounded DEF PersistReply, GroundedInv, ProposalGrounded, history
<1>7. QED
  BY <1>2, <1>3, <1>4, <1>5, <1>6 DEF TurnStep, Reply

LEMMA GroundedStep == TypeOK /\ GroundedInv /\ [Next]_vars => GroundedInv'
<1> SUFFICES ASSUME TypeOK, GroundedInv, [Next]_vars PROVE GroundedInv'
  OBVIOUS
<1>1. ASSUME NEW e \in Events, TurnStep(e) PROVE GroundedInv'
  BY <1>1, GroundedTurn
<1>2. ASSUME NEW e \in Events, DbFailure(e) PROVE GroundedInv'
  <2>1. \A x \in Events : turn'[x] = turn[x] \/ turn'[x] = Fresh("dropped")
    BY <1>2 DEF DbFailure, TypeOK
  <2>2. QED
    BY <1>2, <2>1, FreshGrounded DEF DbFailure, GroundedInv, ProposalGrounded, history
<1>3. CASE Crash
  <2>1. \A x \in Events : turn'[x] = turn[x] \/ turn'[x] = Fresh("dropped")
    BY <1>3 DEF Crash
  <2>2. QED
    BY <1>3, <2>1, FreshGrounded DEF Crash, GroundedInv, ProposalGrounded, history
<1>4. ASSUME NEW c \in Conversations, HumanClear(c) PROVE GroundedInv'
  <2>1. \A d \in Conversations : store'[d].triage = store[d].triage
    BY <1>4 DEF HumanClear, TypeOK, Row
  <2>2. QED
    BY <1>4, <2>1 DEF HumanClear, GroundedInv, ProposalGrounded
<1>5. CASE UNCHANGED vars
  BY <1>5 DEF vars, history, GroundedInv, ProposalGrounded
<1>6. QED
  BY <1>1, <1>2, <1>3, <1>4, <1>5 DEF Next

(* An issue is proposed only when the conversation's messages have stated
   every field, even though concurrent turns overwrite the triage state. *)
THEOREM ProposalsAreGrounded == Spec => []ProposalGrounded
<1>1. GroundedInv => ProposalGrounded
  BY DEF GroundedInv
<1>2. QED
  BY <1>1, TypeInit, TypeStep, GroundedInit, GroundedStep, PTL DEF Spec

(***************************************************************************)
(* Turns without a reply.                                                  *)
(***************************************************************************)

Escalators(c) == {x \in TurnsOf(c) : ledger[x] \in {"escalated", "released"}}

(* A turn past its reply has one; an escalated conversation has a turn that
   escalated it; a suppressed turn found another turn's escalation. *)
SilenceInv ==
  /\ \A e \in Events : turn[e].pc \in {"record", "done"} => replies[e] # None
  /\ \A c \in Conversations : store[c].escalation # None => Escalators(c) # {}
  /\ \A e \in Events :
       turn[e].pc = "suppressed" => Escalators(ConversationOf[e]) \ {e} # {}

LEMMA SilenceImplied == SilenceInv => SilenceExplained
BY DEF SilenceInv, SilenceExplained, Over, Escalators

LEMMA SilenceInit == Init => SilenceInv
BY DEF Init, SilenceInv, Fresh

(* No step takes an escalation out of the ledger. *)
LEMMA EscalatorsGrow ==
  ASSUME TypeOK, LedgerInv, [Next]_vars, NEW c
  PROVE  Escalators(c) \subseteq Escalators(c)'
<1>1. ASSUME NEW x \in Events, ledger[x] \in {"escalated", "released"}
      PROVE  ledger'[x] \in {"escalated", "released"}
  <2>1. ASSUME NEW e \in Events, TurnStep(e) PROVE ledger' = ledger \/ (x # e /\ ledger'[x] = ledger[x])
    BY <1>1, <2>1 DEF TurnStep, Gate, RunAny, RunAgent, Persist, Escalate, ReadOutcome,
       WriteOutcome, SaveTriage, RecordOnboarded, Reply, Respond, PersistReply, history,
       LedgerInv, TypeOK
  <2>2. ASSUME NEW e \in Events, DbFailure(e) PROVE ledger' = ledger
    BY <2>2 DEF DbFailure, history
  <2>3. CASE Crash
    BY <1>1, <2>3 DEF Crash, history
  <2>4. ASSUME NEW d \in Conversations, HumanClear(d)
        PROVE  ledger'[x] \in {"escalated", "released"}
    BY <1>1, <2>4 DEF HumanClear
  <2>5. CASE UNCHANGED vars
    BY <1>1, <2>5 DEF vars
  <2>6. QED
    BY <1>1, <2>1, <2>2, <2>3, <2>4, <2>5 DEF Next
<1>2. QED
  BY <1>1 DEF Escalators, TurnsOf

LEMMA SilenceStep == TypeOK /\ LedgerInv /\ SilenceInv /\ [Next]_vars => SilenceInv'
<1> SUFFICES ASSUME TypeOK, LedgerInv, SilenceInv, [Next]_vars PROVE SilenceInv'
  OBVIOUS
<1> USE EngineAssumption
<1>1. /\ \A x \in Events : turn[x] \in Turn /\ ConversationOf[x] \in Conversations
      /\ turn \in [Events -> Turn]
      /\ store \in [Conversations -> Row]
      /\ replies \in [Events -> {None, "handoff", "answer", "proposal"}]
      /\ ledger \in [Events -> {"none", "confident", "failed", "escalated", "released"}]
  BY DEF TypeOK
<1>2. \A c : Escalators(c) \subseteq Escalators(c)'
  BY EscalatorsGrow
(* It is enough to look at the turns that move and the rows that change. *)
<1> DEFINE Goal ==
        /\ \A e \in Events : turn'[e].pc \in {"record", "done"} => replies'[e] # None
        /\ \A c \in Conversations : store'[c].escalation # None =>
                              store[c].escalation # None \/ Escalators(c)' # {}
        /\ \A e \in Events : turn'[e].pc = "suppressed" =>
                              \/ turn[e].pc = "suppressed"
                              \/ Escalators(ConversationOf[e]) \ {e} # {}
<1>3. SUFFICES Goal
  BY <1>2, <1>3 DEF SilenceInv
<1>4. \A e \in Events : turn[e].pc \in {"record", "done"} => replies[e] # None
  BY DEF SilenceInv
<1>5. ASSUME NEW e \in Events, Gate(e) PROVE Goal
  <2>1. ledger[e] = "none"
    BY <1>5 DEF Gate, LedgerInv
  <2>2. RowOf(e).escalation # None => Escalators(ConversationOf[e]) \ {e} # {}
    BY <1>1, <2>1 DEF SilenceInv, RowOf, Escalators
  <2>3. /\ turn'[e].pc = IF RowOf(e).escalation # None THEN "suppressed" ELSE "context"
        /\ \A x \in Events \ {e} : turn'[x] = turn[x]
    BY <1>1, <1>5 DEF Gate, Fresh
  <2>4. QED
    BY <1>4, <1>5, <2>2, <2>3 DEF Gate, history
<1>6. ASSUME NEW e \in Events, RunAny(e) PROVE Goal
  <2>1. /\ turn'[e].pc = "persist"
        /\ \A x \in Events \ {e} : turn'[x] = turn[x]
        /\ store' = store /\ replies' = replies
    BY <1>1, <1>6 DEF RunAny, RunAgent, Fresh
  <2>2. QED
    BY <1>4, <2>1
<1>7. ASSUME NEW e \in Events, NEW pc \in {"triage", "onboard", "respond"},
             Advance(e, pc) \/ ReadOutcome(e)
      PROVE  /\ turn'[e].pc \in {"triage", "onboard", "respond", "outcome"}
             /\ \A x \in Events \ {e} : turn'[x] = turn[x]
  BY <1>1, <1>7 DEF Advance, ReadOutcome, Turn
<1>8. ASSUME NEW e \in Events, Escalate(e) PROVE Goal
  <2>1. /\ turn'[e].pc \in {"triage", "onboard", "respond", "outcome"}
        /\ \A x \in Events \ {e} : turn'[x] = turn[x]
    BY <1>7, <1>8, AfterOutcomeType DEF Escalate
  <2>2. \A c \in Conversations : store'[c] = store[c] \/ c = ConversationOf[e]
    BY <1>1, <1>8 DEF Escalate
  <2>3. e \in Escalators(ConversationOf[e])'
    BY <1>1, <1>8 DEF Escalate, Escalators, TurnsOf
  <2>4. QED
    BY <1>4, <1>8, <2>1, <2>2, <2>3 DEF Escalate
<1>9. ASSUME NEW e \in Events, Persist(e), ~ Escalate(e) PROVE Goal
  <2>1. /\ turn'[e].pc \in {"triage", "onboard", "respond", "outcome"}
        /\ \A x \in Events \ {e} : turn'[x] = turn[x]
    BY <1>7, <1>9, AfterOutcomeType
       DEF Persist, ReadOutcome, WriteOutcome, SaveTriage, RecordOnboarded
  <2>2. \A c \in Conversations : store'[c].escalation = store[c].escalation
    <3>1. CASE WriteOutcome(e)
      BY <1>1, <3>1 DEF WriteOutcome, Row
    <3>2. CASE SaveTriage(e)
      BY <1>1, <3>2 DEF SaveTriage, Row
    <3>3. CASE ReadOutcome(e) \/ RecordOnboarded(e)
      BY <3>3 DEF ReadOutcome, RecordOnboarded
    <3>4. QED
      BY <1>9, <3>1, <3>2, <3>3 DEF Persist
  <2>3. replies' = replies
    BY <1>9 DEF Persist, ReadOutcome, WriteOutcome, SaveTriage, RecordOnboarded, history
  <2>4. QED
    BY <1>4, <2>1, <2>2, <2>3
<1>10. ASSUME NEW e \in Events, Respond(e) PROVE Goal
  <2>1. replies'[e] # None /\ \A x \in Events \ {e} : replies'[x] = replies[x]
    BY <1>1, <1>10 DEF Respond, ReplyKind
  <2>2. turn'[e].pc = "record" /\ \A x \in Events \ {e} : turn'[x] = turn[x]
    BY <1>1, <1>10 DEF Respond, Advance, Turn
  <2>3. QED
    BY <1>4, <1>10, <2>1, <2>2 DEF Respond
<1>11. ASSUME NEW e \in Events, PersistReply(e) PROVE Goal
  <2>1. /\ turn[e].pc = "record" /\ turn'[e].pc = "done"
        /\ \A x \in Events \ {e} : turn'[x] = turn[x]
        /\ store' = store /\ replies' = replies
    BY <1>1, <1>11 DEF PersistReply, Fresh, history
  <2>2. QED
    BY <1>4, <2>1
<1>12. ASSUME \A x \in Events : turn'[x] = turn[x] \/ turn'[x] = Fresh("dropped"),
              \A c \in Conversations : store'[c].escalation \in {store[c].escalation, None},
              replies' = replies
       PROVE  Goal
  BY <1>4, <1>12 DEF Fresh
<1>13. ASSUME NEW e \in Events, DbFailure(e) PROVE Goal
  BY <1>1, <1>12, <1>13 DEF DbFailure, history
<1>14. CASE Crash
  BY <1>1, <1>12, <1>14 DEF Crash, history
<1>15. ASSUME NEW c \in Conversations, HumanClear(c) PROVE Goal
  <2>1. \A d \in Conversations : store'[d].escalation \in {store[d].escalation, None}
    BY <1>1, <1>15 DEF HumanClear, Row
  <2>2. QED
    BY <1>12, <1>15, <2>1 DEF HumanClear
<1>16. CASE UNCHANGED vars
  BY <1>12, <1>16 DEF vars
<1>17. QED
  BY <1>5, <1>6, <1>8, <1>9, <1>10, <1>11, <1>13, <1>14, <1>15, <1>16
     DEF Next, TurnStep, Reply, Persist

(* A turn that ends without a reply was cut off by a fault, or found its
   conversation escalated by another turn. *)
THEOREM SilenceIsExplained == Spec => []SilenceExplained
BY SilenceImplied, TypeInit, TypeStep, HandoffInit, HandoffStep, SilenceInit, SilenceStep,
   PTL DEF Spec

================================================================================
