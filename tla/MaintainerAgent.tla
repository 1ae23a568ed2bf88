---------------------------- MODULE MaintainerAgent ----------------------------
(***************************************************************************)
(* The decision an agent turn makes, as a function of the message and of   *)
(* the conversation state the turn was given: intent classification, the   *)
(* escalation policy, the routing to a workflow, and the response of each  *)
(* workflow.  Nothing here changes state; WorkflowEngine persists what a   *)
(* response reports.                                                       *)
(*                                                                         *)
(* Confidences are in hundredths (0.5 is 50).  A message is what the       *)
(* classifier and the triage extraction tell apart: how many keywords of   *)
(* each list its text contains, which issue fields it states, and whether  *)
(* the event is a freshly opened pull request.                             *)
(***************************************************************************)
EXTENDS Integers, FiniteSets

CONSTANTS
  Fields,                  \* the fields a bug report must provide
  ConfidenceThreshold,     \* DEFAULT_ESCALATION_POLICY.confidenceThreshold
  FailureStreakThreshold,  \* DEFAULT_ESCALATION_POLICY.failureStreakThreshold
  None                     \* null

ASSUME PolicyAssumption ==
  /\ ConfidenceThreshold \in 1 .. 100
  /\ FailureStreakThreshold \in Nat \ {0}
  /\ Fields # {}
  /\ None \notin {"sensitive_topic", "repeated_failure", "low_confidence"}

Intents == {"escalation_signal", "pr_summary_request", "bug_report",
            "contribution_question", "general_qa"}
Workflows == {"escalation-workflow", "pr-summary-workflow", "triage-workflow",
              "onboarding-workflow", "general-workflow", "unknown"}
EscalationReason == {"sensitive_topic", "repeated_failure", "low_confidence"}

Message == [escalation: Nat, prSummary: Nat, bug: Nat, contribution: Nat,
            openedPR: BOOLEAN, fields: SUBSET Fields]

Classification == [intent: Intents, confidence: 0 .. 100]

Response == [workflow: Workflows, confidence: 0 .. 100,
             reason: EscalationReason \cup {None},
             savesTriage: BOOLEAN, triage: SUBSET Fields, proposes: BOOLEAN]

Smaller(x, y) == IF x <= y THEN x ELSE y

(* Mutant of Scored: the cap is forgotten. *)
ScoredUncapped(base, step, n) == base + step * n

(* Confidence grows with the number of keywords matched, and stays below 1. *)
Scored(base, step, n) == Smaller(95, base + step * n)

(* Keyword lists in order of precedence; a text that reads as a bug report
   and as a contribution question is ambiguous and scores 0.4. *)
Classify(m) ==
  IF m.escalation > 0
    THEN [intent |-> "escalation_signal", confidence |-> Scored(70, 10, m.escalation)]
  ELSE IF m.prSummary > 0
    THEN [intent |-> "pr_summary_request", confidence |-> Scored(65, 12, m.prSummary)]
  ELSE IF m.bug > 0 /\ m.contribution > 0
    THEN [intent |-> IF m.bug >= m.contribution THEN "bug_report"
                                                ELSE "contribution_question",
          confidence |-> 40]
  ELSE IF m.bug > 0
    THEN [intent |-> "bug_report", confidence |-> Scored(60, 12, m.bug)]
  ELSE IF m.contribution > 0
    THEN [intent |-> "contribution_question", confidence |-> Scored(60, 12, m.contribution)]
  ELSE [intent |-> "general_qa", confidence |-> 85]

(* A freshly opened pull request is summarised whatever its text says,
   unless the text is an escalation signal. *)
ClassifyEvent(m) ==
  IF m.openedPR /\ Classify(m).intent # "escalation_signal"
    THEN [intent |-> "pr_summary_request", confidence |-> 90]
    ELSE Classify(m)

(* Mutant of Evaluate: this turn is counted as a failure in advance. *)
EvaluateEarly(classification, failureStreak) ==
  IF classification.intent = "escalation_signal" THEN "sensitive_topic"
  ELSE IF failureStreak + 1 >= FailureStreakThreshold THEN "repeated_failure"
  ELSE IF classification.confidence < ConfidenceThreshold THEN "low_confidence"
  ELSE None

(* The reason to escalate, or None: sensitive topic, then repeated failure,
   then low confidence. *)
Evaluate(classification, failureStreak) ==
  IF classification.intent = "escalation_signal" THEN "sensitive_topic"
  ELSE IF failureStreak >= FailureStreakThreshold THEN "repeated_failure"
  ELSE IF classification.confidence < ConfidenceThreshold THEN "low_confidence"
  ELSE None

(* The workflow registered for an intent.  An escalation signal never gets
   here: Evaluate has sent it to the escalation workflow. *)
Route(intent) ==
  IF intent = "bug_report" THEN "triage-workflow"
  ELSE IF intent = "contribution_question" THEN "onboarding-workflow"
  ELSE IF intent = "pr_summary_request" THEN "pr-summary-workflow"
  ELSE "general-workflow"

(* A response that reports no state change. *)
Plain(workflow, confidence) ==
  [workflow |-> workflow, confidence |-> confidence, reason |-> None,
   savesTriage |-> FALSE, triage |-> {}, proposes |-> FALSE]

EscalationResponse(classification, reason) ==
  [Plain("escalation-workflow", classification.confidence) EXCEPT !.reason = reason]

(* The fields known after this message.  A null triage state and an empty
   one are the same: they differ in the turn count, which only words the
   reply. *)
Collect(prior, m) == prior \cup m.fields

(* Mutant of TriageResponse: complete with one field still missing. *)
TriageResponseHasty(classification, m, prior) ==
  LET complete == Cardinality(Fields \ Collect(prior, m)) <= 1
  IN  [Plain("triage-workflow", classification.confidence) EXCEPT
         !.savesTriage = TRUE,
         !.triage = IF complete THEN {} ELSE Collect(prior, m),
         !.proposes = complete]

(* The collected fields are saved back until all are known; then the saved
   state is cleared and the issue is proposed. *)
TriageResponse(classification, m, prior) ==
  LET complete == Collect(prior, m) = Fields
  IN  [Plain("triage-workflow", classification.confidence) EXCEPT
         !.savesTriage = TRUE,
         !.triage = IF complete THEN {} ELSE Collect(prior, m),
         !.proposes = complete]

(* Without repository context the answer is a refusal at confidence 0.5 at
   most, otherwise the documents are quoted. *)
OnboardingResponses(classification) ==
  { Plain("onboarding-workflow", c) :
      c \in {Smaller(classification.confidence, 50), classification.confidence} }

(* No repository access, no files retrieved, or a summary of the diff. *)
PRSummaryResponses(classification) ==
  { Plain("pr-summary-workflow", c) :
      c \in {Smaller(classification.confidence, 50), 40, classification.confidence} }

GeneralResponse(classification) ==
  Plain("general-workflow", classification.confidence)

(* What the engine substitutes when agent.execute throws. *)
FallbackResponse == Plain("unknown", 0)

(* Every response execute can return for message m, given the failure
   streak and the triage state the turn read. *)
Execute(m, failureStreak, prior) ==
  LET cls    == ClassifyEvent(m)
      reason == Evaluate(cls, failureStreak)
      target == Route(cls.intent)
  IN  IF reason # None THEN {EscalationResponse(cls, reason)}
      ELSE IF target = "triage-workflow" THEN {TriageResponse(cls, m, prior)}
      ELSE IF target = "onboarding-workflow" THEN OnboardingResponses(cls)
      ELSE IF target = "pr-summary-workflow" THEN PRSummaryResponses(cls)
      ELSE {GeneralResponse(cls)}

(* A workflow past the escalation decision may still throw (a tool, the
   database, a defect); the escalation workflow does no I/O. *)
MayThrow(m, failureStreak) == Evaluate(ClassifyEvent(m), failureStreak) = None
================================================================================
