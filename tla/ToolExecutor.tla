------------------------------ MODULE ToolExecutor ------------------------------
(***************************************************************************)
(* ToolExecutor.run over a live LLMProvider: the turns that answer a       *)
(* question by asking the model, running the tools it requests, and asking *)
(* once more.  The turns of a process share the provider's executor: each  *)
(* turn is a caller of ResilientExecutor, for the chat and the embedding   *)
(* requests alike, and its steps are joined with the executor's here.      *)
(*                                                                         *)
(* stage[t]:                                                               *)
(*   idle      no turn, or the last one is over                            *)
(*   generate  generate: the registry holds no tools                       *)
(*   ask       generateWithTools with the registry's tools                 *)
(*   tools     between the tool calls the model has requested              *)
(*   embed     search_documentation has rows and embeds the query          *)
(*   final     generateWithTools with no tools                             *)
(*                                                                         *)
(* A tool call is what the code tells apart: a search with a query, one    *)
(* without (arguments that do not parse too), one whose arguments are the  *)
(* JSON null, and a tool nobody registered.                                *)
(***************************************************************************)
EXTENDS ResilientExecutor, Sequences

CONSTANTS
  EmbedsRemotely,  \* embed asks the provider (FALSE: OpenRouter, no model set)
  Requests,        \* the sequences of tool calls a model may answer with
  None

Calls == {"search", "noQuery", "nullArguments", "unknownTool"}
Results == {"excerpts", "nothingIngested", "noQuery", "unknownTool"}
Replies == {"text", "placeholder", "blank", "apology", "error"}
Chatting == {"generate", "ask", "final"}
Calling == Chatting \cup {"embed"}
Losses == Calling \cup {"select"}
Stages == Calling \cup {"idle", "tools"}

ASSUME ToolAssumption ==
  /\ EmbedsRemotely \in BOOLEAN
  /\ Requests \subseteq Seq(Calls) \ {<<>>}
  /\ None \notin Replies

VARIABLES
  stage,
  requested,   \* firstPass.toolCalls
  results,     \* resultSections
  reply,       \* what the turn ended with; error: run threw
  lost,        \* history: what the turn waited for in vain: a request that
               \* was given up or refused, or a select that threw
  misshapen,   \* history: the provider answered what the code cannot use
  requests     \* history: requests sent for the turn

turnVars == <<stage, requested, results, reply, lost, misshapen, requests>>
allVars == <<vars, turnVars>>

TurnTypeOK ==
  /\ TypeOK
  /\ stage \in [Callers -> Stages]
  /\ requested \in [Callers -> Requests \cup {<<>>}]
  /\ results \in [Callers -> Seq(Results)]
  /\ reply \in [Callers -> Replies \cup {None}]
  /\ lost \in [Callers -> SUBSET Losses]
  /\ misshapen \in [Callers -> BOOLEAN]
  /\ requests \in [Callers -> Nat]

TurnInit ==
  /\ Init
  /\ stage = [t \in Callers |-> "idle"]
  /\ requested = [t \in Callers |-> <<>>]
  /\ results = [t \in Callers |-> <<>>]
  /\ reply = [t \in Callers |-> None]
  /\ lost = [t \in Callers |-> {}]
  /\ misshapen = [t \in Callers |-> FALSE]
  /\ requests = [t \in Callers |-> 0]

-----------------------------------------------------------------------------
(* The turn goes on to a stage ... *)
Continue(t, s) == stage' = [stage EXCEPT ![t] = s] /\ UNCHANGED reply

(* ... or run returns, or throws, and the turn is over. *)
End(t, r) == stage' = [stage EXCEPT ![t] = "idle"] /\ reply' = [reply EXCEPT ![t] = r]

Count(t) == requests' = [requests EXCEPT ![t] = @ + 1]

(* Mutant of GivenUp: a chat request that fails throws out of the turn. *)
GivenUpThrows(t) ==
  /\ lost' = [lost EXCEPT ![t] = @ \cup {stage[t]}]
  /\ End(t, "error")
  /\ UNCHANGED <<requested, results, misshapen, requests>>

(* generate and generateWithTools answer for a failed request with a text
   of their own and no tool calls; embed throws out of the search, and so
   out of the turn. *)
GivenUp(t) ==
  /\ lost' = [lost EXCEPT ![t] = @ \cup {stage[t]}]
  /\ End(t, IF stage[t] = "embed" THEN "error" ELSE "apology")
  /\ UNCHANGED <<requested, results, misshapen, requests>>

-----------------------------------------------------------------------------
(* run, with the tools of the workflow's registry or without any. *)
Begin(t) ==
  /\ stage[t] = "idle"
  /\ \E s \in {"ask", "generate"} : stage' = [stage EXCEPT ![t] = s]
  /\ requested' = [requested EXCEPT ![t] = <<>>]
  /\ results' = [results EXCEPT ![t] = <<>>]
  /\ reply' = [reply EXCEPT ![t] = None]
  /\ lost' = [lost EXCEPT ![t] = {}]
  /\ misshapen' = [misshapen EXCEPT ![t] = FALSE]
  /\ requests' = [requests EXCEPT ![t] = 0]
  /\ UNCHANGED vars

(* Mutant of Send: an embedding request goes past the breaker. *)
SendBypassing(t) ==
  /\ stage[t] \in Calling
  /\ t \notin Busy
  /\ IF stage[t] # "embed" THEN Admit(t)
       ELSE /\ pc' = [pc EXCEPT ![t] = "sent"]
            /\ UNCHANGED <<state, consecutiveFailures, coolingLeft, attempt, stragglers, faults>>
  /\ Count(t)
  /\ UNCHANGED <<stage, requested, results, reply, lost, misshapen>>

(* The steps of the executor for the request of the turn's stage. *)
Send(t) ==
  /\ stage[t] \in Calling
  /\ Admit(t)
  /\ Count(t)
  /\ UNCHANGED <<stage, requested, results, reply, lost, misshapen>>

FailFast(t) ==
  /\ stage[t] \in Calling
  /\ Reject(t)
  /\ GivenUp(t)

BackOff(t) == FailAndBackOff(t) /\ UNCHANGED turnVars

SendAgain(t) ==
  /\ Retry(t)
  /\ Count(t)
  /\ UNCHANGED <<stage, requested, results, reply, lost, misshapen>>

GiveUp(t) == FailCall(t) /\ GivenUp(t)

(* The model answers with text, or with none: "No response generated". *)
Generated(t) ==
  /\ stage[t] = "generate"
  /\ Succeed(t)
  /\ \E r \in {"text", "placeholder"} : End(t, r)
  /\ UNCHANGED <<requested, results, lost, misshapen, requests>>

(* Offered tools, it may answer with calls of them instead. *)
Ask(t) ==
  /\ stage[t] = "ask"
  /\ Succeed(t)
  /\ \/ \E r \in {"text", "placeholder"} : End(t, r) /\ UNCHANGED requested
     \/ /\ \E c \in Requests : requested' = [requested EXCEPT ![t] = c]
        /\ Continue(t, "tools")
  /\ UNCHANGED <<results, lost, misshapen, requests>>

(* A body without the expected shape.  The chat methods catch what they
   trip over, embed throws; the executor has counted a success. *)
Misread(t) ==
  /\ Succeed(t)
  /\ misshapen' = [misshapen EXCEPT ![t] = TRUE]
  /\ End(t, IF stage[t] = "embed" THEN "error" ELSE "apology")
  /\ UNCHANGED <<requested, results, lost, requests>>

(* The tool call whose result is due. *)
Due(t) == requested[t][Len(results[t]) + 1]
CallsLeft(t) == stage[t] = "tools" /\ Len(results[t]) < Len(requested[t])

Record(t, r) == results' = [results EXCEPT ![t] = Append(@, r)]

(* Mutant of Answer: a tool nobody registered is waited for. *)
AnswerKnown(t) ==
  /\ CallsLeft(t)
  /\ \/ Due(t) = "noQuery" /\ Record(t, "noQuery")
     \/ Due(t) = "search" /\ Record(t, "nothingIngested")
     \/ Due(t) = "search" /\ ~ EmbedsRemotely /\ Record(t, "excerpts")
  /\ UNCHANGED <<vars, stage, requested, reply, lost, misshapen, requests>>

(* A call that is answered without the provider. *)
Answer(t) ==
  /\ CallsLeft(t)
  /\ \/ Due(t) = "unknownTool" /\ Record(t, "unknownTool")
     \/ Due(t) = "noQuery" /\ Record(t, "noQuery")
     \/ Due(t) = "search" /\ Record(t, "nothingIngested")
     \/ Due(t) = "search" /\ ~ EmbedsRemotely /\ Record(t, "excerpts")
  /\ UNCHANGED <<vars, stage, requested, reply, lost, misshapen, requests>>

(* The selects found rows of the repository: the query is embedded. *)
Search(t) ==
  /\ CallsLeft(t)
  /\ Due(t) = "search" /\ EmbedsRemotely
  /\ Continue(t, "embed")
  /\ UNCHANGED <<vars, requested, results, lost, misshapen, requests>>

(* Mutant of SelectFails: a failed search counts as one without rows. *)
SelectFailsQuietly(t) ==
  /\ CallsLeft(t)
  /\ Due(t) = "search"
  /\ lost' = [lost EXCEPT ![t] = @ \cup {"select"}]
  /\ Record(t, "nothingIngested")
  /\ UNCHANGED <<vars, stage, requested, reply, misshapen, requests>>

(* The select of the repository, or of its rows, throws: not caught by the
   tool, nor by ToolExecutor. *)
SelectFails(t) ==
  /\ CallsLeft(t)
  /\ Due(t) = "search"
  /\ lost' = [lost EXCEPT ![t] = @ \cup {"select"}]
  /\ End(t, "error")
  /\ UNCHANGED <<vars, requested, results, misshapen, requests>>

(* args.query of a null: not caught here, nor by ToolExecutor. *)
Trip(t) ==
  /\ CallsLeft(t)
  /\ Due(t) = "nullArguments"
  /\ End(t, "error")
  /\ UNCHANGED <<vars, requested, results, lost, misshapen, requests>>

Embedded(t) ==
  /\ stage[t] = "embed"
  /\ Succeed(t)
  /\ Record(t, "excerpts")
  /\ Continue(t, "tools")
  /\ UNCHANGED <<requested, lost, misshapen, requests>>

(* Mutant of FollowUp: the tools are offered again. *)
FollowUpWithTools(t) ==
  /\ stage[t] = "tools"
  /\ Len(results[t]) = Len(requested[t])
  /\ Continue(t, "ask")
  /\ results' = [results EXCEPT ![t] = <<>>]
  /\ UNCHANGED <<vars, requested, lost, misshapen, requests>>

(* Every call has its result: the follow-up prompt, with no tools. *)
FollowUp(t) ==
  /\ stage[t] = "tools"
  /\ Len(results[t]) = Len(requested[t])
  /\ Continue(t, "final")
  /\ UNCHANGED <<vars, requested, results, lost, misshapen, requests>>

(* A model that requests tools nevertheless has null for text: ''. *)
Final(t) ==
  /\ stage[t] = "final"
  /\ Succeed(t)
  /\ \E r \in {"text", "placeholder", "blank"} : End(t, r)
  /\ UNCHANGED <<requested, results, lost, misshapen, requests>>

TimePasses == Tick /\ UNCHANGED turnVars

RequestStep(t) == Send(t) \/ FailFast(t) \/ SendAgain(t)
Response(t) == \/ Generated(t) \/ Ask(t) \/ Embedded(t) \/ Final(t)
               \/ Misread(t) \/ BackOff(t) \/ GiveUp(t)
ToolStep(t) == Answer(t) \/ Search(t) \/ SelectFails(t) \/ Trip(t) \/ FollowUp(t)

TurnNext ==
  \/ \E t \in Callers : Begin(t) \/ RequestStep(t) \/ Response(t) \/ ToolStep(t)
  \/ TimePasses

TurnSpec == TurnInit /\ [][TurnNext]_allVars

(* A turn's promises settle (requests are answered, sleeps and selects end),
   time passes, and questions keep coming. *)
TurnFairSpec ==
  /\ TurnSpec
  /\ WF_allVars(TimePasses)
  /\ \A t \in Callers : /\ WF_allVars(Begin(t))
                        /\ WF_allVars(RequestStep(t))
                        /\ WF_allVars(Response(t))
                        /\ WF_allVars(ToolStep(t))

-----------------------------------------------------------------------------
Searches(t) == {i \in DOMAIN requested[t] : requested[t][i] = "search"}

Answers(call, result) ==
  \/ call = "search" /\ result \in {"excerpts", "nothingIngested"}
  \/ call = result

(* "Forced to give a final text answer grounded in the result": a reply of
   the model after it requested tools follows from a result for every one
   of its calls, in their order, and from no request that was given up. *)
Grounded ==
  \A t \in Callers :
    reply[t] \in {"text", "placeholder", "blank"} =>
      /\ lost[t] = {} /\ ~ misshapen[t]
      /\ Len(results[t]) = Len(requested[t])
      /\ \A i \in DOMAIN requested[t] : Answers(requested[t][i], results[t][i])

(* A turn throws (and counts towards an escalation) only over a search: its
   selects threw, its query could not be embedded, or its arguments were
   null.  A chat request that fails, or is refused by the open breaker, ends
   in the apology and never throws, whatever the turn had found by then; and
   no turn goes on to lose a second thing. *)
OutagesTold ==
  \A t \in Callers :
    /\ reply[t] = "error" => \/ lost[t] \cap {"embed", "select"} # {} \/ misshapen[t]
                             \/ \E i \in DOMAIN requested[t] : requested[t][i] = "nullArguments"
    /\ reply[t] = "apology" => lost[t] \cap Chatting # {} \/ misshapen[t]
    /\ Cardinality(lost[t]) <= 1

(* "Bounded tool-calling": two rounds of the model and one embedding for
   each search it asked for, MaxAttempts requests each, and no more. *)
RequestsBounded ==
  \A t \in Callers : requests[t] <= MaxAttempts * (2 + Cardinality(Searches(t)))

(* A question is answered in the end, one way or another, whatever the
   provider and the other turns do. *)
TurnsEnd == \A t \in Callers : stage[t] # "idle" ~> stage[t] = "idle"
==================================================================================
