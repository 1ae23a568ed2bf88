--------------------------- MODULE ToolExecutor_proofs ---------------------------
(***************************************************************************)
(* Proofs about ResilientExecutor and about ToolExecutor, whose turns call *)
(* it: for any number of callers, any answers of the model, any thresholds *)
(* and retry policy.                                                       *)
(***************************************************************************)
EXTENDS ToolExecutor, FiniteSetTheorems, TLAPS

(* Whoever is in the middle of a call while the breaker is OPEN was so when
   it opened. *)
ShieldInv == state = "OPEN" => Busy \subseteq stragglers

Inv == TypeOK /\ StateMatchesCount /\ ShieldInv

LEMMA InitInv == Init => Inv
BY ExecutorAssumption
   DEF Init, Inv, TypeOK, StateMatchesCount, ShieldInv, CallState, PC

LEMMA LeaveType ==
  ASSUME TypeOK, NEW c \in Callers, Leave(c)
  PROVE  /\ pc' \in [Callers -> PC]
         /\ attempt' \in [Callers -> 0 .. MaxAttempts - 1]
         /\ Busy' = Busy \ {c}
BY ExecutorAssumption DEF TypeOK, Leave, PC, Busy

(* The whole invariant, action by action: the breaker's fields are few and
   every part is about all of them. *)
LEMMA StepInv == Inv /\ [Next]_vars => Inv'
<1> SUFFICES ASSUME Inv, [Next]_vars PROVE Inv'
  OBVIOUS
<1> USE ExecutorAssumption DEF Inv
<1>0. TypeOK /\ consecutiveFailures \in Nat /\ coolingLeft \in 0 .. Cooldown
  BY DEF TypeOK
<1>1. ASSUME NEW c \in Callers, Admit(c) PROVE Inv'
  <2>1. TypeOK'
    BY <1>1 DEF TypeOK, Admit, CallState, PC
  <2>2. StateMatchesCount'
    BY <1>0, <1>1 DEF StateMatchesCount, Admit, Cooling, TypeOK
  <2>3. ShieldInv'
    BY <1>1 DEF ShieldInv, Admit, TypeOK
  <2> QED
    BY <2>1, <2>2, <2>3
<1>2. ASSUME NEW c \in Callers, Reject(c) PROVE Inv'
  <2>1. TypeOK'
    BY <1>2 DEF TypeOK, Reject, PC
  <2>2. StateMatchesCount'
    BY <1>2 DEF StateMatchesCount, Reject
  <2>3. ShieldInv'
    BY <1>2 DEF ShieldInv, Reject, TypeOK, Busy
  <2> QED
    BY <2>1, <2>2, <2>3
<1>3. ASSUME NEW c \in Callers, Succeed(c) PROVE Inv'
  <2>1. TypeOK'
    BY <1>3, LeaveType DEF TypeOK, Succeed, OnSuccess, CallState
  <2>2. StateMatchesCount' /\ ShieldInv'
    BY <1>3 DEF StateMatchesCount, ShieldInv, Succeed, OnSuccess
  <2> QED
    BY <2>1, <2>2
<1>4. ASSUME NEW c \in Callers, FailAndBackOff(c) PROVE Inv'
  <2>1. TypeOK'
    BY <1>4 DEF TypeOK, FailAndBackOff, Fault, PC
  <2>2. StateMatchesCount'
    BY <1>4 DEF StateMatchesCount, FailAndBackOff
  <2>3. Busy' = Busy
    BY <1>4 DEF FailAndBackOff, Busy, TypeOK
  <2> QED
    BY <1>4, <2>1, <2>2, <2>3 DEF ShieldInv, FailAndBackOff
<1>5. ASSUME NEW c \in Callers, FailCall(c) PROVE Inv'
  <2>1. faults' \in 0 .. MaxFaults /\ consecutiveFailures' = consecutiveFailures + 1
    BY <1>5 DEF FailCall, Fault, OnFailure, TypeOK
  <2>2. Busy' = Busy \ {c} /\ Busy \subseteq Callers
    BY <1>5, LeaveType DEF FailCall, Busy
  <2>3. CASE state = "HALF_OPEN" \/ consecutiveFailures + 1 >= FailureThreshold
    <3>1. state' = "OPEN" /\ coolingLeft' = Cooldown /\ stragglers' = Busy \ {c}
      BY <1>5, <2>3 DEF FailCall, OnFailure
    <3>2. TypeOK'
      BY <1>5, <2>1, <2>2, <3>1, LeaveType DEF TypeOK, FailCall, CallState
    <3>3. ~ (consecutiveFailures' < FailureThreshold)
      BY <1>0, <2>1, <2>3 DEF StateMatchesCount
    <3>4. StateMatchesCount'
      BY <3>1, <3>3 DEF StateMatchesCount
    <3> QED
      BY <2>2, <3>1, <3>2, <3>4 DEF ShieldInv
  <2>4. CASE ~ (state = "HALF_OPEN" \/ consecutiveFailures + 1 >= FailureThreshold)
    <3>1. UNCHANGED <<state, coolingLeft, stragglers>>
      BY <1>5, <2>4 DEF FailCall, OnFailure
    <3>2. TypeOK'
      BY <1>5, <2>1, <3>1, LeaveType DEF TypeOK, FailCall
    <3>3. StateMatchesCount'
      BY <1>0, <2>1, <2>4, <3>1 DEF StateMatchesCount
    <3> QED
      BY <2>2, <3>1, <3>2, <3>3 DEF ShieldInv
  <2> QED
    BY <2>3, <2>4
<1>6. ASSUME NEW c \in Callers, Retry(c) PROVE Inv'
  <2>1. TypeOK'
    BY <1>6 DEF TypeOK, Retry, PC
  <2>2. StateMatchesCount'
    BY <1>6 DEF StateMatchesCount, Retry
  <2>3. Busy' = Busy
    BY <1>6 DEF Retry, Busy, TypeOK
  <2> QED
    BY <1>6, <2>1, <2>2, <2>3 DEF ShieldInv, Retry
<1>7. CASE Tick
  <2>1. TypeOK'
    BY <1>0, <1>7 DEF TypeOK, Tick
  <2>2. StateMatchesCount'
    BY <1>0, <1>7 DEF StateMatchesCount, Tick
  <2> QED
    BY <1>7, <2>1, <2>2 DEF ShieldInv, Tick, Busy
<1>8. CASE UNCHANGED vars
  BY <1>8 DEF TypeOK, StateMatchesCount, ShieldInv, Busy, vars
<1> QED
  BY <1>1, <1>2, <1>3, <1>4, <1>5, <1>6, <1>7, <1>8 DEF Next, Answered

LEMMA Invariance == Spec => []Inv
BY InitInv, StepInv, PTL DEF Spec

(* Every variable keeps its type; no call exceeds the retry policy. *)
THEOREM TypeCorrect == Spec => []TypeOK
<1>1. Inv => TypeOK
  BY DEF Inv
<1> QED
  BY <1>1, Invariance, PTL

(* CLOSED means fewer than FailureThreshold failures in a row, whatever the
   order in which the outcomes of concurrent calls arrive. *)
THEOREM StateIsTheCount == Spec => []StateMatchesCount
<1>1. Inv => StateMatchesCount
  BY DEF Inv
<1> QED
  BY <1>1, Invariance, PTL

(* While the breaker cools down, only calls older than its opening send
   requests. *)
THEOREM CooldownShields == Spec => CoolingShields
<1>1. Inv /\ [Next]_vars =>
        [Cooling => \A c \in Callers :
                      pc'[c] = "sent" /\ pc[c] # "sent" => c \in stragglers]_vars
  <2> SUFFICES ASSUME Inv, Next, Cooling,
                      NEW c \in Callers, pc'[c] = "sent", pc[c] # "sent"
               PROVE  c \in stragglers
    BY DEF vars
  <2>1. pc[c] = "backoff"
    BY DEF Inv, TypeOK, Next, Answered, Admit, Reject, Succeed, FailAndBackOff,
       FailCall, Leave, Retry, Tick
  <2> QED
    BY <2>1 DEF Inv, ShieldInv, Cooling, Busy
<1> QED
  BY <1>1, Invariance, PTL DEF Spec, CoolingShields

-----------------------------------------------------------------------------
USE ExecutorAssumption, ToolAssumption

(* Every step of the turns is a step of the executor or leaves it alone. *)
LEMMA StepsRefine == [TurnNext]_allVars => [Next]_vars
<1> SUFFICES ASSUME [TurnNext]_allVars PROVE [Next]_vars
  OBVIOUS
<1>1. ASSUME NEW t \in Callers,
             Begin(t) \/ RequestStep(t) \/ Response(t) \/ ToolStep(t)
      PROVE  [Next]_vars
  <2>1. CASE RequestStep(t)
    BY <2>1 DEF RequestStep, Send, FailFast, SendAgain, Next
  <2>2. CASE Response(t)
    BY <2>2 DEF Response, Generated, Ask, Embedded, Final, Misread, BackOff, GiveUp,
       Next, Answered
  <2>3. CASE Begin(t) \/ ToolStep(t)
    BY <2>3 DEF Begin, ToolStep, Answer, Search, SelectFails, Trip, FollowUp
  <2> QED
    BY <1>1, <2>1, <2>2, <2>3
<1>2. CASE TimePasses
  BY <1>2 DEF TimePasses, Next
<1>3. CASE UNCHANGED allVars
  BY <1>3 DEF allVars
<1> QED
  BY <1>1, <1>2, <1>3 DEF TurnNext

(* The turns implement the executor: whatever it guarantees its callers it
   guarantees turns that share it for chat and embedding requests. *)
THEOREM TurnsRefineExecutor == TurnSpec => Spec
<1>1. TurnInit => Init
  BY DEF TurnInit
<1> QED
  BY <1>1, StepsRefine, PTL DEF TurnSpec, Spec

(* The breaker the turns share shields the provider while it cools down,
   whatever the turns do. *)
COROLLARY TurnsShield == TurnSpec => CoolingShields
BY TurnsRefineExecutor, CooldownShields

-----------------------------------------------------------------------------
Over(t) == stage[t] = "idle"

(* What a turn in progress holds, stage by stage. *)
InOrder(t) ==
  /\ t \in Busy => stage[t] \in Calling
  /\ ~ Over(t) => reply[t] = None /\ lost[t] = {} /\ misshapen[t] = FALSE
  /\ stage[t] \in {"generate", "ask"} => requested[t] = <<>> /\ results[t] = <<>>
  /\ stage[t] \in {"tools", "embed", "final"} =>
       /\ Len(results[t]) <= Len(requested[t])
       /\ \A i \in 1 .. Len(results[t]) : Answers(requested[t][i], results[t][i])
  /\ stage[t] = "embed" => Len(results[t]) < Len(requested[t]) /\ Due(t) = "search"
  /\ stage[t] = "final" => Len(results[t]) = Len(requested[t])

GroundedIn(t) ==
  reply[t] \in {"text", "placeholder", "blank"} =>
    /\ lost[t] = {} /\ ~ misshapen[t]
    /\ Len(results[t]) = Len(requested[t])
    /\ \A i \in DOMAIN requested[t] : Answers(requested[t][i], results[t][i])

ToldIn(t) ==
  /\ reply[t] = "error" => \/ lost[t] \cap {"embed", "select"} # {} \/ misshapen[t]
                           \/ \E i \in DOMAIN requested[t] : requested[t][i] = "nullArguments"
  /\ reply[t] = "apology" => lost[t] \cap Chatting # {} \/ misshapen[t]
  /\ lost[t] = {} \/ \E s \in Losses : lost[t] = {s}

TurnOK(t) == InOrder(t) /\ GroundedIn(t) /\ ToldIn(t)

TurnInv == TurnTypeOK /\ \A t \in Callers : TurnOK(t)

Fields(t) == <<stage[t], requested[t], results[t], reply[t], lost[t], misshapen[t], pc[t]>>

(* A turn that a step leaves alone stays as it was. *)
LEMMA Untouched ==
  ASSUME NEW t \in Callers, TurnOK(t), Fields(t)' = Fields(t)
  PROVE  TurnOK(t)'
<1>1. (t \in Busy)' <=> t \in Busy
  BY DEF Fields, Busy
<1> QED
  BY <1>1 DEF Fields, TurnOK, InOrder, GroundedIn, ToldIn, Over, Answers, Due
TurnStep(t) == Begin(t) \/ RequestStep(t) \/ Response(t) \/ ToolStep(t)

TurnFields == /\ stage \in [Callers -> Stages]
              /\ requested \in [Callers -> Requests \cup {<<>>}]
              /\ results \in [Callers -> Seq(Results)]
              /\ reply \in [Callers -> Replies \cup {None}]
              /\ lost \in [Callers -> SUBSET Losses]
              /\ misshapen \in [Callers -> BOOLEAN]
              /\ requests \in [Callers -> Nat]

(* The executor's part of a turn's step changes no other caller. *)
LEMMA CallerStep ==
  ASSUME TypeOK, NEW t \in Callers, NEW u \in Callers \ {t},
         Admit(t) \/ Reject(t) \/ Succeed(t) \/ FailAndBackOff(t) \/ FailCall(t) \/ Retry(t)
  PROVE  pc'[u] = pc[u] /\ attempt'[u] = attempt[u]
BY DEF TypeOK, Admit, Reject, Succeed, FailAndBackOff, FailCall, Retry, Leave

LEMMA Others ==
  ASSUME TurnTypeOK, NEW t \in Callers, NEW u \in Callers \ {t}, TurnStep(t)
  PROVE  Fields(u)' = Fields(u) /\ requests'[u] = requests[u] /\ attempt'[u] = attempt[u]
<1> USE DEF TurnTypeOK, Fields
<1>1. CASE Begin(t)
  BY <1>1 DEF Begin, vars
<1>2. CASE RequestStep(t)
  BY <1>2, CallerStep DEF RequestStep, Send, FailFast, SendAgain, GivenUp, Count, End
<1>3. CASE Response(t)
  <2>1. pc'[u] = pc[u] /\ attempt'[u] = attempt[u]
    BY <1>3, CallerStep DEF Response, Generated, Ask, Embedded, Final, Misread, BackOff, GiveUp
  <2>2. CASE Generated(t) \/ Ask(t) \/ Final(t)
    BY <2>1, <2>2 DEF Generated, Ask, Final, End, Continue
  <2>3. CASE Embedded(t) \/ Misread(t)
    BY <2>1, <2>3 DEF Embedded, Misread, End, Continue, Record
  <2>4. CASE BackOff(t) \/ GiveUp(t)
    BY <2>1, <2>4 DEF BackOff, GiveUp, GivenUp, End, turnVars
  <2> QED
    BY <1>3, <2>2, <2>3, <2>4 DEF Response
<1>4. CASE ToolStep(t)
  BY <1>4 DEF ToolStep, Answer, Search, SelectFails, Trip, FollowUp, End, Continue, Record, vars
<1> QED
  BY <1>1, <1>2, <1>3, <1>4 DEF TurnStep
LEMMA Shapes ==
  ASSUME TurnTypeOK, NEW t \in Callers
  PROVE  /\ requested[t] \in Seq(Calls) /\ results[t] \in Seq(Results)
         /\ Len(requested[t]) \in Nat /\ Len(results[t]) \in Nat
         /\ stage[t] \in Stages /\ reply[t] \in Replies \cup {None}
         /\ lost[t] \in SUBSET Losses /\ requests[t] \in Nat
<1>1. Requests \subseteq Seq(Calls) /\ <<>> \in Seq(Calls)
  OBVIOUS
<1>2. requested[t] \in Seq(Calls)
  BY <1>1 DEF TurnTypeOK
<1>3. results[t] \in Seq(Results)
  BY DEF TurnTypeOK
<1> QED
  BY <1>2, <1>3 DEF TurnTypeOK

LEMMA Ends ==
  ASSUME TurnTypeOK, NEW t \in Callers, NEW b \in BOOLEAN,
         End(t, IF b THEN "error" ELSE "apology")
  PROVE  stage' \in [Callers -> Stages] /\ reply' \in [Callers -> Replies \cup {None}]
<1>1. "idle" \in Stages /\ (IF b THEN "error" ELSE "apology") \in Replies
  BY DEF Stages, Replies
<1> QED
  BY <1>1 DEF End, TurnTypeOK

LEMMA Records ==
  ASSUME TurnTypeOK, NEW t \in Callers, NEW r \in Results, Record(t, r)
  PROVE  results' \in [Callers -> Seq(Results)]
<1>1. results[t] \in Seq(Results)
  BY Shapes
<1>2. Append(results[t], r) \in Seq(Results)
  BY <1>1
<1> QED
  BY <1>2 DEF Record, TurnTypeOK

LEMMA GivenUpTypes ==
  ASSUME TurnTypeOK, NEW t \in Callers, stage[t] \in Calling, GivenUp(t)
  PROVE  TurnFields'
<1>1. lost' \in [Callers -> SUBSET Losses]
  BY DEF GivenUp, TurnTypeOK, Losses
<1>2. stage' \in [Callers -> Stages] /\ reply' \in [Callers -> Replies \cup {None}]
  BY Ends, (stage[t] = "embed") \in BOOLEAN DEF GivenUp
<1> QED
  BY <1>1, <1>2 DEF GivenUp, TurnTypeOK, TurnFields

(* Every variable of the turns keeps its type. *)
LEMMA FieldsStep ==
  ASSUME TurnTypeOK, NEW t \in Callers, InOrder(t), TurnStep(t)
  PROVE  TurnFields'
<1> USE DEF TurnTypeOK, TurnFields
<1>0. {"idle", "tools"} \cup Calling \cup {"ask", "generate", "embed", "final"} \subseteq Stages
      /\ {"text", "placeholder", "blank", "apology", "error"} \subseteq Replies
  BY DEF Stages, Calling, Chatting, Replies
<1>1. CASE Begin(t)
  BY <1>0, <1>1 DEF Begin
<1>2. CASE RequestStep(t)
  <2>1. CASE Send(t) \/ SendAgain(t)
    <3>1. Count(t) /\ UNCHANGED <<stage, requested, results, reply, lost, misshapen>>
      BY <2>1 DEF Send, SendAgain
    <3> QED
      BY <3>1 DEF Count
  <2>2. CASE FailFast(t)
    <3>1. stage[t] \in Calling /\ GivenUp(t)
      BY <2>2 DEF FailFast
    <3> QED
      BY <3>1, GivenUpTypes
  <2> QED
    BY <1>2, <2>1, <2>2 DEF RequestStep
<1>3. CASE Response(t)
  <2>1. CASE Generated(t) \/ Final(t)
    <3>1. PICK r \in {"text", "placeholder", "blank"} : End(t, r)
      BY <2>1 DEF Generated, Final
    <3> QED
      BY <1>0, <2>1, <3>1 DEF Generated, Final, End
  <2>6. CASE Ask(t)
    <3>1. CASE \E r \in {"text", "placeholder"} : End(t, r) /\ UNCHANGED requested
      BY <1>0, <2>6, <3>1 DEF Ask, End
    <3>2. CASE (\E c \in Requests : requested' = [requested EXCEPT ![t] = c]) /\ Continue(t, "tools")
      BY <1>0, <2>6, <3>2 DEF Ask, Continue
    <3> QED
      BY <2>6, <3>1, <3>2 DEF Ask
  <2>2. CASE Embedded(t)
    <3>1. results' \in [Callers -> Seq(Results)]
      BY <2>2, Records DEF Embedded, Results
    <3> QED
      BY <1>0, <2>2, <3>1 DEF Embedded, Continue
  <2>3. CASE Misread(t)
    BY <2>3, Ends DEF Misread
  <2>4. CASE BackOff(t)
    BY <2>4 DEF BackOff, turnVars
  <2>5. CASE GiveUp(t)
    <3>1. stage[t] \in Calling
      BY <2>5 DEF GiveUp, FailCall, Busy, InOrder
    <3> QED
      BY <2>5, <3>1, GivenUpTypes DEF GiveUp
  <2> QED
    BY <1>3, <2>1, <2>2, <2>3, <2>4, <2>5, <2>6 DEF Response
<1>4. CASE ToolStep(t)
  <2>1. CASE Answer(t)
    <3>1. PICK r \in Results : Record(t, r)
      BY <2>1 DEF Answer, Results
    <3> QED
      BY <2>1, <3>1, Records DEF Answer
  <2>2. CASE Search(t) \/ FollowUp(t) \/ Trip(t)
    BY <1>0, <2>2 DEF Search, SelectFails, Trip, FollowUp, End, Continue
  <2>3. CASE SelectFails(t)
    <3>1. lost' \in [Callers -> SUBSET Losses]
      BY <2>3 DEF SelectFails, Losses
    <3> QED
      BY <1>0, <2>3, <3>1, Ends DEF SelectFails
  <2> QED
    BY <1>4, <2>1, <2>2, <2>3 DEF ToolStep
<1> QED
  BY <1>1, <1>2, <1>3, <1>4 DEF TurnStep
-----------------------------------------------------------------------------
LEMMA BusyAfter ==
  ASSUME TypeOK, NEW t \in Callers
  PROVE  /\ Succeed(t) \/ FailCall(t) \/ FailAndBackOff(t) \/ Retry(t) => t \in Busy
         /\ Succeed(t) \/ FailCall(t) \/ Reject(t) => t \notin Busy'
         /\ (UNCHANGED vars => Busy' = Busy)
BY DEF TypeOK, Succeed, FailCall, FailAndBackOff, Retry, Reject, Leave, Busy, vars

(* A turn that ends is in order. *)
LEMMA EndInOrder ==
  ASSUME TurnTypeOK, NEW t \in Callers, stage'[t] = "idle", t \notin Busy'
  PROVE  InOrder(t)'
BY DEF InOrder, Over

(* The request of a turn is given up: what it ends with is told. *)
LEMMA GivenUpOK ==
  ASSUME TurnTypeOK, NEW t \in Callers, TurnOK(t), stage[t] \in Calling,
         GivenUp(t), t \notin Busy'
  PROVE  TurnOK(t)'
<1> DEFINE answer == IF stage[t] = "embed" THEN "error" ELSE "apology"
<1>1. stage'[t] = "idle" /\ reply'[t] = answer
  BY DEF GivenUp, End, TurnTypeOK
<1>2. lost'[t] = {stage[t]}
  BY DEF GivenUp, TurnTypeOK, TurnOK, InOrder, Over, Calling, Chatting
<1>3. InOrder(t)'
  BY <1>1, EndInOrder
<1>4. GroundedIn(t)'
  BY <1>1 DEF GroundedIn
<1>5. ToldIn(t)'
  <2>1. lost'[t] = {} \/ \E s \in Losses : lost'[t] = {s}
    BY <1>2 DEF Losses
  <2>2. answer = "error" => lost'[t] \cap {"embed", "select"} # {}
    BY <1>2
  <2>3. answer = "apology" => lost'[t] \cap Chatting # {}
    BY <1>2 DEF Calling
  <2>4. answer \in {"error", "apology"}
    OBVIOUS
  <2> HIDE DEF answer
  <2> QED
    BY <1>1, <2>1, <2>2, <2>3, <2>4 DEF ToldIn
<1> QED
  BY <1>3, <1>4, <1>5 DEF TurnOK

LEMMA RequestStepOK ==
  ASSUME TurnTypeOK, NEW t \in Callers, TurnOK(t), RequestStep(t)
  PROVE  TurnOK(t)'
<1> USE DEF TurnTypeOK
<1>1. CASE FailFast(t)
  BY <1>1, BusyAfter, GivenUpOK DEF FailFast
<1>2. CASE Send(t) \/ SendAgain(t)
  <2>1. UNCHANGED <<stage, requested, results, reply, lost, misshapen>> /\ stage[t] \in Calling
    BY <1>2, BusyAfter DEF Send, SendAgain, TurnOK, InOrder
  <2> QED
    BY <2>1 DEF TurnOK, InOrder, GroundedIn, ToldIn, Over, Answers, Due
<1> QED
  BY <1>1, <1>2 DEF RequestStep

LEMMA BeginOK ==
  ASSUME TurnTypeOK, NEW t \in Callers, TurnOK(t), Begin(t)
  PROVE  TurnOK(t)'
<1>1. /\ stage'[t] \in {"ask", "generate"} /\ requested'[t] = <<>> /\ results'[t] = <<>>
      /\ reply'[t] = None /\ lost'[t] = {} /\ misshapen'[t] = FALSE
  BY DEF Begin, TurnTypeOK
<1>2. t \notin Busy'
  BY BusyAfter DEF Begin, TurnTypeOK, TurnOK, InOrder, Calling, Chatting
<1>3. InOrder(t)'
  BY <1>1, <1>2 DEF InOrder, Over
<1>4. None \notin {"text", "placeholder", "blank", "error", "apology"}
  BY DEF Replies
<1> QED
  BY <1>1, <1>3, <1>4 DEF TurnOK, GroundedIn, ToldIn
(* A reply in the model's words ends a turn whose calls have their results. *)
LEMMA WordsOK ==
  ASSUME TurnTypeOK, NEW t \in Callers, TurnOK(t), t \notin Busy', ~ Over(t),
         NEW r \in {"text", "placeholder", "blank"}, End(t, r),
         UNCHANGED <<requested, results, lost, misshapen>>,
         Len(results[t]) = Len(requested[t]),
         \A i \in 1 .. Len(requested[t]) : Answers(requested[t][i], results[t][i])
  PROVE  TurnOK(t)'
<1>1. stage'[t] = "idle" /\ reply'[t] = r
  BY DEF End, TurnTypeOK
<1>2. lost[t] = {} /\ misshapen[t] = FALSE
  BY DEF TurnOK, InOrder
<1>3. DOMAIN requested[t] = 1 .. Len(requested[t])
  BY Shapes
<1>4. InOrder(t)'
  BY <1>1, EndInOrder
<1>5. GroundedIn(t)'
  BY <1>2, <1>3 DEF GroundedIn, Answers
<1>6. ToldIn(t)'
  BY <1>1, <1>2 DEF ToldIn
<1> QED
  BY <1>4, <1>5, <1>6 DEF TurnOK

LEMMA MisreadOK ==
  ASSUME TurnTypeOK, NEW t \in Callers, TurnOK(t), Misread(t)
  PROVE  TurnOK(t)'
<1>1. stage'[t] = "idle" /\ reply'[t] \in {"error", "apology"} /\ misshapen'[t] = TRUE
  BY DEF Misread, End, TurnTypeOK
<1>2. lost' = lost
  BY DEF Misread
<1>3. InOrder(t)'
  BY <1>1, EndInOrder, BusyAfter DEF Misread, TurnTypeOK
<1> QED
  BY <1>1, <1>2, <1>3 DEF TurnOK, GroundedIn, ToldIn

(* A result for the call that was due. *)
LEMMA Recorded ==
  ASSUME TurnTypeOK, NEW t \in Callers, TurnOK(t),
         stage[t] \in {"tools", "embed"}, Len(results[t]) < Len(requested[t]),
         NEW r \in Results, Record(t, r), Answers(Due(t), r), requested' = requested
  PROVE  /\ Len(results'[t]) = Len(results[t]) + 1
         /\ Len(results'[t]) <= Len(requested'[t])
         /\ \A i \in 1 .. Len(results'[t]) : Answers(requested'[t][i], results'[t][i])
<1>1. results'[t] = Append(results[t], r) /\ results[t] \in Seq(Results)
  BY Shapes DEF Record, TurnTypeOK
<1>2. Len(results'[t]) = Len(results[t]) + 1
  BY <1>1
<1>3. ASSUME NEW i \in 1 .. Len(results'[t])
      PROVE  Answers(requested[t][i], results'[t][i])
  <2>1. CASE i = Len(results[t]) + 1
    BY <1>1, <2>1 DEF Due
  <2>2. CASE i # Len(results[t]) + 1
    <3>1. i \in 1 .. Len(results[t])
      BY <1>1, <1>2, <2>2
    <3>2. results'[t][i] = results[t][i]
      BY <1>1, <3>1
    <3> QED
      BY <3>1, <3>2 DEF TurnOK, InOrder
  <2> QED
    BY <2>1, <2>2
<1> QED
  BY <1>2, <1>3, Shapes

LEMMA AskOK ==
  ASSUME TurnTypeOK, NEW t \in Callers, TurnOK(t), Generated(t) \/ Ask(t)
  PROVE  TurnOK(t)'
<1>0. /\ stage[t] \in {"generate", "ask"} /\ ~ Over(t) /\ requested[t] = <<>> /\ results[t] = <<>>
      /\ UNCHANGED <<results, lost, misshapen>> /\ t \notin Busy'
  BY BusyAfter DEF Generated, Ask, TurnOK, InOrder, Over, TurnTypeOK
<1>1. ASSUME NEW r \in {"text", "placeholder"}, End(t, r), UNCHANGED requested
      PROVE  TurnOK(t)'
  BY <1>0, <1>1, WordsOK
<1>2. CASE (\E c \in Requests : requested' = [requested EXCEPT ![t] = c]) /\ Continue(t, "tools")
  <2>1. /\ stage'[t] = "tools" /\ reply' = reply /\ results'[t] = <<>>
        /\ requested'[t] \in Seq(Calls)
    BY <1>0, <1>2 DEF Continue, TurnTypeOK
  <2>2. InOrder(t)'
    BY <1>0, <2>1 DEF InOrder, Over, TurnOK
  <2>3. reply[t] = None /\ None \notin {"text", "placeholder", "blank", "error", "apology"}
    BY <1>0 DEF TurnOK, InOrder, Replies
  <2> QED
    BY <1>0, <2>1, <2>2, <2>3 DEF TurnOK, GroundedIn, ToldIn
<1> QED
  BY <1>1, <1>2 DEF Generated, Ask
LEMMA ResponseOK ==
  ASSUME TurnTypeOK, NEW t \in Callers, TurnOK(t), Response(t)
  PROVE  TurnOK(t)'
<1> USE DEF TurnTypeOK
<1>0. None \notin {"text", "placeholder", "blank", "error", "apology"}
  BY DEF Replies
<1>1. CASE Generated(t) \/ Ask(t)
  BY <1>1, AskOK
<1>2. CASE Embedded(t)
  <2>1. /\ stage[t] = "embed" /\ Record(t, "excerpts") /\ requested' = requested
        /\ stage'[t] = "tools" /\ UNCHANGED <<reply, lost, misshapen>> /\ t \notin Busy'
    BY <1>2, BusyAfter DEF Embedded, Continue
  <2>2. Answers(Due(t), "excerpts") /\ Len(results[t]) < Len(requested[t]) /\ reply[t] = None
    BY <2>1 DEF TurnOK, InOrder, Answers, Over
  <2>3. /\ Len(results'[t]) <= Len(requested'[t])
        /\ \A i \in 1 .. Len(results'[t]) : Answers(requested'[t][i], results'[t][i])
    BY <2>1, <2>2, Recorded DEF Results
  <2>4. InOrder(t)'
    BY <2>1, <2>3 DEF InOrder, Over, Answers, TurnOK
  <2> QED
    BY <1>0, <2>1, <2>2, <2>4 DEF TurnOK, GroundedIn, ToldIn
<1>3. CASE Final(t)
  <2>1. PICK r \in {"text", "placeholder", "blank"} : End(t, r)
    BY <1>3 DEF Final
  <2>2. /\ stage[t] = "final" /\ UNCHANGED <<requested, results, lost, misshapen>>
        /\ t \notin Busy' /\ ~ Over(t)
    BY <1>3, BusyAfter DEF Final, Over
  <2>3. /\ Len(results[t]) = Len(requested[t])
        /\ \A i \in 1 .. Len(requested[t]) : Answers(requested[t][i], results[t][i])
    BY <2>2 DEF TurnOK, InOrder
  <2> QED
    BY <2>1, <2>2, <2>3, WordsOK
<1>4. CASE Misread(t)
  BY <1>4, MisreadOK
<1>5. CASE BackOff(t)
  <2>1. UNCHANGED turnVars /\ t \in Busy
    BY <1>5, BusyAfter DEF BackOff
  <2> QED
    BY <2>1 DEF turnVars, TurnOK, InOrder, GroundedIn, ToldIn, Over, Answers, Due
<1>6. CASE GiveUp(t)
  <2>1. t \in Busy /\ t \notin Busy' /\ GivenUp(t)
    BY <1>6, BusyAfter DEF GiveUp
  <2> QED
    BY <2>1, GivenUpOK DEF TurnOK, InOrder
<1> QED
  BY <1>1, <1>2, <1>3, <1>4, <1>5, <1>6 DEF Response

LEMMA ToolStepOK ==
  ASSUME TurnTypeOK, NEW t \in Callers, TurnOK(t), ToolStep(t)
  PROVE  TurnOK(t)'
<1> USE DEF TurnTypeOK
<1>0. None \notin {"text", "placeholder", "blank", "error", "apology"}
  BY DEF Replies
<1>1. stage[t] = "tools" /\ t \notin Busy' /\ reply[t] = None /\ lost[t] = {} /\ misshapen[t] = FALSE
  BY BusyAfter DEF ToolStep, Answer, Search, SelectFails, Trip, FollowUp, CallsLeft, TurnOK, InOrder,
     Over, Calling, Chatting
<1>2. CASE Answer(t)
  <2>1. PICK r \in Results : Record(t, r) /\ Answers(Due(t), r)
    BY <1>2 DEF Answer, Results, Answers
  <2>2. /\ Len(results[t]) < Len(requested[t]) /\ requested' = requested
        /\ UNCHANGED <<stage, reply, lost, misshapen>>
    BY <1>2 DEF Answer, CallsLeft
  <2>3. /\ Len(results'[t]) <= Len(requested'[t])
        /\ \A i \in 1 .. Len(results'[t]) : Answers(requested'[t][i], results'[t][i])
    BY <1>1, <2>1, <2>2, Recorded
  <2>4. InOrder(t)'
    BY <1>1, <2>2, <2>3 DEF InOrder, Over, Answers, TurnOK
  <2> QED
    BY <1>0, <1>1, <2>2, <2>4 DEF TurnOK, GroundedIn, ToldIn
<1>3. CASE Search(t) \/ FollowUp(t)
  <2>1. /\ stage'[t] \in {"embed", "final"}
        /\ UNCHANGED <<requested, results, reply, lost, misshapen>>
        /\ stage'[t] = "embed" => Len(results[t]) < Len(requested[t]) /\ Due(t) = "search"
        /\ stage'[t] = "final" => Len(results[t]) = Len(requested[t])
    BY <1>3 DEF Search, FollowUp, CallsLeft, Continue
  <2>2. InOrder(t)'
    BY <1>1, <2>1 DEF InOrder, Over, Answers, TurnOK, Due
  <2> QED
    BY <1>0, <1>1, <2>1, <2>2 DEF TurnOK, GroundedIn, ToldIn
<1>4. CASE Trip(t)
  <2>1. /\ stage'[t] = "idle" /\ reply'[t] = "error"
        /\ UNCHANGED <<requested, results, lost, misshapen>>
        /\ Len(results[t]) < Len(requested[t]) /\ Due(t) = "nullArguments"
    BY <1>4 DEF Trip, End, CallsLeft
  <2>2. Len(results[t]) + 1 \in DOMAIN requested[t]
    BY <2>1, Shapes
  <2>3. InOrder(t)'
    BY <1>1, <2>1, EndInOrder
  <2> QED
    BY <1>1, <2>1, <2>2, <2>3 DEF TurnOK, GroundedIn, ToldIn, Due
<1>5. CASE SelectFails(t)
  <2>1. /\ stage'[t] = "idle" /\ reply'[t] = "error" /\ lost'[t] = {"select"}
        /\ UNCHANGED <<requested, results, misshapen>>
    BY <1>1, <1>5 DEF SelectFails, End
  <2>2. InOrder(t)'
    BY <1>1, <2>1, EndInOrder
  <2>3. ToldIn(t)'
    BY <2>1 DEF ToldIn, Losses
  <2> QED
    BY <2>1, <2>2, <2>3 DEF TurnOK, GroundedIn
<1> QED
  BY <1>2, <1>3, <1>4, <1>5 DEF ToolStep

-----------------------------------------------------------------------------
LEMMA TurnInitInv == TurnInit => TurnInv
<1> SUFFICES ASSUME TurnInit PROVE TurnInv
  OBVIOUS
<1>1. TypeOK
  BY InitInv DEF TurnInit, Inv
<1>2. TurnTypeOK
  BY <1>1 DEF TurnInit, TurnTypeOK, Stages, Calling, Chatting
<1>3. None \notin {"text", "placeholder", "blank", "error", "apology"}
  BY DEF Replies
<1>4. ASSUME NEW t \in Callers PROVE TurnOK(t)
  BY <1>3 DEF TurnInit, Init, TurnOK, InOrder, GroundedIn, ToldIn, Over, Busy
<1> QED
  BY <1>2, <1>4 DEF TurnInv

LEMMA TurnStepInv == TurnInv /\ TypeOK' /\ [TurnNext]_allVars => TurnInv'
<1> SUFFICES ASSUME TurnInv, TypeOK', [TurnNext]_allVars PROVE TurnInv'
  OBVIOUS
<1> USE DEF TurnInv
<1>1. ASSUME NEW t \in Callers, TurnStep(t) PROVE TurnInv'
  <2>1. TurnTypeOK'
    BY <1>1, FieldsStep DEF TurnFields, TurnTypeOK, TurnOK
  <2>2. TurnOK(t)'
    BY <1>1, BeginOK, RequestStepOK, ResponseOK, ToolStepOK DEF TurnStep
  <2>3. ASSUME NEW u \in Callers \ {t} PROVE TurnOK(u)'
    BY <1>1, Others, Untouched
  <2> QED
    BY <2>1, <2>2, <2>3
<1>2. CASE TimePasses \/ UNCHANGED allVars
  <2>1. UNCHANGED turnVars /\ pc' = pc
    BY <1>2 DEF TimePasses, Tick, allVars, vars
  <2>2. TurnTypeOK'
    BY <2>1 DEF TurnTypeOK, turnVars
  <2>3. ASSUME NEW t \in Callers PROVE TurnOK(t)'
    BY <2>1, Untouched DEF turnVars, Fields
  <2> QED
    BY <2>2, <2>3
<1> QED
  BY <1>1, <1>2 DEF TurnNext, TurnStep

(* What a turn holds at each stage: the tool calls it asked for, a result for
   each of the first of them, and the lost request it is to tell of. *)
THEOREM TurnsInOrder == TurnSpec => []TurnInv
<1>1. TurnSpec => []TypeOK
  BY TurnsRefineExecutor, TypeCorrect, PTL
<1> QED
  BY <1>1, TurnInitInv, TurnStepInv, PTL DEF TurnSpec

(* Every variable of the turns keeps its type. *)
THEOREM TurnTypesCorrect == TurnSpec => []TurnTypeOK
BY TurnsInOrder, PTL DEF TurnInv

(* The model's own words end a turn only after a result for each call it
   asked for, in order, and over no lost request. *)
THEOREM AnswersAreGrounded == TurnSpec => []Grounded
<1>1. TurnInv => Grounded
  BY DEF TurnInv, TurnOK, GroundedIn, Grounded
<1> QED
  BY <1>1, TurnsInOrder, PTL

(* What a turn throws over, what it apologizes for, and that the first lost
   request ends it. *)
THEOREM OutagesAreTold == TurnSpec => []OutagesTold
<1>1. ASSUME TurnInv, NEW t \in Callers PROVE Cardinality(lost[t]) <= 1
  <2>1. lost[t] = {} \/ \E s \in Losses : lost[t] = {s}
    BY <1>1 DEF TurnInv, TurnOK, ToldIn
  <2>2. CASE lost[t] = {}
    BY <2>2, FS_EmptySet
  <2>3. ASSUME NEW s \in Losses, lost[t] = {s} PROVE Cardinality(lost[t]) <= 1
    <3>1. Cardinality({s}) = 1
      BY FS_Singleton
    <3> QED
      BY <2>3, <3>1
  <2> QED
    BY <2>1, <2>2, <2>3
<1>2. TurnInv => OutagesTold
  BY <1>1 DEF TurnInv, TurnOK, ToldIn, OutagesTold
<1> QED
  BY <1>2, TurnsInOrder, PTL

-----------------------------------------------------------------------------
(* How many requests: the rounds of requests a turn has behind it, each of
   MaxAttempts at the most, and those of the request it is in. *)
Done(t) == {i \in Searches(t) : i <= Len(results[t])}
Rounds(t) == IF stage[t] \in {"generate", "ask"} THEN 0 ELSE 1 + Cardinality(Done(t))
Most(t) == 2 + Cardinality(Searches(t))

Current(t) == IF pc[t] = "sent" THEN attempt[t] + 1 ELSE attempt[t]

CountOK(t) ==
  /\ t \notin Busy => attempt[t] = 0
  /\ ~ Over(t) => requests[t] <= MaxAttempts * Rounds(t) + Current(t)
  /\ requests[t] <= MaxAttempts * Most(t)

CountInv == \A t \in Callers : CountOK(t)

LEMMA Monotone ==
  ASSUME NEW a \in Nat, NEW b \in Nat, a <= b
  PROVE  /\ MaxAttempts * a <= MaxAttempts * b
         /\ MaxAttempts * a \in Nat
         /\ MaxAttempts * (a + 1) = MaxAttempts * a + MaxAttempts
OBVIOUS

SizesOK(t) ==
  /\ IsFiniteSet(Searches(t)) /\ Cardinality(Searches(t)) \in Nat
  /\ IsFiniteSet(Done(t)) /\ Cardinality(Done(t)) \in Nat
  /\ Rounds(t) \in Nat /\ Most(t) \in Nat
  /\ Rounds(t) + 1 <= Most(t)

LEMMA Sizes == TurnTypeOK => \A t \in Callers : SizesOK(t)
<1> SUFFICES ASSUME TurnTypeOK, NEW t \in Callers PROVE SizesOK(t)
  OBVIOUS
<1>1. Searches(t) \subseteq 1 .. Len(requested[t]) /\ Len(requested[t]) \in Nat
  BY Shapes DEF Searches
<1>2. IsFiniteSet(1 .. Len(requested[t]))
  BY <1>1, 1 \in Int, FS_Interval
<1>3. IsFiniteSet(Searches(t))
  BY <1>1, <1>2, FS_Subset
<1>4. Done(t) \subseteq Searches(t)
  BY DEF Done
<1>5. IsFiniteSet(Done(t)) /\ Cardinality(Done(t)) <= Cardinality(Searches(t))
  BY <1>3, <1>4, FS_Subset
<1>6. Cardinality(Searches(t)) \in Nat /\ Cardinality(Done(t)) \in Nat
  BY <1>3, <1>5, FS_CardinalityType
<1> QED
  BY <1>3, <1>5, <1>6 DEF Rounds, Most, SizesOK

AllSizesOK == \A t \in Callers : SizesOK(t)

LEMMA SizesNext == TurnTypeOK' => AllSizesOK'
<1>1. TurnTypeOK => AllSizesOK
  BY Sizes DEF AllSizesOK
<1> QED
  BY <1>1, PTL

LEMMA CountUntouched ==
  ASSUME NEW t \in Callers, CountOK(t), Fields(t)' = Fields(t),
         requests'[t] = requests[t], attempt'[t] = attempt[t]
  PROVE  CountOK(t)'
<1>1. /\ stage'[t] = stage[t] /\ requested'[t] = requested[t] /\ results'[t] = results[t]
      /\ pc'[t] = pc[t] /\ ((t \in Busy)' <=> t \in Busy)
  BY DEF Fields, Busy
<1>2. Rounds(t)' = Rounds(t) /\ Most(t)' = Most(t)
  BY <1>1 DEF Rounds, Most, Done, Searches
<1> QED
  BY <1>1, <1>2 DEF CountOK, Over, Current

(* A turn that ends has its requests behind it. *)
LEMMA CountEnds ==
  ASSUME NEW t \in Callers, CountOK(t), stage'[t] = "idle", requests'[t] = requests[t],
         requested'[t] = requested[t], attempt'[t] = 0
  PROVE  CountOK(t)'
<1>1. Most(t)' = Most(t)
  BY DEF Most, Searches
<1> QED
  BY <1>1 DEF CountOK, Over

(* What the executor does to the attempts of a turn. *)
LEMMA Attempts ==
  ASSUME TypeOK, NEW t \in Callers, t \notin Busy => attempt[t] = 0
  PROVE  /\ attempt[t] \in Nat /\ attempt[t] + 1 <= MaxAttempts
         /\ Succeed(t) \/ FailCall(t) => pc[t] = "sent" /\ pc'[t] = "idle" /\ attempt'[t] = 0
         /\ Reject(t) => pc'[t] = "rejected" /\ attempt'[t] = 0
         /\ Admit(t) => attempt[t] = 0 /\ attempt'[t] = 0 /\ pc'[t] = "sent"
         /\ Retry(t) => pc[t] = "backoff" /\ pc'[t] = "sent" /\ attempt'[t] = attempt[t]
         /\ FailAndBackOff(t) =>
              pc[t] = "sent" /\ pc'[t] = "backoff" /\ attempt'[t] = attempt[t] + 1
BY DEF TypeOK, Succeed, FailCall, Reject, Admit, Retry, FailAndBackOff, Leave, Busy

(* Done is what the stage and the sequences make it. *)
LEMMA RoundsKept ==
  ASSUME NEW t \in Callers, stage' = stage, requested' = requested, results' = results
  PROVE  Rounds(t)' = Rounds(t) /\ Most(t)' = Most(t)
BY DEF Rounds, Most, Done, Searches

LEMMA RequestCount ==
  ASSUME TurnTypeOK, NEW t \in Callers, TurnOK(t), CountOK(t), RequestStep(t)
  PROVE  CountOK(t)'
<1> USE DEF TurnTypeOK
<1>0. t \notin Busy => attempt[t] = 0
  BY DEF CountOK
<1>1. CASE FailFast(t)
  BY <1>0, <1>1, Attempts, CountEnds DEF FailFast, GivenUp, End
<1>2. CASE Send(t) \/ SendAgain(t)
  <2>1. /\ UNCHANGED <<stage, requested, results>> /\ requests'[t] = requests[t] + 1
        /\ requests[t] \in Nat
    BY <1>2 DEF Send, SendAgain, Count
  <2>2. Current(t)' = Current(t) + 1 /\ Current(t) \in Nat /\ Current(t) + 1 <= MaxAttempts
        /\ t \in Busy'
    <3>1. pc'[t] = "sent" /\ attempt'[t] = attempt[t] /\ pc[t] # "sent"
      BY <1>0, <1>2, Attempts DEF Send, SendAgain, Admit, Busy
    <3>2. attempt[t] \in Nat /\ attempt[t] + 1 <= MaxAttempts
      BY <1>0, Attempts
    <3> QED
      BY <3>1, <3>2 DEF Current, Busy
  <2>3. ~ Over(t)
    BY <1>2, BusyAfter DEF Send, SendAgain, Over, Calling, Chatting, TurnOK, InOrder
  <2>4. requests[t] <= MaxAttempts * Rounds(t) + Current(t)
    BY <2>3 DEF CountOK
  <2>5. Rounds(t)' = Rounds(t) /\ Most(t)' = Most(t) /\ Over(t)' = Over(t)
    BY <2>1, RoundsKept DEF Over
  <2>6. Rounds(t) \in Nat /\ Most(t) \in Nat /\ Rounds(t) + 1 <= Most(t)
    BY Sizes DEF SizesOK
  <2>7. MaxAttempts * Rounds(t) + MaxAttempts <= MaxAttempts * Most(t)
    <3>1. MaxAttempts * (Rounds(t) + 1) <= MaxAttempts * Most(t)
      BY <2>6, Rounds(t) + 1 \in Nat, Monotone
    <3>2. MaxAttempts * (Rounds(t) + 1) = MaxAttempts * Rounds(t) + MaxAttempts
      BY <2>6, Monotone
    <3> QED
      BY <3>1, <3>2
  <2>8. MaxAttempts * Rounds(t) \in Nat /\ MaxAttempts * Most(t) \in Nat
    BY <2>6, Monotone
  <2> HIDE DEF TurnTypeOK
  <2>9. requests'[t] <= MaxAttempts * Rounds(t) + Current(t)'
        /\ requests'[t] <= MaxAttempts * Most(t)
    BY <2>1, <2>2, <2>4, <2>7, <2>8
  <2> QED
    BY <2>2, <2>5, <2>9 DEF CountOK
<1> QED
  BY <1>1, <1>2 DEF RequestStep

LEMMA BeginCount ==
  ASSUME TurnTypeOK, TurnTypeOK', NEW t \in Callers, TurnOK(t), CountOK(t), Begin(t)
  PROVE  CountOK(t)'
<1>1. /\ stage'[t] \in {"ask", "generate"} /\ requests'[t] = 0
      /\ pc' = pc /\ attempt' = attempt /\ stage[t] = "idle"
  BY DEF Begin, TurnTypeOK, vars
<1>2. t \notin Busy
  BY <1>1 DEF TurnOK, InOrder, Calling, Chatting
<1>3. attempt'[t] = 0
  BY <1>1, <1>2 DEF CountOK
<1>4. Rounds(t)' = 0 /\ Current(t)' = 0
  BY <1>1, <1>2, <1>3 DEF Rounds, Current, Busy
<1>5. SizesOK(t)'
  BY SizesNext DEF AllSizesOK
<1>6. MaxAttempts * Most(t)' \in Nat
  BY <1>5, Monotone DEF SizesOK
<1> QED
  BY <1>1, <1>3, <1>4, <1>6 DEF CountOK

(* A request that succeeds takes the turn on by a round. *)
LEMMA RoundCount ==
  ASSUME TurnTypeOK, TurnTypeOK', NEW t \in Callers, CountOK(t), ~ Over(t),
         Succeed(t), requests' = requests, Rounds(t)' >= Rounds(t) + 1
  PROVE  CountOK(t)'
<1>1. pc[t] = "sent" /\ pc'[t] = "idle" /\ attempt'[t] = 0
      /\ attempt[t] + 1 <= MaxAttempts /\ attempt[t] \in Nat
  BY Attempts DEF CountOK, TurnTypeOK
<1>2. Current(t) <= MaxAttempts /\ Current(t)' = 0 /\ Current(t) \in Nat
  BY <1>1 DEF Current
<1>3. /\ Rounds(t) \in Nat /\ Rounds(t)' \in Nat /\ Most(t)' \in Nat /\ Rounds(t)' <= Most(t)'
      /\ requests[t] \in Nat
  BY Sizes, SizesNext DEF AllSizesOK, SizesOK, TurnTypeOK
<1>4. /\ MaxAttempts * (Rounds(t) + 1) = MaxAttempts * Rounds(t) + MaxAttempts
      /\ MaxAttempts * (Rounds(t) + 1) <= MaxAttempts * Rounds(t)'
      /\ MaxAttempts * Rounds(t)' <= MaxAttempts * Most(t)'
  <2>1. MaxAttempts * (Rounds(t) + 1) = MaxAttempts * Rounds(t) + MaxAttempts
    BY <1>3, Monotone
  <2>2. MaxAttempts * (Rounds(t) + 1) <= MaxAttempts * Rounds(t)'
    BY <1>3, Rounds(t) + 1 \in Nat, Monotone
  <2>3. MaxAttempts * Rounds(t)' <= MaxAttempts * Most(t)'
    BY <1>3, Monotone
  <2> QED
    BY <2>1, <2>2, <2>3
<1>5. MaxAttempts * Rounds(t) \in Nat /\ MaxAttempts * Rounds(t)' \in Nat
      /\ MaxAttempts * Most(t)' \in Nat
  BY <1>3, Monotone
<1>6. requests[t] <= MaxAttempts * Rounds(t) + Current(t)
  BY DEF CountOK
<1>7. requests[t] <= MaxAttempts * Rounds(t)' /\ requests[t] <= MaxAttempts * Most(t)'
  BY <1>2, <1>3, <1>4, <1>5, <1>6
<1> QED
  BY <1>1, <1>2, <1>5, <1>7, <1>3 DEF CountOK

LEMMA EmbeddedRounds ==
  ASSUME TurnTypeOK, TurnTypeOK', NEW t \in Callers, TurnOK(t), Embedded(t)
  PROVE  Rounds(t)' >= Rounds(t) + 1
<1> DEFINE due == Len(results[t]) + 1
<1>1. /\ stage[t] = "embed" /\ stage'[t] = "tools" /\ requested' = requested
      /\ Record(t, "excerpts")
  BY DEF Embedded, Continue, TurnTypeOK
<1>2. Len(results[t]) < Len(requested[t]) /\ Due(t) = "search"
  BY <1>1 DEF TurnOK, InOrder
<1>3. Len(results'[t]) = due
  BY <1>1, <1>2, Recorded DEF Answers, Results
<1>4. due \in Searches(t) /\ due \notin Done(t) /\ Len(results[t]) \in Nat
  BY <1>2, Shapes DEF Due, Searches, Done
<1>5. Searches(t)' = Searches(t)
  BY <1>1 DEF Searches
<1>6. Done(t) \cup {due} \subseteq Done(t)'
  <2>1. ASSUME NEW i \in Done(t) PROVE i \in Done(t)'
    <3>1. i \in Searches(t) /\ i <= Len(results[t]) /\ i \in Nat
      BY Shapes DEF Done, Searches
    <3> QED
      BY <1>3, <1>4, <1>5, <3>1 DEF Done
  <2>2. due \in Done(t)'
    BY <1>3, <1>4, <1>5 DEF Done
  <2> QED
    BY <2>1, <2>2
<1>7. /\ IsFiniteSet(Done(t)) /\ IsFiniteSet(Done(t)') /\ Cardinality(Done(t)) \in Nat
      /\ Cardinality(Done(t)') \in Nat
  BY Sizes, SizesNext DEF AllSizesOK, SizesOK
<1>8. Cardinality(Done(t) \cup {due}) = Cardinality(Done(t)) + 1
  BY <1>4, <1>7, FS_AddElement
<1>9. Cardinality(Done(t) \cup {due}) <= Cardinality(Done(t)')
  BY <1>6, <1>7, FS_Subset
<1>10. Rounds(t) = 1 + Cardinality(Done(t)) /\ Rounds(t)' = 1 + Cardinality(Done(t)')
  BY <1>1 DEF Rounds
<1> QED
  BY <1>7, <1>8, <1>9, <1>10

LEMMA ResponseCount ==
  ASSUME TurnTypeOK, TurnTypeOK', NEW t \in Callers, TurnOK(t), CountOK(t), Response(t)
  PROVE  CountOK(t)'
<1> USE DEF TurnTypeOK
<1>0. t \notin Busy => attempt[t] = 0
  BY DEF CountOK
<1>1. CASE Generated(t) \/ Final(t) \/ Misread(t) \/ GiveUp(t)
  BY <1>0, <1>1, Attempts, CountEnds DEF Generated, Final, Misread, GiveUp, GivenUp, End
<1>2. CASE Ask(t) /\ stage'[t] = "idle"
  <2>1. requested' = requested /\ requests' = requests /\ Succeed(t)
    BY <1>2 DEF Ask, Continue
  <2> QED
    BY <1>0, <1>2, <2>1, Attempts, CountEnds
<1>3. CASE Ask(t) /\ stage'[t] # "idle"
  <2>1. stage[t] = "ask" /\ stage'[t] = "tools" /\ Succeed(t) /\ requests' = requests
    BY <1>3 DEF Ask, Continue, End
  <2>2. Rounds(t)' >= Rounds(t) + 1
    BY <2>1, SizesNext DEF AllSizesOK, SizesOK, Rounds
  <2> QED
    BY <2>1, <2>2, RoundCount DEF Over
<1>4. CASE Embedded(t)
  BY <1>4, EmbeddedRounds, RoundCount DEF Embedded, Over
<1>5. CASE BackOff(t)
  <2>1. /\ UNCHANGED turnVars /\ attempt'[t] = attempt[t] + 1 /\ pc[t] = "sent" /\ pc'[t] = "backoff"
    BY <1>0, <1>5, Attempts DEF BackOff
  <2>2. Current(t)' = Current(t) /\ t \in Busy'
    BY <2>1 DEF Current, Busy
  <2>3. Rounds(t)' = Rounds(t) /\ Most(t)' = Most(t) /\ (Over(t)' <=> Over(t))
    BY <2>1, RoundsKept DEF turnVars, Over
  <2> QED
    BY <2>1, <2>2, <2>3 DEF turnVars, CountOK
<1> QED
  BY <1>1, <1>2, <1>3, <1>4, <1>5 DEF Response

LEMMA AnswerRounds ==
  ASSUME TurnTypeOK, TurnTypeOK', NEW t \in Callers, TurnOK(t), Answer(t)
  PROVE  Rounds(t)' >= Rounds(t) /\ Most(t)' = Most(t)
<1>1. /\ stage[t] = "tools" /\ stage' = stage /\ requested' = requested
      /\ Len(results[t]) < Len(requested[t])
  BY DEF Answer, CallsLeft
<1>2. PICK r \in Results : Record(t, r) /\ Answers(Due(t), r)
  BY DEF Answer, Results, Answers
<1>3. Len(results'[t]) = Len(results[t]) + 1 /\ Len(results[t]) \in Nat
  BY <1>1, <1>2, Recorded, Shapes
<1>4. Searches(t)' = Searches(t)
  BY <1>1 DEF Searches
<1>5. Done(t) \subseteq Done(t)'
  <2>1. ASSUME NEW i \in Done(t) PROVE i \in Done(t)'
    <3>1. i \in Searches(t) /\ i <= Len(results[t]) /\ i \in Nat
      BY Shapes DEF Done, Searches
    <3> QED
      BY <1>3, <1>4, <3>1 DEF Done
  <2> QED
    BY <2>1
<1>6. /\ IsFiniteSet(Done(t)') /\ Cardinality(Done(t)) \in Nat
      /\ Cardinality(Done(t)') \in Nat
  BY Sizes, SizesNext DEF AllSizesOK, SizesOK
<1>7. Cardinality(Done(t)) <= Cardinality(Done(t)')
  BY <1>5, <1>6, FS_Subset
<1> QED
  BY <1>1, <1>4, <1>6, <1>7 DEF Rounds, Most

LEMMA ToolCount ==
  ASSUME TurnTypeOK, TurnTypeOK', NEW t \in Callers, TurnOK(t), CountOK(t), ToolStep(t)
  PROVE  CountOK(t)'
<1>1. /\ requests' = requests /\ pc' = pc /\ attempt' = attempt /\ stage[t] = "tools"
      /\ requested' = requested
  BY DEF ToolStep, Answer, Search, SelectFails, Trip, FollowUp, CallsLeft, vars
<1>2. t \notin Busy /\ t \notin Busy'
  BY <1>1 DEF TurnOK, InOrder, Calling, Chatting, Busy
<1>3. attempt[t] = 0 /\ Current(t) = 0 /\ Current(t)' = 0
  BY <1>1, <1>2 DEF CountOK, Current, Busy
<1>4. requests[t] <= MaxAttempts * Rounds(t) /\ requests[t] \in Nat
      /\ MaxAttempts * Rounds(t) \in Nat /\ Rounds(t) \in Nat /\ Rounds(t)' \in Nat
  <2>1. Rounds(t) \in Nat /\ Rounds(t)' \in Nat
    BY Sizes, SizesNext DEF AllSizesOK, SizesOK
  <2>2. MaxAttempts * Rounds(t) \in Nat
    BY <2>1, Monotone
  <2>3. requests[t] <= MaxAttempts * Rounds(t) + 0
    BY <1>1, <1>3 DEF CountOK, Over
  <2> QED
    BY <2>1, <2>2, <2>3 DEF TurnTypeOK
<1>5. CASE Trip(t) \/ SelectFails(t)
  BY <1>1, <1>3, <1>5, CountEnds DEF Trip, SelectFails, End, TurnTypeOK
<1>6. CASE Answer(t) \/ Search(t) \/ FollowUp(t)
  <2>1. Rounds(t)' >= Rounds(t) /\ Most(t)' = Most(t)
    <3>1. CASE Answer(t)
      BY <3>1, AnswerRounds
    <3>2. CASE Search(t) \/ FollowUp(t)
      <4>1. stage'[t] \in {"embed", "final"} /\ results' = results
        BY <3>2 DEF Search, FollowUp, Continue, TurnTypeOK
      <4> QED
        BY <1>1, <1>4, <4>1 DEF Rounds, Most, Done, Searches
    <3> QED
      BY <1>6, <3>1, <3>2
  <2>2. MaxAttempts * Rounds(t) <= MaxAttempts * Rounds(t)' /\ MaxAttempts * Rounds(t)' \in Nat
    BY <1>4, <2>1, Monotone
  <2>3. requests[t] <= MaxAttempts * Rounds(t)' + 0
    BY <1>4, <2>2
  <2> QED
    BY <1>1, <1>2, <1>3, <2>1, <2>3 DEF CountOK
<1> QED
  BY <1>5, <1>6 DEF ToolStep

LEMMA CountInit == TurnInit => CountInv
<1> SUFFICES ASSUME TurnInit, NEW t \in Callers PROVE CountOK(t)
  BY DEF CountInv
<1>1. SizesOK(t)
  BY Sizes, TurnInitInv DEF TurnInv
<1>2. MaxAttempts * Most(t) \in Nat
  BY <1>1, Monotone DEF SizesOK
<1> QED
  BY <1>2 DEF CountOK, TurnInit, Init, Over

LEMMA CountStep == TurnInv /\ TurnInv' /\ CountInv /\ [TurnNext]_allVars => CountInv'
<1> SUFFICES ASSUME TurnInv, TurnInv', CountInv, [TurnNext]_allVars PROVE CountInv'
  OBVIOUS
<1>0. TurnTypeOK /\ TurnTypeOK' /\ \A t \in Callers : TurnOK(t) /\ CountOK(t)
  BY DEF TurnInv, CountInv
<1>1. ASSUME NEW t \in Callers, TurnStep(t) PROVE CountInv'
  <2>1. CountOK(t)'
    BY <1>0, <1>1, BeginCount, RequestCount, ResponseCount, ToolCount DEF TurnStep
  <2>2. ASSUME NEW u \in Callers \ {t} PROVE CountOK(u)'
    BY <1>0, <1>1, Others, CountUntouched
  <2> QED
    BY <2>1, <2>2 DEF CountInv
<1>2. CASE TimePasses \/ UNCHANGED allVars
  <2>1. UNCHANGED turnVars /\ pc' = pc /\ attempt' = attempt
    BY <1>2 DEF TimePasses, Tick, allVars, vars
  <2>2. ASSUME NEW t \in Callers PROVE CountOK(t)'
    BY <1>0, <2>1, CountUntouched DEF turnVars, Fields
  <2> QED
    BY <2>2 DEF CountInv
<1> QED
  BY <1>1, <1>2 DEF TurnNext, TurnStep

(* Two rounds of the model and one embedding per search, MaxAttempts
   requests each: a turn never sends more, whatever the model answers. *)
THEOREM RequestsAreBounded == TurnSpec => []RequestsBounded
<1>1. TurnSpec => []CountInv
  BY TurnsInOrder, CountInit, CountStep, PTL DEF TurnSpec
<1>2. CountInv => RequestsBounded
  BY DEF CountInv, CountOK, Most, RequestsBounded
<1> QED
  BY <1>1, <1>2, PTL
==================================================================================
