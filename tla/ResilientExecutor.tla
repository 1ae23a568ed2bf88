---------------------------- MODULE ResilientExecutor ----------------------------
(***************************************************************************)
(* ResilientExecutor.execute: a CircuitBreaker around retryWithBackoff,    *)
(* one instance per external provider, shared by all concurrent callers.   *)
(* A call is admitted by the breaker once, then sends up to MaxAttempts    *)
(* requests; the breaker learns of the call's outcome, not of each         *)
(* request's.  Between two requests other callers run.                     *)
(*                                                                         *)
(* Date.now() - openedAt >= cooldownMs is coolingLeft = 0: Tick is the     *)
(* passing of a unit of time while it still matters.                       *)
(***************************************************************************)
EXTENDS Integers, FiniteSets

CONSTANTS
  Callers,
  FailureThreshold,  \* options.failureThreshold
  Cooldown,          \* options.cooldownMs, in ticks
  MaxAttempts,       \* RetryPolicy.maxAttempts
  MaxFaults          \* bound: requests the provider fails

ASSUME ExecutorAssumption ==
  /\ FailureThreshold \in Nat \ {0}
  /\ Cooldown \in Nat \ {0}
  /\ MaxAttempts \in Nat \ {0}
  /\ MaxFaults \in Nat

VARIABLES
  state,                \* CircuitState
  consecutiveFailures,
  coolingLeft,          \* ticks until OPEN lets a call through
  pc,                   \* where each caller is
  attempt,              \* requests of its current call that have failed
  stragglers,           \* history: calls in progress when the breaker opened
  faults                \* the bound's counter

vars == <<state, consecutiveFailures, coolingLeft, pc, attempt, stragglers, faults>>

(* idle: no call; sent: a request is out; backoff: sleeping before the
   next one; rejected: the last call failed fast. *)
PC == {"idle", "rejected", "sent", "backoff"}
CallState == {"CLOSED", "OPEN", "HALF_OPEN"}

TypeOK ==
  /\ state \in CallState
  /\ consecutiveFailures \in Nat
  /\ coolingLeft \in 0 .. Cooldown
  /\ pc \in [Callers -> PC]
  /\ attempt \in [Callers -> 0 .. MaxAttempts - 1]
  /\ stragglers \subseteq Callers
  /\ faults \in 0 .. MaxFaults

Init ==
  /\ state = "CLOSED"
  /\ consecutiveFailures = 0
  /\ coolingLeft = 0
  /\ pc = [c \in Callers |-> "idle"]
  /\ attempt = [c \in Callers |-> 0]
  /\ stragglers = {}
  /\ faults = 0

Busy == {c \in Callers : pc[c] \in {"sent", "backoff"}}
Cooling == state = "OPEN" /\ coolingLeft > 0

-----------------------------------------------------------------------------
(* Mutant of Admit: the cooldown is not looked at. *)
AdmitEarly(c) ==
  /\ c \notin Busy
  /\ state' = IF state = "OPEN" THEN "HALF_OPEN" ELSE state
  /\ pc' = [pc EXCEPT ![c] = "sent"]
  /\ UNCHANGED <<consecutiveFailures, coolingLeft, attempt, stragglers, faults>>

(* The breaker lets the call through and its first request goes out: no
   await in between.  HALF_OPEN admits every caller, not one probe. *)
Admit(c) ==
  /\ c \notin Busy
  /\ ~ Cooling
  /\ state' = IF state = "OPEN" THEN "HALF_OPEN" ELSE state
  /\ pc' = [pc EXCEPT ![c] = "sent"]
  /\ UNCHANGED <<consecutiveFailures, coolingLeft, attempt, stragglers, faults>>

(* Mutant of Reject: every rejected call restarts the cooldown. *)
RejectRestarts(c) ==
  /\ c \notin Busy
  /\ Cooling
  /\ pc' = [pc EXCEPT ![c] = "rejected"]
  /\ coolingLeft' = Cooldown
  /\ UNCHANGED <<state, consecutiveFailures, attempt, stragglers, faults>>

(* CircuitBreakerOpenError: no request is sent. *)
Reject(c) ==
  /\ c \notin Busy
  /\ Cooling
  /\ pc' = [pc EXCEPT ![c] = "rejected"]
  /\ UNCHANGED <<state, consecutiveFailures, coolingLeft, attempt, stragglers, faults>>

(* The call is over, whatever its outcome. *)
Leave(c) ==
  /\ pc' = [pc EXCEPT ![c] = "idle"]
  /\ attempt' = [attempt EXCEPT ![c] = 0]

(* Mutant of OnSuccess: the failures counted so far are kept. *)
OnSuccessKeepsCount ==
  /\ state' = "CLOSED"
  /\ UNCHANGED <<consecutiveFailures, coolingLeft, stragglers>>

(* Whatever the state: a late success closes an OPEN breaker too. *)
OnSuccess ==
  /\ state' = "CLOSED"
  /\ consecutiveFailures' = 0
  /\ coolingLeft' = 0
  /\ stragglers' = {}

(* Whatever the state: a late failure restarts the cooldown. *)
OnFailure(c) ==
  /\ consecutiveFailures' = consecutiveFailures + 1
  /\ IF state = "HALF_OPEN" \/ consecutiveFailures + 1 >= FailureThreshold
       THEN /\ state' = "OPEN"
            /\ coolingLeft' = Cooldown
            /\ stragglers' = Busy \ {c}
       ELSE UNCHANGED <<state, coolingLeft, stragglers>>

Succeed(c) ==
  /\ pc[c] = "sent"
  /\ OnSuccess
  /\ Leave(c)
  /\ UNCHANGED faults

Fault == faults < MaxFaults /\ faults' = faults + 1

(* Mutant of FailAndBackOff: one request more than the policy allows. *)
FailAndBackOffOnceMore(c) ==
  /\ pc[c] = "sent"
  /\ attempt[c] + 1 <= MaxAttempts
  /\ Fault
  /\ attempt' = [attempt EXCEPT ![c] = @ + 1]
  /\ pc' = [pc EXCEPT ![c] = "backoff"]
  /\ UNCHANGED <<state, consecutiveFailures, coolingLeft, stragglers>>

(* A retryable error with attempts left: sleep, the breaker not involved. *)
FailAndBackOff(c) ==
  /\ pc[c] = "sent"
  /\ attempt[c] + 1 < MaxAttempts
  /\ Fault
  /\ attempt' = [attempt EXCEPT ![c] = @ + 1]
  /\ pc' = [pc EXCEPT ![c] = "backoff"]
  /\ UNCHANGED <<state, consecutiveFailures, coolingLeft, stragglers>>

(* The last attempt, or an error that is not retryable (a 404 too). *)
FailCall(c) ==
  /\ pc[c] = "sent"
  /\ Fault
  /\ OnFailure(c)
  /\ Leave(c)

(* The next request of a call, whatever the breaker's state by now. *)
Retry(c) ==
  /\ pc[c] = "backoff"
  /\ pc' = [pc EXCEPT ![c] = "sent"]
  /\ UNCHANGED <<state, consecutiveFailures, coolingLeft, attempt, stragglers, faults>>

Tick ==
  /\ coolingLeft > 0
  /\ coolingLeft' = coolingLeft - 1
  /\ UNCHANGED <<state, consecutiveFailures, pc, attempt, stragglers, faults>>

Answered(c) == Succeed(c) \/ FailAndBackOff(c) \/ FailCall(c)

Next == \/ \E c \in Callers : Admit(c) \/ Reject(c) \/ Answered(c) \/ Retry(c)
        \/ Tick

(* Time passes, requests are answered, sleeps end, and each caller keeps
   making calls: the bot replies to every event. *)
Fairness ==
  /\ WF_vars(Tick)
  /\ \A c \in Callers : /\ WF_vars(Admit(c))
                        /\ WF_vars(Answered(c))
                        /\ WF_vars(Retry(c))

Spec == Init /\ [][Next]_vars
FairSpec == Spec /\ Fairness

-----------------------------------------------------------------------------
(* The state and the counter never disagree, however late outcomes arrive:
   the breaker lets calls through freely exactly as long as fewer than
   FailureThreshold calls in a row have failed, and a cooldown runs only
   while it is OPEN. *)
StateMatchesCount ==
  /\ state = "CLOSED" <=> consecutiveFailures < FailureThreshold
  /\ coolingLeft > 0 => state = "OPEN"

(* While the breaker cools down the provider is sent nothing except the
   retries of calls that were in progress when it opened: at most
   MaxAttempts - 1 requests each, and no new call joins them. *)
CoolingShields ==
  [][Cooling => \A c \in Callers : pc'[c] = "sent" /\ pc[c] # "sent" => c \in stragglers]_vars

(* A provider that fails only finitely often is used again: the breaker
   does not stay open (or half-open) for ever. *)
Recovers == (state # "CLOSED") ~> (state = "CLOSED")
==================================================================================
