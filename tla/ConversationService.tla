--------------------------- MODULE ConversationService ---------------------------
(***************************************************************************)
(* ConversationService.resolveOrCreate.  The look-up of an external        *)
(* thread's mapping, the insertion of a new conversation and the insertion *)
(* of the mapping are three database calls with awaits in between, so      *)
(* concurrent deliveries of one new thread race; the unique index on the   *)
(* mapping's (provider, channelType, externalThreadId) decides the race.   *)
(*                                                                         *)
(* A call inserts at most one conversation, under a fresh random id: the   *)
(* id is named after the call.  Mappings and conversations are never       *)
(* deleted by the program.                                                 *)
(***************************************************************************)
EXTENDS Naturals

CONSTANTS
  Threads,        \* external threads: (provider, channel type, thread id)
  Resolvers,      \* calls of resolveOrCreate
  ThreadOf,       \* [Resolvers -> Threads]
  None,
  MaxDbFailures,  \* bound: database calls that throw
  MaxCrashes      \* bound: process crashes

ASSUME ServiceAssumption ==
  /\ ThreadOf \in [Resolvers -> Threads]
  /\ None \notin Resolvers
  /\ MaxDbFailures \in Nat /\ MaxCrashes \in Nat

VARIABLES
  conversations,  \* ids of the conversations rows
  mapping,        \* the unique mapping row of each thread, or None
  pc,             \* the next database call of each resolver
  answer,         \* the conversationId each resolver returned, or None
  late,           \* history: calls that began after their thread was mapped
  failures, crashes

vars == <<conversations, mapping, pc, answer, late, failures, crashes>>
counters == <<failures, crashes>>

Waiting == {"findExisting", "insertConversation", "insertMapping", "findWinner"}
PC == {"start", "returned", "thrown"} \cup Waiting

TypeOK ==
  /\ conversations \subseteq Resolvers
  /\ mapping \in [Threads -> Resolvers \cup {None}]
  /\ pc \in [Resolvers -> PC]
  /\ answer \in [Resolvers -> Resolvers \cup {None}]
  /\ late \subseteq Resolvers
  /\ failures \in 0 .. MaxDbFailures
  /\ crashes \in 0 .. MaxCrashes

Init ==
  /\ conversations = {}
  /\ mapping = [t \in Threads |-> None]
  /\ pc = [r \in Resolvers |-> "start"]
  /\ answer = [r \in Resolvers |-> None]
  /\ late = {}
  /\ failures = 0 /\ crashes = 0

Mapped(r) == mapping[ThreadOf[r]]
Goto(r, label) == pc' = [pc EXCEPT ![r] = label]

(* Mutant of Return: the mapping row's thread id in place of its conversation. *)
ReturnThread(r, c) ==
  Goto(r, "returned") /\ answer' = [answer EXCEPT ![r] = ThreadOf[r]]

Return(r, c) == Goto(r, "returned") /\ answer' = [answer EXCEPT ![r] = c]

-----------------------------------------------------------------------------
Call(r) ==
  /\ pc[r] = "start"
  /\ Goto(r, "findExisting")
  /\ late' = IF Mapped(r) # None THEN late \cup {r} ELSE late
  /\ UNCHANGED <<conversations, mapping, answer, counters>>

(* Mutant of FindExisting: the look-up misses an existing mapping. *)
FindExistingMissed(r) ==
  /\ pc[r] = "findExisting"
  /\ Goto(r, "insertConversation")
  /\ UNCHANGED <<conversations, mapping, answer, late, counters>>

FindExisting(r) ==
  /\ pc[r] = "findExisting"
  /\ IF Mapped(r) # None
       THEN Return(r, Mapped(r))
       ELSE Goto(r, "insertConversation") /\ UNCHANGED answer
  /\ UNCHANGED <<conversations, mapping, late, counters>>

InsertConversation(r) ==
  /\ pc[r] = "insertConversation"
  /\ conversations' = conversations \cup {r}
  /\ Goto(r, "insertMapping")
  /\ UNCHANGED <<mapping, answer, late, counters>>

(* Mutant of InsertMapping: no unique index, the later row is the one found. *)
InsertMappingUnindexed(r) ==
  /\ pc[r] = "insertMapping"
  /\ mapping' = [mapping EXCEPT ![ThreadOf[r]] = r]
  /\ Return(r, r)
  /\ UNCHANGED <<conversations, late, counters>>

(* Mutant of InsertMapping: the loser returns the conversation it created. *)
InsertMappingKeepsOwn(r) ==
  /\ pc[r] = "insertMapping"
  /\ mapping' = IF Mapped(r) = None THEN [mapping EXCEPT ![ThreadOf[r]] = r] ELSE mapping
  /\ Return(r, r)
  /\ UNCHANGED <<conversations, late, counters>>

(* Mutant of InsertMapping: the unique violation is not caught. *)
InsertMappingUncaught(r) ==
  /\ pc[r] = "insertMapping"
  /\ IF Mapped(r) = None
       THEN /\ mapping' = [mapping EXCEPT ![ThreadOf[r]] = r]
            /\ Return(r, r)
       ELSE Goto(r, "thrown") /\ UNCHANGED <<mapping, answer>>
  /\ UNCHANGED <<conversations, late, counters>>

(* The index admits the first mapping of a thread; a loser looks again. *)
InsertMapping(r) ==
  /\ pc[r] = "insertMapping"
  /\ IF Mapped(r) = None
       THEN /\ mapping' = [mapping EXCEPT ![ThreadOf[r]] = r]
            /\ Return(r, r)
       ELSE Goto(r, "findWinner") /\ UNCHANGED <<mapping, answer>>
  /\ UNCHANGED <<conversations, late, counters>>

FindWinner(r) ==
  /\ pc[r] = "findWinner"
  /\ IF Mapped(r) # None
       THEN Return(r, Mapped(r))
       ELSE Goto(r, "thrown") /\ UNCHANGED answer
  /\ UNCHANGED <<conversations, mapping, late, counters>>

(* A database call throws.  The connection may be lost after the statement
   was committed: the row is there although the caller sees an error. *)
DbFailure(r) ==
  /\ failures < MaxDbFailures
  /\ failures' = failures + 1
  /\ pc[r] \in Waiting
  /\ Goto(r, "thrown")
  /\ conversations' \in
       {conversations} \cup (IF pc[r] = "insertConversation"
                             THEN {conversations \cup {r}} ELSE {})
  /\ mapping' \in
       {mapping} \cup (IF pc[r] = "insertMapping" /\ Mapped(r) = None
                       THEN {[mapping EXCEPT ![ThreadOf[r]] = r]} ELSE {})
  /\ UNCHANGED <<answer, late, crashes>>

(* The process dies and every call in progress with it. *)
Crash ==
  /\ crashes < MaxCrashes
  /\ crashes' = crashes + 1
  /\ pc' = [r \in Resolvers |-> IF pc[r] \in Waiting THEN "thrown" ELSE pc[r]]
  /\ UNCHANGED <<conversations, mapping, answer, late, failures>>

Resolve(r) == \/ Call(r) \/ FindExisting(r) \/ InsertConversation(r)
              \/ InsertMapping(r) \/ FindWinner(r)

Next == \/ \E r \in Resolvers : Resolve(r) \/ DbFailure(r)
        \/ Crash

Spec == Init /\ [][Next]_vars

-----------------------------------------------------------------------------
(* Every caller that is answered is answered with the conversation its
   thread is mapped to, and that conversation's row exists: two deliveries
   of one thread never end up in two conversations, the loser's row is an
   orphan nobody is given, and the foreign key of a mapping is sound even
   when an insertion's acknowledgement was lost. *)
AnswersAgree ==
  /\ \A r \in Resolvers : answer[r] # None => answer[r] = Mapped(r)
  /\ \A t \in Threads : mapping[t] # None => mapping[t] \in conversations

(* Losing is the price of a race only: a call that began after its thread
   was mapped never inserts a conversation, so orphans do not accumulate
   with the traffic of a known thread. *)
KnownThreadsCostNothing == late \cap conversations = {}

(* The unique violation always finds its winner: no caller throws unless a
   database call failed or the process died. *)
RaceNeverThrows ==
  (\E r \in Resolvers : pc[r] = "thrown") => failures > 0 \/ crashes > 0

-----------------------------------------------------------------------------
Mapping == INSTANCE ConversationMapping WITH Conversations <- Resolvers

(* The race, the re-read, lost acknowledgements and crashes included, the
   service implements the mapping it promises. *)
ImplementsMapping == Mapping!Spec
==================================================================================
