--------------------------- MODULE ConversationMapping ---------------------------
(***************************************************************************)
(* What ConversationService.resolveOrCreate promises, without how: an      *)
(* external thread is bound to a conversation once and for all, and every  *)
(* caller that is answered is answered with that conversation.             *)
(***************************************************************************)
CONSTANTS
  Threads,        \* external threads: (provider, channel type, thread id)
  Conversations,  \* conversation ids
  Resolvers,      \* calls of resolveOrCreate
  ThreadOf,       \* [Resolvers -> Threads]
  None

VARIABLES
  mapping,  \* [Threads -> Conversations \cup {None}]
  answer    \* [Resolvers -> Conversations \cup {None}]

Init == /\ mapping = [t \in Threads |-> None]
        /\ answer = [r \in Resolvers |-> None]

(* A thread that has no conversation gets one. *)
Bind(r) ==
  /\ mapping[ThreadOf[r]] = None
  /\ \E c \in Conversations : mapping' = [mapping EXCEPT ![ThreadOf[r]] = c]

(* A caller is told the conversation its thread has by the end of the step. *)
Answer(r) ==
  /\ answer[r] = None
  /\ mapping'[ThreadOf[r]] # None
  /\ answer' = [answer EXCEPT ![r] = mapping'[ThreadOf[r]]]

Next == \E r \in Resolvers :
          \/ Bind(r) /\ UNCHANGED answer
          \/ Bind(r) /\ Answer(r)
          \/ UNCHANGED mapping /\ Answer(r)

Spec == Init /\ [][Next]_<<mapping, answer>>
==================================================================================
