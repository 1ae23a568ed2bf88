----------------------- MODULE ConversationService_proofs -----------------------
(***************************************************************************)
(* Proofs about ConversationService, for any number of threads and         *)
(* concurrent calls: the answers agree with the mapping, a known thread    *)
(* creates nothing, and the service implements ConversationMapping.        *)
(***************************************************************************)
EXTENDS ConversationService, TLAPS

(* Where a call is, against what it has written and what it may rely on. *)
ProgressInv ==
  \A r \in Resolvers :
    /\ pc[r] \in {"start", "findExisting", "insertConversation"} => r \notin conversations
    /\ pc[r] = "insertMapping" => r \in conversations
    /\ pc[r] = "findWinner" => Mapped(r) # None
    /\ pc[r] # "returned" => answer[r] = None
    /\ r \in late => Mapped(r) # None /\ pc[r] \in {"findExisting", "returned", "thrown"}

Inv == TypeOK /\ ProgressInv /\ AnswersAgree /\ KnownThreadsCostNothing /\ RaceNeverThrows

LEMMA InitInv == Init => Inv
BY ServiceAssumption DEF Init, Inv, TypeOK, ProgressInv, AnswersAgree, Mapped,
   KnownThreadsCostNothing, RaceNeverThrows, PC, Waiting

-----------------------------------------------------------------------------
(* One lemma per part of the invariant; each walks the actions once. *)

LEMMA TypeStep == Inv /\ [Next]_vars => TypeOK'
<1> SUFFICES ASSUME Inv, [Next]_vars PROVE TypeOK'
  OBVIOUS
<1> USE ServiceAssumption
<1>0. TypeOK
  BY DEF Inv
<1>1. ASSUME NEW r \in Resolvers, Resolve(r) PROVE TypeOK'
  BY <1>0, <1>1 DEF TypeOK, Resolve, Call, FindExisting, InsertConversation, InsertMapping,
     FindWinner, Return, Goto, Mapped, PC, Waiting, counters
<1>2. ASSUME NEW r \in Resolvers, DbFailure(r) PROVE TypeOK'
  <2>1. mapping' \in [Threads -> Resolvers \cup {None}]
    BY <1>0, <1>2 DEF TypeOK, DbFailure
  <2>2. conversations' \subseteq Resolvers
    BY <1>0, <1>2 DEF TypeOK, DbFailure
  <2>3. failures' \in 0 .. MaxDbFailures
    BY <1>0, <1>2 DEF TypeOK, DbFailure
  <2> QED
    BY <1>0, <1>2, <2>1, <2>2, <2>3 DEF TypeOK, DbFailure, Goto, PC, Waiting
<1>3. CASE Crash
  BY <1>0, <1>3 DEF TypeOK, Crash, PC, Waiting
<1>4. CASE UNCHANGED vars
  BY <1>0, <1>4 DEF TypeOK, vars
<1> QED
  BY <1>1, <1>2, <1>3, <1>4 DEF Next

(* The mapping of a thread is written once, and only by a call of that
   thread whose conversation row is stored. *)
LEMMA MappingStep ==
  ASSUME Inv, [Next]_vars
  PROVE  /\ conversations \subseteq conversations'
         /\ \A t \in Threads :
              \/ mapping'[t] = mapping[t]
              \/ /\ mapping[t] = None
                 /\ mapping'[t] # None
                 /\ mapping'[t] \in conversations
<1> USE ServiceAssumption DEF Inv
<1>1. ASSUME NEW r \in Resolvers, InsertMapping(r) \/ DbFailure(r)
      PROVE  /\ conversations \subseteq conversations'
             /\ \/ mapping' = mapping
                \/ /\ Mapped(r) = None
                   /\ r \in conversations
                   /\ mapping' = [mapping EXCEPT ![ThreadOf[r]] = r]
  BY <1>1 DEF TypeOK, ProgressInv, InsertMapping, DbFailure, Mapped, Return, Goto
<1>2. ASSUME NEW r \in Resolvers, InsertMapping(r) \/ DbFailure(r)
      PROVE  \A t \in Threads :
               \/ mapping'[t] = mapping[t]
               \/ mapping[t] = None /\ mapping'[t] # None /\ mapping'[t] \in conversations
  BY <1>1, <1>2 DEF TypeOK, Mapped
<1>3. ASSUME NEW r \in Resolvers, Resolve(r), ~ InsertMapping(r)
      PROVE  mapping' = mapping /\ conversations \subseteq conversations'
  BY <1>3 DEF Resolve, Call, FindExisting, InsertConversation, FindWinner, counters
<1>4. CASE Crash \/ UNCHANGED vars
  BY <1>4 DEF Crash, vars
<1> QED
  BY <1>1, <1>2, <1>3, <1>4 DEF Next, Resolve

LEMMA ProgressStep == Inv /\ [Next]_vars => ProgressInv'
<1> SUFFICES ASSUME Inv, [Next]_vars, NEW r \in Resolvers
             PROVE  /\ (pc[r] \in {"start", "findExisting", "insertConversation"}
                          => r \notin conversations)'
                    /\ (pc[r] = "insertMapping" => r \in conversations)'
                    /\ (pc[r] = "findWinner" => Mapped(r) # None)'
                    /\ (pc[r] # "returned" => answer[r] = None)'
                    /\ (r \in late => /\ Mapped(r) # None
                                      /\ pc[r] \in {"findExisting", "returned", "thrown"})'
  BY DEF ProgressInv
<1> USE ServiceAssumption DEF Inv
<1>0. /\ conversations \subseteq conversations'
      /\ Mapped(r) # None => Mapped(r)' # None
  BY MappingStep DEF TypeOK, Mapped
<1>1. ASSUME NEW x \in Resolvers, Resolve(x), x # r
      PROVE  /\ pc'[r] = pc[r] /\ answer'[r] = answer[r]
             /\ r \in late' <=> r \in late
             /\ r \in conversations' <=> r \in conversations
  BY <1>1 DEF TypeOK, Resolve, Call, FindExisting, InsertConversation, InsertMapping,
     FindWinner, Return, Goto, counters
<1>2. ASSUME NEW x \in Resolvers, DbFailure(x), x # r
      PROVE  /\ pc'[r] = pc[r] /\ answer'[r] = answer[r]
             /\ r \in late' <=> r \in late
             /\ r \in conversations' <=> r \in conversations
  BY <1>2 DEF TypeOK, DbFailure, Goto
<1>3. CASE Resolve(r)
  <2>1. CASE Call(r)
    BY <1>0, <2>1 DEF TypeOK, ProgressInv, Call, Goto, Mapped, counters
  <2>2. CASE FindExisting(r)
    BY <1>0, <2>2 DEF TypeOK, ProgressInv, FindExisting, Return, Goto, Mapped, counters
  <2>3. CASE InsertConversation(r)
    BY <1>0, <2>3 DEF TypeOK, ProgressInv, InsertConversation, Goto, Mapped, counters
  <2>4. CASE InsertMapping(r)
    BY <1>0, <2>4 DEF TypeOK, ProgressInv, InsertMapping, Return, Goto, Mapped, counters
  <2>5. CASE FindWinner(r)
    BY <1>0, <2>5 DEF TypeOK, ProgressInv, FindWinner, Return, Goto, Mapped, counters
  <2> QED
    BY <1>3, <2>1, <2>2, <2>3, <2>4, <2>5 DEF Resolve
<1>4. CASE DbFailure(r)
  <2>1. pc'[r] = "thrown" /\ pc[r] # "returned" /\ answer' = answer /\ late' = late
    BY <1>4 DEF TypeOK, DbFailure, Goto, Waiting
  <2> QED
    BY <1>0, <2>1 DEF ProgressInv
<1>5. CASE Crash
  <2>1. /\ pc'[r] = IF pc[r] \in Waiting THEN "thrown" ELSE pc[r]
        /\ answer' = answer /\ late' = late /\ conversations' = conversations
    BY <1>5 DEF Crash
  <2> QED
    BY <1>0, <2>1 DEF ProgressInv, Waiting
<1>6. CASE UNCHANGED vars
  BY <1>6 DEF ProgressInv, vars, Mapped
<1> QED
  BY <1>0, <1>1, <1>2, <1>3, <1>4, <1>5, <1>6 DEF Next, ProgressInv

(* What a step writes into an answer is the mapping of the caller's thread
   once the step is done, and an answer is written once. *)
LEMMA AnswerStep ==
  ASSUME Inv, [Next]_vars
  PROVE  \/ answer' = answer
         \/ \E r \in Resolvers :
              /\ answer[r] = None
              /\ Mapped(r)' # None
              /\ answer' = [answer EXCEPT ![r] = Mapped(r)']
              /\ \/ mapping' = mapping
                 \/ Mapped(r) = None /\ mapping' = [mapping EXCEPT ![ThreadOf[r]] = r]
<1> USE ServiceAssumption DEF Inv
<1>1. ASSUME NEW r \in Resolvers, FindExisting(r) \/ FindWinner(r), answer' # answer
      PROVE  /\ answer[r] = None /\ Mapped(r)' # None /\ mapping' = mapping
             /\ answer' = [answer EXCEPT ![r] = Mapped(r)']
  BY <1>1 DEF TypeOK, ProgressInv, FindExisting, FindWinner, Return, Mapped, Goto
<1>2. ASSUME NEW r \in Resolvers, InsertMapping(r), answer' # answer
      PROVE  /\ answer[r] = None /\ Mapped(r)' # None
             /\ answer' = [answer EXCEPT ![r] = Mapped(r)']
             /\ Mapped(r) = None /\ mapping' = [mapping EXCEPT ![ThreadOf[r]] = r]
  BY <1>2 DEF TypeOK, ProgressInv, InsertMapping, Return, Mapped, Goto
<1>3. ASSUME NEW r \in Resolvers, Call(r) \/ InsertConversation(r) \/ DbFailure(r)
      PROVE  answer' = answer
  BY <1>3 DEF Call, InsertConversation, DbFailure
<1>4. CASE Crash \/ UNCHANGED vars
  BY <1>4 DEF Crash, vars
<1> QED
  BY <1>1, <1>2, <1>3, <1>4 DEF Next, Resolve

LEMMA AgreeStep == Inv /\ [Next]_vars => AnswersAgree'
<1> SUFFICES ASSUME Inv, [Next]_vars PROVE AnswersAgree'
  OBVIOUS
<1> USE ServiceAssumption DEF Inv
<1>1. ASSUME NEW r \in Resolvers, answer'[r] # None PROVE answer'[r] = Mapped(r)'
  <2>1. CASE answer'[r] = answer[r]
    <3>1. ThreadOf[r] \in Threads /\ mapping[ThreadOf[r]] = answer[r]
      BY <1>1, <2>1 DEF AnswersAgree, Mapped
    <3> QED
      BY <1>1, <2>1, <3>1, MappingStep DEF Mapped
  <2>2. CASE answer'[r] # answer[r]
    BY <2>2, AnswerStep DEF TypeOK
  <2> QED
    BY <2>1, <2>2
<1>2. ASSUME NEW t \in Threads, mapping'[t] # None PROVE mapping'[t] \in conversations'
  BY <1>2, MappingStep DEF AnswersAgree
<1> QED
  BY <1>1, <1>2 DEF AnswersAgree

LEMMA CostStep == Inv /\ [Next]_vars => KnownThreadsCostNothing'
<1> SUFFICES ASSUME Inv, [Next]_vars, NEW r \in Resolvers, r \in late', r \in conversations'
             PROVE  FALSE
  BY TypeStep DEF KnownThreadsCostNothing, TypeOK
<1> USE ServiceAssumption DEF Inv
<1>1. CASE r \in late /\ r \notin conversations
  <2>1. pc[r] \in {"findExisting", "returned", "thrown"}
    BY <1>1 DEF ProgressInv
  <2> QED
    BY <1>1, <2>1 DEF Next, Resolve, Call, FindExisting, InsertConversation, InsertMapping,
       FindWinner, DbFailure, Crash, vars, counters
<1>2. CASE r \notin late
  <2>1. Call(r)
    BY <1>2 DEF Next, Resolve, Call, FindExisting, InsertConversation, InsertMapping,
       FindWinner, DbFailure, Crash, vars, counters
  <2> QED
    BY <2>1 DEF ProgressInv, Call
<1> QED
  BY <1>1, <1>2 DEF KnownThreadsCostNothing

LEMMA ThrowStep == Inv /\ [Next]_vars => RaceNeverThrows'
<1> SUFFICES ASSUME Inv, [Next]_vars, NEW r \in Resolvers, pc'[r] = "thrown"
             PROVE  failures' > 0 \/ crashes' > 0
  BY DEF RaceNeverThrows
<1> USE ServiceAssumption DEF Inv
<1>0. failures \in Nat /\ crashes \in Nat
  BY DEF TypeOK
<1>1. CASE \E x \in Resolvers : Resolve(x)
  <2> PICK x \in Resolvers : Resolve(x)
    BY <1>1
  <2>1. pc[r] = "thrown"
    BY DEF TypeOK, ProgressInv, Resolve, Call, FindExisting, InsertConversation,
       InsertMapping, FindWinner, Return, Goto
  <2>2. failures' = failures /\ crashes' = crashes
    BY DEF Resolve, Call, FindExisting, InsertConversation, InsertMapping, FindWinner, counters
  <2> QED
    BY <2>1, <2>2 DEF RaceNeverThrows
<1>2. CASE (\E x \in Resolvers : DbFailure(x)) \/ Crash
  BY <1>0, <1>2 DEF DbFailure, Crash
<1>3. CASE UNCHANGED vars
  BY <1>3 DEF vars, RaceNeverThrows
<1> QED
  BY <1>1, <1>2, <1>3 DEF Next

LEMMA StepInv == Inv /\ [Next]_vars => Inv'
BY TypeStep, ProgressStep, AgreeStep, CostStep, ThrowStep DEF Inv

LEMMA Invariance == Spec => []Inv
BY InitInv, StepInv, PTL DEF Spec

-----------------------------------------------------------------------------
(* Every variable keeps its type. *)
THEOREM TypeCorrect == Spec => []TypeOK
<1>1. Inv => TypeOK
  BY DEF Inv
<1> QED
  BY <1>1, Invariance, PTL

(* However many deliveries of one thread race, all that are answered are
   answered with the one stored conversation the thread is mapped to. *)
THEOREM ResolversAgree == Spec => []AnswersAgree
<1>1. Inv => AnswersAgree
  BY DEF Inv
<1> QED
  BY <1>1, Invariance, PTL

(* A call that begins after its thread was mapped inserts nothing. *)
THEOREM OrphansComeFromRaces == Spec => []KnownThreadsCostNothing
<1>1. Inv => KnownThreadsCostNothing
  BY DEF Inv
<1> QED
  BY <1>1, Invariance, PTL

(* Losing the race is a normal outcome, never an error. *)
THEOREM LosersReturn == Spec => []RaceNeverThrows
<1>1. Inv => RaceNeverThrows
  BY DEF Inv
<1> QED
  BY <1>1, Invariance, PTL

-----------------------------------------------------------------------------
LEMMA StepRefines == Inv /\ [Next]_vars => [Mapping!Next]_<<mapping, answer>>
<1> SUFFICES ASSUME Inv, [Next]_vars, <<mapping, answer>>' # <<mapping, answer>>
             PROVE  Mapping!Next
  OBVIOUS
<1> USE ServiceAssumption DEF Inv
<1>1. CASE answer' = answer
  <2>1. PICK r \in Resolvers : Mapped(r) = None /\ mapping' = [mapping EXCEPT ![ThreadOf[r]] = r]
    BY <1>1 DEF Next, Resolve, Call, FindExisting, InsertConversation, InsertMapping,
       FindWinner, DbFailure, Crash, vars
  <2>2. Mapping!Bind(r)
    BY <2>1 DEF Mapping!Bind, Mapped
  <2> QED
    BY <1>1, <2>2 DEF Mapping!Next
<1>2. CASE answer' # answer
  <2>1. PICK r \in Resolvers :
          /\ answer[r] = None
          /\ Mapped(r)' # None
          /\ answer' = [answer EXCEPT ![r] = Mapped(r)']
          /\ \/ mapping' = mapping
             \/ Mapped(r) = None /\ mapping' = [mapping EXCEPT ![ThreadOf[r]] = r]
    BY <1>2, AnswerStep
  <2>2. Mapping!Answer(r)
    BY <2>1 DEF Mapping!Answer, Mapped
  <2>3. mapping' = mapping \/ Mapping!Bind(r)
    BY <2>1 DEF Mapping!Bind, Mapped
  <2> QED
    BY <2>2, <2>3 DEF Mapping!Next
<1> QED
  BY <1>1, <1>2

(* The service implements the abstract mapping: one binding per thread,
   written once, and every answer read from it. *)
THEOREM Refinement == Spec => ImplementsMapping
<1>1. Init => Mapping!Init
  BY DEF Init, Mapping!Init
<1> QED
  BY <1>1, StepRefines, Invariance, PTL DEF Spec, ImplementsMapping, Mapping!Spec
=================================================================================
