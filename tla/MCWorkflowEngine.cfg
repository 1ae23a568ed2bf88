SPECIFICATION Spec
CONSTANTS
  e1 = e1
  e2 = e2
  e3 = e3
  thread = thread
  alice = alice
  None = None
  Fields <- MCFields
  ConfidenceThreshold = 50
  FailureStreakThreshold = 2
  Events <- MCEvents
  Conversations <- MCConversations
  Actors <- MCActors
  ConversationOf <- MCConversationOf
  ActorOf <- MCActorOf
  Messages <- MCMessages
  MaxDbFailures = 1
  MaxCrashes = 1
  MaxClears = 1
INVARIANTS StreakEarned HandoffHonest ProposalGrounded SilenceExplained
PROPERTIES OnlyRacingTurnsAnswer
CHECK_DEADLOCK FALSE
SYMMETRY MCSymmetry
