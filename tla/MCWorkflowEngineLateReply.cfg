SPECIFICATION Spec
CONSTANTS
  e1 = e1
  e2 = e2
  e3 = e3
  thread = thread
  alice = alice
  None = None
  Fields <- MCFields
  ConfidenceThreshold = 50
  FailureStreakThreshold = 2
  Events <- MCEvents
  Conversations <- MCConversations
  Actors <- MCActors
  ConversationOf <- MCConversationOf
  ActorOf <- MCActorOf
  Messages <- MCMessages
  MaxDbFailures = 0
  MaxCrashes = 0
  MaxClears = 0
PROPERTIES NoReplyUnderHumanControl
CHECK_DEADLOCK FALSE
SYMMETRY MCSymmetry
