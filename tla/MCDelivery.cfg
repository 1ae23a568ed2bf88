SPECIFICATION FairSpec
CONSTANTS
  github = github
  teams = teams
  s1 = s1
  s2 = s2
  Replies <- MCReplies
  Sweeps <- MCSweeps
  GitHub <- MCGitHub
  Undeliverable <- MCUndeliverable
  MaxAttempts = 2
  MaxRequests = 2
  MaxDbFailures = 1
  MaxCrashes = 1
INVARIANTS NoSilentLoss FailureEarned DuplicatesExplained BudgetExplained
PROPERTIES QueueDrains ImplementsReplyQueue
CHECK_DEADLOCK FALSE
