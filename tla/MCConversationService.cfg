SPECIFICATION Spec
CONSTANTS
  r1 = r1
  r2 = r2
  r3 = r3
  r4 = r4
  t1 = t1
  t2 = t2
  None = None
  Resolvers <- MCResolvers
  Threads <- MCThreads
  ThreadOf <- MCThreadOf
  MaxDbFailures = 2
  MaxCrashes = 1
INVARIANTS AnswersAgree KnownThreadsCostNothing RaceNeverThrows
PROPERTIES ImplementsMapping
CHECK_DEADLOCK FALSE
