SPECIFICATION Spec
CONSTANTS
  host = host
  m1 = m1
  m2 = m2
  m3 = m3
  m4 = m4
  e1 = e1
  e2 = e2
  e3 = e3
  e4 = e4
  c1 = c1
  c2 = c2
  c3 = c3
  alice = alice
  app = app
  t1 = t1
  t2 = t2
  None = None
  Messages <- MCMessages
  Events <- MCEvents
  Calls <- MCCalls
  Plans <- MCPlans
  Clients <- MCClients
  Client <- MCClient
  Actors <- MCActors
  Threads <- MCThreads
  Sender <- MCSender
  Thread <- MCThread
  Filtered <- MCFiltered
  Bot = app
  HttpPolicy <- MCHttpPolicy
  ActorPolicy <- MCActorPolicy
  ThreadPolicy <- MCThreadPolicy
  MaxTrackedKeys = 1
  MaxSeen = 3
  MaxDedup = 1
  MaxClock = 1
  MaxDbFailures = 1
  MaxCrashes = 1
INVARIANTS ProcessedOnce LossExplained BotIsQuiet WithinBudget
PROPERTIES ImplementsAtMostOnce
CHECK_DEADLOCK FALSE
