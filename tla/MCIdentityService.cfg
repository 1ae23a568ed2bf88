SPECIFICATION Spec
CONSTANTS
  d1 = d1
  d2 = d2
  k1 = k1
  k2 = k2
  w1 = w1
  w2 = w2
  alice = alice
  bob = bob
  bot = bot
  None = None
  Accounts <- MCAccounts
  Deliveries <- MCDeliveries
  AccountOf <- MCAccountOf
  Callbacks <- MCCallbacks
  Browsers <- MCBrowsers
  Seeds <- MCSeeds
  Registered <- MCRegistered
  Bots <- MCBots
  MaxFaults = 1
INVARIANTS ResolvedIsOwner MessagesFollowAccounts DropsExplained
PROPERTIES AccountsSurvive
CHECK_DEADLOCK FALSE
SYMMETRY MCSymmetry
