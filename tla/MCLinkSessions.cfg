SPECIFICATION Spec
CONSTANTS
  gh1 = gh1
  sl1 = sl1
  sl2 = sl2
  sl3 = sl3
  home = home
  work = work
  github = github
  slack = slack
  octocat = octocat
  ada = ada
  bob = bob
  None = None
  SignIns <- MCSignIns
  Browsers = {home, work}
  Providers = {github, slack}
  Accounts = {octocat, ada, bob}
  BrowserOf <- MCBrowserOf
  ProviderOf <- MCProviderOf
  AccountOf <- MCAccountOf
  Known = {ada, bob}
  Bots = {bob}
  Talkers = {octocat, ada}
  MaxEvents = 2
INVARIANTS OneActorPerSitting JoinedBySessions RefusalsExplained
PROPERTIES LogoutHolds ShownWhenConnected
CHECK_DEADLOCK FALSE
