SPECIFICATION CredentialsSpec
CONSTANTS
  Addresses = {1}
  ExpireActions = {"", "reset", "block", "weekly"}
  Durations = {0, 10, 15}
  Resolution = 5
  ZeroTime <- MCZeroTime
  LinkLife = 10
  DefaultDuration = 15
  Day = 10
  Width = 7
  MaxTime = 22
  c1 = c1
  c2 = c2
  k0 = k0
  Commands = {c1, c2}
  GivenKeys = {k0}
  NoServer = NoServer
  NoPair = NoPair
  MaxDrawn = 3
  alice = alice
  carol = carol
  home = home
  tab1 = tab1
  tab2 = tab2
  Tabs = {tab1, tab2}
  Users = {alice, carol}
  Domains = {home}
  DomainOf <- MCDomainOf
  Verified = {alice}
  SessionMaxAge = 2
  NoCookie = NoCookie
  AsItWas = AsItWas
  Nothing = Nothing
  MaxTokenLife = 2
  MaxRestarts = 2
INVARIANTS
  LeaseIsExact
  LinkIsShort
  ListIsKept
  WidthIsModelled
  KeyIsKnown
PROPERTIES
  ConfigFitsServer
  ServedIsAllowed
  LockoutEnds
