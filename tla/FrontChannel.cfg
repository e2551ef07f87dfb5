CONSTANTS
  Null = Null
  Tabs = {a, b}
  Users = {u1, u2}
  Clients = {spa, portal}
  GlobalClients = {spa}
  AutoApproved = {spa}
  Tokens = {t1, t2, t3, t4, t5, t6}
SPECIFICATION FairSpec
INVARIANTS TypeOK CodeForUserShown
PROPERTY NavigationEnds
