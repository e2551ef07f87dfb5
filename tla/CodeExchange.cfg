CONSTANTS
  Null = Null
  ten1 = ten1
  app = app
  uri1 = uri1
  uri2 = uri2
  Tenants = {ten1}
  Users = {usr1}
  Sessions = {s1, s2}
  Tokens = {t1, t2}
  Requests = {r1, r2}
  Admins = {}
  MaxFails = 0
  Clients = {app}
  ClientTenant <- MCClientTenant
  Redirects = {uri1, uri2}
  RedirectUris <- MCRedirectUris
  Verifiers = {v1}
  Methods = {"S256"}
  Codes = {c1, c2}
  MaxLapsed = 1
  MaxDropped = 1
SPECIFICATION FairSpec
INVARIANTS TypeOK SessionsSpendCodes OneSessionPerRequest OneSessionUnlessContested
PROPERTIES ConsumedYieldsSession ReuseEventuallyRevokes
CHECK_DEADLOCK FALSE
