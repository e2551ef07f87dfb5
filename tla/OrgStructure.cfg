CONSTANTS
  Null = Null
  acme = acme
  beta = beta
  boss = boss
  ann = ann
  pm = pm
  i1 = i1
  i2 = i2
  x1 = x1
  c1 = c1
  Tenants = {acme, beta}
  Emails = {boss, ann}
  Owner = owner
  RoleNames = {owner, pm}
  ManagerRoles = {owner}
  StructureRoles = {owner, pm}
  RoleSets <- MCRoleSets
  Settings = {tz, theme}
  Invites = {i1, i2, i3, i4, i5}
  Ids = {x1, x2}
  Codes = {c1, c2}
  Requests = {r1, r2}
  MaxArrivals = 3
  MaxFails = 1
SPECIFICATION MCSpec
INVARIANTS TypeOK JoinsAsInvited OrgsComeWithOwner ChangesKept StructureIsTheTenants
CHECK_DEADLOCK FALSE
