CONSTANTS
  Null = Null
  k1 = k1
  k2 = k2
  Roles = {owner}
  ManagerRoles = {owner}
  Keys = {k1, k2}
  KeySets <- MCKeySets
  Users = {u1, u2}
  Requests = {r1, r2}
  MaxEntries = 1
  MaxUpdates = 2
  MaxFails = 1
SPECIFICATION FairSpec
INVARIANTS TypeOK GrantsAreAsked
PROPERTIES PermissionsConverge
