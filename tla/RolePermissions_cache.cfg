CONSTANTS
  Null = Null
  k1 = k1
  k2 = k2
  Roles = {owner}
  ManagerRoles = {owner}
  Keys = {k1, k2}
  KeySets <- MCKeySets
  Users = {u1, u2, u3}
  Requests = {r1, r2}
  MaxEntries = 2
  MaxUpdates = 1
  MaxFails = 1
SYMMETRY Symmetry
SPECIFICATION Spec
PROPERTIES CacheEvictsOldest
