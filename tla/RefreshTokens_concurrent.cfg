CONSTANTS
  Null = Null
  ten1 = ten1
  ten2 = ten2
  usr1 = usr1
  usr2 = usr2
  Tenants = {ten1, ten2}
  Users = {usr1, usr2}
  Sessions = {s1, s2}
  Tokens = {t1, t2, t3, t4}
  Requests = {r1, r2}
  Admins <- MCAdmins
  MaxFails = 1
SYMMETRY Symmetry
SPECIFICATION Spec
INVARIANTS TypeOK SuccessorRetiresParent TenantOfSession SnapshotsStayTrue ClaimsMatchSession LiveTokensFork
PROPERTIES ImplementsLifecycle
