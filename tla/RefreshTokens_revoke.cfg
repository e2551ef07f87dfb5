CONSTANTS
  Null = Null
  ten1 = ten1
  ten2 = ten2
  usr1 = usr1
  usr2 = usr2
  Tenants = {ten1}
  Users = {usr1, usr2}
  Sessions = {s1}
  Tokens = {t1, t2, t3}
  Requests = {r1, r2}
  Admins <- MCAdmins
  MaxFails = 0
SPECIFICATION Spec
PROPERTIES RevokedWhenAnswered
