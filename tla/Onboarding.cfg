CONSTANTS
  Null = Null
  Emails = {e1, e2}
  Ids = {i1, i2}
  Tokens = {v1, v2}
  Requests = {r1, r2}
  MaxFails = 1
  MaxExpired = 1
SPECIFICATION FairSpec
INVARIANTS TypeOK AccountsComplete VerifiedByMail OneUsableToken
PROPERTIES SpentTokenVerifies
CHECK_DEADLOCK FALSE
