CONSTANTS
  Null = Null
  Requests = {r1, r2}
  Tier1 = 5
  Tier2 = 10
  Tier3 = 15
  Lock1 = 1
  Lock2 = 3
  Lock3 = 12
SPECIFICATION Spec
PROPERTIES FailuresLock
