CONSTANTS
  Null = Null
  Requests = {r1, r2}
  Tier1 = 2
  Tier2 = 3
  Tier3 = 5
  Lock1 = 1
  Lock2 = 3
  Lock3 = 12
SPECIFICATION FairSpec
INVARIANTS TypeOK NoSpuriousLock CountIsExact
PROPERTIES LocksWhenAlone LockLifts
