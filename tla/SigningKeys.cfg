CONSTANTS
  NoProc = NoProc
  Processes = {p1, p2}
  Tasks = {t1, t2, t3}
  MaxKeys = 3
  MaxLosses = 1
SYMMETRY Symmetry
SPECIFICATION Spec
INVARIANTS TypeOK TokensVerifiable SigningKeyOwned OneActiveRow
CHECK_DEADLOCK FALSE
