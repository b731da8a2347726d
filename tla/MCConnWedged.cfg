SPECIFICATION Spec
CONSTANTS
  Conns = {c1, c2}
  Pcbs = {p1, p2, p3}
  None = None
  Cfgs <- MCLateCfgs
  MaxRetry = 1
  MaxTries = 1
  MaxCheck = 2
  MaxTW = 1
INVARIANTS TriesAgain
CHECK_DEADLOCK FALSE
