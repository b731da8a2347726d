SPECIFICATION FairSpec
CONSTANTS
  Conns = {c1, c2}
  Pcbs = {p1, p2, p3}
  None = None
  Cfgs <- MCCfgs
  MaxRetry = 1
  MaxTries = 1
  MaxCheck = 2
  MaxTW = 1
INVARIANTS TypeOK Accounted OwnCallbacks Told NoDeadConnections StillTrying
PROPERTIES CloseEnds
CHECK_DEADLOCK FALSE
