SPECIFICATION FairSpec
CONSTANTS
  b1 = b1
  b2 = b2
  b3 = b3
  Blocks = {b1, b2, b3}
  None = None
  TrnOrder <- MCTrns
  TaskLen = 2
  MaxFifo = 1
  Cfgs <- MCCfgs
INVARIANTS TypeOK NothingLost NoSilentBus Counted
PROPERTIES PauseKept KeepsSending
