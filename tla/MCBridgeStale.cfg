SPECIFICATION Spec
CONSTANTS
  c1 = c1
  c2 = c2
  Conns = {c1, c2}
  None = None
  BufMax = 5
  Blk = 2
  SndBuf = 2
  Wnd = 2
  RxFifo = 2
  TxFifo = 1
  TaskLen = 3
  Word = 16
  Cfgs <- StaleCfgs
INVARIANT NotSentInBuffer
CHECK_DEADLOCK FALSE
