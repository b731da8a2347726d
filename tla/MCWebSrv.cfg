SPECIFICATION Spec
CONSTANTS
  Conns = {c1, c2}
  MaxOpen = 4
  SndBuf = 6
  MinSend = 2
  MaxSend = 5
  MaxHead = 4
  MaxTurns = 12
  Pages <- MCPages
  Protected <- MCProtected
  NoPage = NoPage
  Cfgs <- MCCfgs
INVARIANTS TypeOK Owned InWhole Framed Guarded
PROPERTIES AnswerEnds
