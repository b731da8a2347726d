SPECIFICATION FairSpec
CONSTANTS
  NBanks = 3
  BankWords = 6
  MaxWords = 2
  Erased = 4
  v0 = v0
  v1 = v1
  w1 = w1
  v2 = v2
  v3 = v3
  Ids = {"wifi", "sys"}
  Vals = {v1, v2, v3}
  Words <- MCWords
  None = None
  Faults = {"crash", "error"}
INVARIANTS TypeOK HeadersDistinct OldBankRules WithinBank PackFits PackProgress
PROPERTIES ImplementsStore SaveReturns OthersUntouched
CHECK_DEADLOCK FALSE
