SPECIFICATION Spec
CONSTANTS
  NBanks = 3
  BankWords = 6
  MaxWords = 2
  Erased = 4
  v0 = v0
  v1 = v1
  w1 = w1
  v2 = v2
  v3 = v3
  Ids = {"wifi", "sys"}
  Vals = {v1, w1}
  Words <- MCWords
  None = None
  Faults = {"crash"}
PROPERTIES NeverForgotten
CHECK_DEADLOCK FALSE
