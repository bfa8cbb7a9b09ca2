CONSTANTS
  MaxMaxit = 14
  MaxNrest = 6
  WholeCycles = TRUE
SPECIFICATION Spec
INVARIANTS GmresInv UpdateUsesComputed FewerMeansConverged
CHECK_DEADLOCK FALSE
