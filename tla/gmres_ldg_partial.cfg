CONSTANTS
  MaxMaxit = 5
  MaxNrest = 3
  WholeCycles = FALSE
SPECIFICATION Spec
INVARIANTS UpdateUsesComputed
CHECK_DEADLOCK FALSE
