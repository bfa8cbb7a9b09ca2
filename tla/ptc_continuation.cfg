CONSTANTS
  tsteps = 7
  Num0 = {1, 5}
  Ten0 = {4, 9}
SPECIFICATION Spec
INVARIANTS ContinuationInv LastSavedIsFinal
CHECK_DEADLOCK FALSE
