CONSTANTS
  maxit = 2
  MaxCalls = 2
  MaxNorm = 3
  TooLarge = 3
  RBdim = 2
SPECIFICATION FairSpec
INVARIANTS NewtonInv BasisHoldsSteps FailureVisible
PROPERTIES CallsEnd
CHECK_DEADLOCK FALSE
