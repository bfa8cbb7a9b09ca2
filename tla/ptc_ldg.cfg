CONSTANTS
  RBdim = 3
  maxit = 3
  MaxCalls = 3
  NoVec = 0
  Vec <- Solves
SPECIFICATION Spec
INVARIANTS PtcInv BasisIsRecent ColumnsIndependent GuessFromItsColumns
CHECK_DEADLOCK FALSE
