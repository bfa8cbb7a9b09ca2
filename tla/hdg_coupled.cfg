CONSTANTS
  a1 = a1
  a2 = a2
  b1 = b1
  Rank <- Ranks
  ElemNbr <- InDomain
  FaceNbr <- AcrossInterface
  MaxEval = 7
  ReduceAfter = {4}
  Smoothing = {1, 2, 5}
SPECIFICATION FairSpec
INVARIANTS HdgInv
PROPERTIES ImplementsSynchronous AllFinish
CHECK_DEADLOCK FALSE
