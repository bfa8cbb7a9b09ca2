CONSTANTS
  r1 = r1
  r2 = r2
  r3 = r3
  Rank <- Ranks
  Nbr <- Line
  MaxEval = 3
  ReduceAfter = {2}
  FrozenAV = TRUE
SPECIFICATION FairSpec
INVARIANTS ResidualConsistent SendBufferStable SkewBounded
PROPERTIES ImplementsSynchronous AllFinish
CHECK_DEADLOCK FALSE
