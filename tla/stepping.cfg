CONSTANTS
  nummodels = 2
  tstages = 3
  tsteps = 2
  LDG = FALSE
  saveSolOpt = 0
  Coeff <- SmallCoeff
SPECIFICATION DirkSpec
INVARIANTS SteppingInv SourceIsButcher CouplingLagsOneStage FramesAreSolutions
CHECK_DEADLOCK FALSE
