CONSTANTS
  r1 = r1
  r2 = r2
  Rank <- Ranks
  Dt <- Uniform
  saveRestart = 2
  saveSolFreq = 2
  MaxRuns = 3
SPECIFICATION Spec
INVARIANTS CheckpointInv OneCheckpointAtRisk FramesOfOneRun
PROPERTIES OlderCheckpointsKept
CHECK_DEADLOCK FALSE
