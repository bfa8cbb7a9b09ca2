CONSTANTS
  Ne = 4
  Nproc = 2
  Coupled = TRUE
SPECIFICATION Spec
INVARIANTS ElempartIsPartition
CHECK_DEADLOCK FALSE
