CONSTANTS
  Ne = 4
  Nproc = 3
  Coupled = FALSE
  NFields = 2
  Meshes <- LinesAndStar
SPECIFICATION PreprocessingSpec
INVARIANTS TypeOK MessagesPair ExchangeFillsGhosts ElempartIsPartition InteriorNeedsNoGhost StencilStored SentWasComputed SameAsSerial FieldsOfOwner
PROPERTY AllBuilt
CHECK_DEADLOCK FALSE
