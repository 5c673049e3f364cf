CONSTANTS
  o1 = o1
  o2 = o2
  Owners <- TwoOwners
  MaxIndex = 1
  MaxWindow = 2
  Depth = 1
  MaxBatch = 2
  Setups <- Dropping
SPECIFICATION Spec
PROPERTIES
  DroppedIsDiscarded
\* the pipeline rests once every frame has ended
CHECK_DEADLOCK FALSE
