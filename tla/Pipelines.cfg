CONSTANTS
  o1 = o1
  o2 = o2
  Owners <- TwoOwners
  MaxIndex = 3
  MaxWindow = 3
  Depth = 2
  MaxBatch = 2
  Setups <- Sound
SPECIFICATION Spec
INVARIANTS
  WindowMatchesFlight
  OrderAtGates
  HandlersHaveUserdata
PROPERTIES
  LifecycleSpec
\* the pipeline rests once every frame has ended
CHECK_DEADLOCK FALSE
