\* A dropped frame can hold up others for good: TLC finds KeptItemsEnd violated.  Three
\* more, each with what it changes here:
\*   UserdataStays (a PROPERTY): Setups <- Defaults
\*   LeavesInOrder (an INVARIANT): Setups <- Ordered
\*   OneCallback (an INVARIANT): Setups <- Raising
CONSTANTS
  o1 = o1
  o2 = o2
  Owners <- TwoOwners
  MaxIndex = 1
  MaxWindow = 2
  Depth = 1
  MaxBatch = 2
  Setups <- Dropping
SPECIFICATION Spec
PROPERTIES
  KeptItemsEnd
\* the pipeline rests once every frame has ended
CHECK_DEADLOCK FALSE
