CONSTANTS
  f1 = f1
  f2 = f2
  f3 = f3
  c1 = c1
  c2 = c2
  c3 = c3
  layer = layer
  Nameable <- ThreeFrames
  Batch <- TwoOfThree
  Calls <- ThreeCalls
  Layer = layer
  Asynchronous <- AnyLayer
SPECIFICATION TaskSpec
SYMMETRY BatchSymmetry
INVARIANTS
  ClaimsAreDisjoint
  RaiseResolvesEverything
  ManualResolutionWins
\* the task is finished once every call was made
CHECK_DEADLOCK FALSE
