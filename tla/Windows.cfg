CONSTANTS
  p1 = p1
  p2 = p2
  Items = 4
  MaxWindow = 2
  HeadRoom = 3
  Pumps <- TwoPumps
  Setups <- Sound
SPECIFICATION Spec
INVARIANTS
  WindowBound
  WindowAccounting
  FramedInFeedOrder
PROPERTIES
  FedIsFramed
\* the orchestrator rests once its frames have ended
CHECK_DEADLOCK FALSE
