\* A frame source that raises costs room: TLC finds FramesFit violated.  Two more, each
\* with what it changes here:
\*   RoomIsExact (an INVARIANT): Items = 3, Setups <- BadFirst
\*   ItemsAreFramed (a PROPERTY): Items = 2, Setups <- Holes
CONSTANTS
  p1 = p1
  p2 = p2
  Items = 4
  MaxWindow = 2
  HeadRoom = 2
  Pumps <- OnePump
  Setups <- Raising
SPECIFICATION Spec
INVARIANTS
  FramesFit
\* the orchestrator rests once its frames have ended
CHECK_DEADLOCK FALSE
