\* A frame can be resolved more than once: TLC finds EachFrameResolvedOnce violated, and
\* ImplicitRetryNeverWarns when it takes its place.  With Batch <- OneOfTwo and
\* Asynchronous <- SynchronousLayer it finds ForeignFrameIsSilent violated.
CONSTANTS
  f1 = f1
  f2 = f2
  f3 = f3
  c1 = c1
  c2 = c2
  c3 = c3
  layer = layer
  Nameable <- TwoFrames
  Batch <- TwoFrames
  Calls <- TwoCalls
  Layer = layer
  Asynchronous <- AsynchronousLayer
SPECIFICATION TaskSpec
INVARIANTS
  EachFrameResolvedOnce
\* the task is finished once every call was made
CHECK_DEADLOCK FALSE
