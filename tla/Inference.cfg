CONSTANTS
  t1 = t1
  t2 = t2
  t3 = t3
  Threads <- ThreeThreads
  Runner = t1
  Setups <- Sound
  Sizes <- SmallSizes
  Counts <- SmallCounts
  MaxShared = 2
  Zero = 0
  Infer <- Squared
  Failures = 1
  None = None
SPECIFICATION InferenceSpec
INVARIANTS
  OneOutputPerRow
  WorkersNeverWait
PROPERTIES
  PaddedRunEnds
\* the only thread rests when run_padded has ended
CHECK_DEADLOCK FALSE
