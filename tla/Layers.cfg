CONSTANTS
  o1 = o1
  o2 = o2
  w1 = w1
  w2 = w2
  Owners <- TwoOwners
  MaxIndex = 2
  MaxBatch = 2
  Workers <- TwoWorkers
  NoWorker = NoWorker
  Setups <- Sound
SPECIFICATION Spec
INVARIANTS
  QueueWithinCapacity
  EveryFrameInOnePlace
  NothingOvertakes
PROPERTIES
  DueIsPosted
\* the layer rests once all frames were posted
CHECK_DEADLOCK FALSE
\* What holds only under the conditions of these setups; TLC finds violated, by themselves:
\*   QueueNeverOvershoots (an INVARIANT): MaxIndex = 4, Setups <- Overshooting
\*   EveryFrameInOnePlace (an INVARIANT): MaxIndex = 4, Setups <- Overshooting
\*   DueIsPosted (a PROPERTY): Setups <- NeverYielding
\*   DueIsPosted (a PROPERTY): Setups <- DiscardingAhead
\*   DueIsPosted (a PROPERTY): Setups <- RetryingInOrder
