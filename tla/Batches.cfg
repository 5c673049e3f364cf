\* Executions come to rest when every batch has ended.
CONSTANTS
  o1 = o1
  o2 = o2
  b1 = b1
  b2 = b2
  None = None
  Owners <- TwoOwners
  Batches <- TwoBatches
  Size = 2
  Setups <- PassingSetups
SPECIFICATION Spec
INVARIANTS
  EveryFrameIsHeard
  HeardAtMostOnce
PROPERTIES
  BatchesEnd
CHECK_DEADLOCK FALSE
\* What holds only under the conditions of these setups; TLC finds violated, by themselves:
\*   ClientsAreIndependent (an INVARIANT): Setups <- DeafSetups, a discard callback raises
\*   HandlersComeBack (a PROPERTY): Setups <- HeldSetups, where all workers wait for
\*     coroutines that wait for a worker
