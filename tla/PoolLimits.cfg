\* Two threads can size a model differently: TLC finds ModelSizeIsParallellism violated,
\* and with Setups <- MadeForOne PoolSizeIsParallellism.
CONSTANTS
  t1 = t1
  t2 = t2
  Threads <- TwoThreads
  Setups <- RacedFor
  Failures = 0
  None = None
SPECIFICATION Spec
INVARIANTS
  ModelSizeIsParallellism
