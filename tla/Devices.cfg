CONSTANTS
  t1 = t1
  t2 = t2
  Threads <- TwoThreads
  Removals = 2
  Failures = 1
  Cpu = Cpu
  Cuda = Cuda
  First = First
  None = None
  Cases <- PassingCases
SPECIFICATION Spec
INVARIANTS
  OneThreadAtDevice
  RunsWhereRequested
  InvalidationIsEffective
PROPERTIES
  CallEnds
\* What holds only under the conditions of these cases; TLC finds violated, by themselves:
\*   OneThreadAlways (an INVARIANT): Cases <- UnmadeCases
\*   NextCallIsFresh (an INVARIANT): Cases <- OverlappingCases
\*   LookupsFindDevice (an INVARIANT): Cases <- OverlappingCases
\*   CallRecovers (an INVARIANT): Cases <- FaultCases
\*   TensorsFollowModule (an INVARIANT): Cases <- FaultCases
