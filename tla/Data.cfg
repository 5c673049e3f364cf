CONSTANTS
  data = data
  readme = readme
  masks = masks
  mask = mask
  old = old
  new = new
  p1 = p1
  p2 = p2
  Processes <- TwoProcesses
  Machines <- PassingMachines
  Root = data
  Below <- TwoLevels
  Parent <- ParentOf
  FileContents <- TwoContents
  Partial = Partial
  NoPath = NoPath
SPECIFICATION SyncSpec
INVARIANTS
  Mirrored
  FailsOnlyIfTouched
PROPERTIES
  SyncEnds
\* What holds only under the conditions of these setups; TLC finds violated, by themselves:
\*   RunsWithItsData (an INVARIANT): Machines <- TogetherMachines
\*   LaunchesSucceed (an INVARIANT): Machines <- TogetherMachines
