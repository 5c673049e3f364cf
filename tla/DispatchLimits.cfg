\* A task can be run by another role's source: TLC finds CalledIsRun violated.  Two more,
\* both INVARIANTS, each with what it changes here:
\*   WorkersSurvive: SourceOf <- TwoSourceOfTask, Workers <- TwoWorkers,
\*     Exiting <- FirstTask
\*   GpuLeavesAWorker: Tasks <- ThreeTasks, SourceOf <- GpuSourceOfTask,
\*     Workers <- TwoWorkers
CONSTANTS
  t1 = t1
  t2 = t2
  t3 = t3
  s1 = s1
  s2 = s2
  s3 = s3
  w1 = w1
  w2 = w2
  Tasks <- TwoTasks
  SourceOf <- OddSourceOfTask
  Sources <- ThreeSources
  RoleOf <- SourceRole
  Partitions <- TwoPartitions
  MaxUnit = 1
  Workers <- OneWorker
  Exiting <- NoTasks
  MayShutDown = FALSE
  NoTask = NoTask
SPECIFICATION Spec
PROPERTIES
  CalledIsRun
\* the process may be shut down, or all calls be made and done
CHECK_DEADLOCK FALSE
