CONSTANTS
  t1 = t1
  t2 = t2
  t3 = t3
  t4 = t4
  cpu = cpu
  gpu = gpu
  odd = odd
  w1 = w1
  w2 = w2
  Tasks <- AllTasks
  Delayed <- Polls
  SourceOf <- SourceOfTask
  Sources <- AllSources
  RoleOf <- SourceRole
  Partitions <- TwoPartitions
  MaxUnit = 2
  Workers <- OneWorker
  Exiting <- NoTasks
  MayShutDown = TRUE
  NoTask = NoTask
  MaxDelay = 1
  MaxTime = 1
  Setups <- Sound
SPECIFICATION SchedulingSpec
INVARIANTS
  CongestionIsOutstanding
  NoLostWakeup
  NoOversleep
PROPERTIES
  DueIsRealized
  ShutDownStops
\* the process may exit, or all calls be made and done
CHECK_DEADLOCK FALSE
