\* One thread submits and then calls Stop(true), as batch_run does.
SPECIFICATION FairSpec
CONSTANTS
  w1 = w1
  w2 = w2
  main = main
  t1 = t1
  t2 = t2
  t3 = t3
  None = None
  Workers <- TwoWorkers
  Clients <- OneClient
  Tasks <- ThreeTasks
  QueueLimit = 1
  StopModes <- OnlyDrain
INVARIANTS PoppedOnce QueueLimitHolds StopCompletesQueuedJobs
PROPERTIES CallsReturn
