\* A section of exactly one batch.
SPECIFICATION FairSpec
CONSTANTS
  w1 = w1
  w2 = w2
  Workers <- TwoWorkers
  QueueSize = 4
  BatchSize = 2
  Inputs <- FullSection
  Passes <- PassesSome
PROPERTIES ImplementsSequential
CHECK_DEADLOCK FALSE
