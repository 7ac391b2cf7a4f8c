\* Two workers and four batches of two n-grams.
SPECIFICATION FairSpec
CONSTANTS
  w1 = w1
  w2 = w2
  Workers <- TwoWorkers
  QueueSize = 4
  BatchSize = 2
  Inputs <- OddSections
  Passes <- PassesSome
INVARIANTS OneHolder
PROPERTIES ImplementsSequential FilterEnds
