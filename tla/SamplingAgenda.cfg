\* Two decoder threads, two workers, four phrases and two jobs.
SPECIFICATION FairSpec
CONSTANTS
  d1 = d1
  d2 = d2
  w1 = w1
  w2 = w2
  Clients <- TwoClients
  Workers <- TwoWorkers
  Phrases <- FourPhrases
  PerJob = 1
  MaxJobs = 2
INVARIANTS StatsComplete SampleIsFull
PROPERTIES LookupReturns
