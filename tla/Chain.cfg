\* Up to four threads: the lead, two workers and the one that closes the loop.
SPECIFICATION FairSpec
CONSTANTS
  BlockCount = 3
  MaxThreads = 4
  MaxBlocks = 5
  MaxRounds = 2
INVARIANTS ProduceNeverWaits DeliveredInOrder RecycledSafely PoisonEndsTheRound
PROPERTIES WaitReturns
CHECK_DEADLOCK FALSE
