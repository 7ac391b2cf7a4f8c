\* A stack of three with stack diversity, recombination and a beam.
SPECIFICATION Spec
CONSTANTS
  Classes <- SevenStates
  Coverage <- CoverageOf
  MaxScore = 3
  BeamWidth <- Tight
  MaxSize = 3
  Diversity = 1
  MaxDistortion = 0
  DisableDiscarding = FALSE
INVARIANTS OnlyWorstPruned DiversityKept
