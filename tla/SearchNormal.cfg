\* Five words, every choice of walls and of two nested or disjoint zones, and a time-out.
SPECIFICATION Spec
CONSTANTS
  SourceSize = 5
  MaxDistortion = 3
  Options <- UpToThreeWords
  Constraints <- AllConstraints
  StackSize = 1
  MayTimeOut = TRUE
INVARIANTS NoDeadEnd TranslationFound WallsRespected ZonesRespected IdIdentifiesCoverage
