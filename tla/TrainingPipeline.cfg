\* One sentence pair of three source and three target words.
SPECIFICATION PipelineSpec
CONSTANTS
    M = 3
    N = 3
    CountF = 3
    CountE = 3
    Options <- AllOptions
    ExtractOptions <- OneToThreeModels
INVARIANTS ExtractedExactly ModelsAgree HierSeesAnyLength
PROPERTIES ImplementsGrowing PipelineEnds
\* The two programs end when the phrase pairs are written.
CHECK_DEADLOCK FALSE
