CONSTANTS
    Inputs <- AllInputs
    Width = 4
    ValidIds <- Valid
    ProjectIds <- InProject
    CategoryDepth <- Depths
    OutputNames <- GoodOutputs
SPECIFICATION ResolveSpec
INVARIANTS
    LoadIsFinal
    ResolvedIsRight
    VerdictIsGenuine
    GraphVerdict
CHECK_DEADLOCK FALSE
