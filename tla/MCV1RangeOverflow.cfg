CONSTANTS
    Inputs <- AllInputs
    Width = 4
    ValidIds <- Valid
    ProjectIds <- InProject
    CategoryDepth <- Depths
    OutputNames <- GoodOutputs
SPECIFICATION ResolveSpec
INVARIANTS
    RangeIsKept
CHECK_DEADLOCK FALSE
