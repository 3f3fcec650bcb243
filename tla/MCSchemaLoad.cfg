CONSTANTS
    File <- SomeFiles
    Path <- SomePaths
    Canonical <- SomeCanonical
    MaxDepth = 2
    Inputs <- AllInputs
SPECIFICATION FairSpec
INVARIANTS
    LoadInvariant
    VerdictIsRight
    LoadIsOrdered
    ErrorIsGenuine
CHECK_DEADLOCK FALSE
