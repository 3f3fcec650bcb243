CONSTANTS
    Projects <- AllProjects
SPECIFICATION FairCompileSpec
INVARIANTS
    WalkIsRight
    ExpressionsFound
    VerdictIsExact
    GraphsAreComplete
CHECK_DEADLOCK FALSE
