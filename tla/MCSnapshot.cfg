CONSTANTS
    NodeCount = 3
    Graphs <- NoGraphs
    Projects <- ResolveProjects
    MaxEdits = 2
SPECIFICATION SnapSpec
INVARIANTS
    SearchInvariant
    CycleGenuine
    EvaluationIsRight
    SnapshotIsFull
PROPERTIES
    EditsAreExplained
    ResolveEnds
CHECK_DEADLOCK FALSE
