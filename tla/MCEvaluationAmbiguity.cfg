CONSTANTS
    NodeCount = 3
    Graphs <- NoGraphs
    Projects <- AmbiguityProjects
SPECIFICATION EvalSpec
PROPERTIES
    AmbiguityIsReal
CHECK_DEADLOCK FALSE
