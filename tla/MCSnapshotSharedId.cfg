CONSTANTS
    NodeCount = 3
    Graphs <- NoGraphs
    Projects <- SharedIdProjects
    MaxEdits = 1
SPECIFICATION SnapSpec
PROPERTIES
    AffectedCoversChanges
CHECK_DEADLOCK FALSE
