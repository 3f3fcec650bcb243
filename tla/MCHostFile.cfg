CONSTANTS
    p1 = p1
    p2 = p2
    t1 = t1
    t2 = t2
    Absent = Absent
    Hole = Hole
    Process <- OneProcess
    Text <- Texts
    Inode <- Inodes
    MaxCalls = 4
SPECIFICATION Spec
INVARIANTS
    FileIsWhole
PROPERTIES
    ResultIsTrue
    Refinement
CHECK_DEADLOCK FALSE
