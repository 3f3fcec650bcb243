CONSTANTS
    p1 = p1
    p2 = p2
    t1 = t1
    t2 = t2
    Absent = Absent
    Hole = Hole
    Process <- TwoProcesses
    Text <- Texts
    Inode <- Inodes
    MaxCalls = 2
SPECIFICATION Spec
INVARIANTS
    FileIsWhole
CHECK_DEADLOCK FALSE
