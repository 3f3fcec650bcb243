CONSTANTS
    Symbols <- OptionIds
    Inputs <- AllInputs
    Stride = 2
    SizeMax = 100
SPECIFICATION Spec
INVARIANTS
    WinnerIsRight
    OwnersOnly
    SelectionIsRight
CHECK_DEADLOCK FALSE
