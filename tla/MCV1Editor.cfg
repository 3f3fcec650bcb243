SPECIFICATION Spec
CONSTANTS
    Schemas <- MCSchemas
    Disks <- MCDisks
    Changes <- MCChanges
    MaxChanges = 1
    MaxSaves = 2
    Target = "(null)"
    Texts <- MCTexts
    Typed <- MCTyped
    Tags <- MCTags
    Categories <- MCCategories
    PageStep = 2
INVARIANTS
    EditsResolve
    UnsavedIsDirty
    ViewIsCurrent
    NextReaches
PROPERTIES
    SaveKeepsScreen
\* A closed session does nothing more.
CHECK_DEADLOCK FALSE
