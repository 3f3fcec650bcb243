SPECIFICATION Spec
CONSTANTS
    Schemas <- MCSchemas
    Disks <- MCDisks
    Changes <- MCChanges
    MaxChanges = 0
    MaxSaves = 1
    Target = "(null)"
    Texts <- MCTexts
    Typed <- MCTyped
    Tags <- MCTags
    Categories <- MCCategories
    PageStep = 2
PROPERTIES
    SavedEverywhere
CHECK_DEADLOCK FALSE
