SPECIFICATION CompatSpec
CONSTANTS
    Inputs <- MCCaptures
    Width <- MCWidth
INVARIANTS
    ReferencesExist
