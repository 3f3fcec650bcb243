SPECIFICATION Spec
CONSTANTS
    Procs <- MCProcs
    Jobs <- MCJobs
    MaxJobs <- MCMaxJobs
    Names <- MCNames
    Ids <- MCIds
    Requires <- MCRequires
    Outputs <- MCOutputs
    Defaults <- MCDefaults
    Trees <- MCTrees
    Versions <- MCVersions
CHECK_DEADLOCK FALSE
INVARIANTS
    SavedAsAsked
    SavedProfileResolves
    GenIsConsistent
PROPERTIES
    UnforcedKeeps
