SPECIFICATION CompatSpec
CONSTANTS
    Inputs <- MCInputs
    Width <- MCWidth
INVARIANTS
    SuiteIsSource
    ReportIsExplained
    DiagnosticIsFirst
