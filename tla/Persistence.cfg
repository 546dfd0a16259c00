SPECIFICATION Spec
CONSTANTS
    MaxWork = 2
    MaxRuns = 2
    MaxFill = 1
INVARIANTS
    DoneIsDurable
    NeverMisapplied
PROPERTIES
    FilesAtomic
    OrderlyStopKeeps
