SPECIFICATION Spec
CONSTANTS
    Queries <- FailingQueries
    Known <- SparseKnown
    SingleCards <- MCSingleCards
    EnableStarSplit = TRUE
    MaxStarSize = 3
    MaxQueries = 3
INVARIANT NeverPreparedTwice
