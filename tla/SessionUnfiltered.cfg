SPECIFICATION Spec
CONSTANTS
    Queries <- UnfilteredQueries
    Known <- MCKnown
    SingleCards <- MCSingleCards
    EnableStarSplit = FALSE
    MaxStarSize = 3
    MaxQueries = 3
INVARIANT UnfilteredAnswered
