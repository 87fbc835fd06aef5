SPECIFICATION FairSpec
CONSTANTS
    Queries <- MixedQueries
    Known <- MCKnown
    SingleCards <- MCSingleCards
    EnableStarSplit = FALSE
    MaxStarSize = 3
    MaxQueries = 3
INVARIANT TypeOK
INVARIANT StarsExact
INVARIANT NothingStale
INVARIANT OneSession
INVARIANT PreparedOnlyAfterFailure
PROPERTY QueryEnds
