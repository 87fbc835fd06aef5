SPECIFICATION FairSpec
CONSTANTS
    Esets <- OverlappingEsets
    Value <- MCValue
    Freq <- MCFreq
    EnableStarSplit = TRUE
    MaxStarSize = 3
    CollectParallel = 3
INVARIANT TypeOK
INVARIANT NoDataRace
INVARIANT ExactlyOnce
INVARIANT ExactCard
INVARIANT StarsCovered
PROPERTY ClosedStaysClosed
PROPERTY CollectionEnds
PROPERTY CollectsSequentially
