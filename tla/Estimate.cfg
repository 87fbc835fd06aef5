SPECIFICATION FairSpec
CONSTANTS
    Inputs <- AllInputs
    Known <- AllKeys
    SingleCards <- MCSingleCards
    UseSingleTableCard = TRUE
    EnableStarSplit = TRUE
    MaxStarSize = 3
    PredMethod = 0
INVARIANT TypeOK
INVARIANT EachRelationOnce
INVARIANT FiltersCounted
INVARIANT OutcomeAsInSession
PROPERTY EstimateEnds
