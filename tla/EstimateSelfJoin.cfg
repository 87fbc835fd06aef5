SPECIFICATION Spec
CONSTANTS
    Inputs <- SelfJoinInputs
    Known <- AllKeys
    SingleCards <- MCSingleCards
    UseSingleTableCard = FALSE
    EnableStarSplit = FALSE
    MaxStarSize = 3
    PredMethod = 0
INVARIANT NoRelationLost
