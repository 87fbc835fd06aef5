SPECIFICATION Spec
CONSTANTS
    Esets <- TwoColumnEsets
    Value <- MCValue
    Freq <- MCFreq
    EnableStarSplit = FALSE
    MaxStarSize = 3
    CollectParallel = 2
INVARIANT ExactAlignment
