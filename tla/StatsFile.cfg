SPECIFICATION Spec
CONSTANTS
    Esets <- MCEsets
    Settings <- MCSettings
    MaxDb = 1
INVARIANT TypeOK
INVARIANT ServesWholeCollection
INVARIANT StarsAnswered
INVARIANT NextStartServesTheSame
PROPERTY OnlyRefreshReplaces
