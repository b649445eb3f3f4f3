SPECIFICATION FairSpec
CONSTANTS
    MAX_LEN = 8
    nr_of_separations = 3
    MaxLines = 2
    Texts <- MCTexts
    Dirty = TRUE
    None = None
INVARIANTS
    TypeOK
    ShownIsReal
    AloneIsShown
PROPERTIES
    ImplementsClients
    LoopsEnd
CHECK_DEADLOCK FALSE
