SPECIFICATION FairSpec
CONSTANTS
    MAX_LEN = 8
    nr_of_separations = 3
    MaxLines = 0
    Texts <- MCTexts
    Dirty = FALSE
    None = None
PROPERTY ConfirmationAnswered
CHECK_DEADLOCK FALSE
