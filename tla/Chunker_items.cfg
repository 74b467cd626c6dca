SPECIFICATION FairSpec
CONSTANTS
    Kinds = {"w", "e", "_"}
    Blank = "_"
    Documents <- MCDocuments
    Size = 4
    Overlap = 1
    MinChars = 4
    MaxTokens = 2
    Tokens <- MCTokens
INVARIANTS
    Fits
    IdsDistinct
    NothingLost
    ShortOnlyIfForced
PROPERTIES
    Ends
CHECK_DEADLOCK FALSE
