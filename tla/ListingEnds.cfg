SPECIFICATION FairSpec
CONSTANTS
    Key <- MCKey
    Folder <- MCFolder
    Moves <- MCMoves
    Fold <- MCFold
    PageSizes = {1, 2}
    Other = Other
    MaxWrites = 1
CHECK_DEADLOCK FALSE
PROPERTY ListingEnds
