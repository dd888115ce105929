SPECIFICATION Spec
CONSTANTS
    Key <- LimitKey
    Folder <- MCFolder
    Moves <- LimitMoves
    Fold <- MCFold
    PageSizes = {1, 2}
    Other = Other
    MaxWrites = 0
CHECK_DEADLOCK FALSE
INVARIANTS
    ObjectsAreListedOnce
    FoldersAreListed
    OnlyFolderIsDeleted
    RenameToItselfKeepsObject
