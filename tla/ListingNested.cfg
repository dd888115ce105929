SPECIFICATION Spec
CONSTANTS
    Key <- NestedKey
    Folder <- NestedFolder
    Moves <- NestedMoves
    Fold <- MCFold
    PageSizes = {1, 2}
    Other = Other
    MaxWrites = 0
CHECK_DEADLOCK FALSE
INVARIANT RenameKeepsObjects
