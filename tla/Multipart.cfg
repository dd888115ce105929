SPECIFICATION Spec
CONSTANTS
    Bucket = {b1}
    ThisBucket = b1
    Client = {c1, c2}
    Key = {k1}
    Upload = {u1}
    MaxParts = 2
    Content = {x1, x2}
    NoPart = NoPart
    NoObject = NoObject
    MaxOps = 4
    MaxSweeps = 1
SYMMETRY Symmetry
INVARIANTS
    TypeOK
    ObjectIsWhole
    PartsHaveUpload
PROPERTY OrphanPartsAreGone
