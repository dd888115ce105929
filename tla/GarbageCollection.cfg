SPECIFICATION GCSpec
CONSTANTS
    Client = {c1, c2}
    Bucket = {b1, b2}
    Key = {k1, k2}
    Hash = {h1, h2}
    MCSize = 1
    SizeOf <- EqualSizes
    Location = {l1}
    LocationOf <- OneLocation
    NoObject = NoObject
    MaxOps = 3
    MaxSweeps = 1
SYMMETRY Symmetry
INVARIANTS
    TypeOK
    NoDanglingRecord
    AckedIsDurable
    CollectionTypeOK
PROPERTIES
    OrphansAreGone
    ImplementsMap
