SPECIFICATION Spec
CONSTANTS
    b1 = b1
    b2 = b2
    Bucket = {b1}
    CreatedAt <- MCCreatedAt
    Client = {c1, c2}
    Syncer = {s1}
    Main = main
    Row = {r1, r2}
    File = {f1, f2, f3}
    Torn = Torn
    Marred = Marred
    NoFile = NoFile
    Unused = Unused
    MaxFaults = 2
    MaxRestarts = 1
    MaxOps = 2
CHECK_DEADLOCK FALSE
SYMMETRY Symmetry
INVARIANTS
    TypeOK
    AckedIsKept
PROPERTY DamageIsContained
