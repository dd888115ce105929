SPECIFICATION Spec
CONSTANTS
    b1 = b1
    b2 = b2
    Bucket = {b1}
    CreatedAt <- MCCreatedAt
    Client = {c1}
    Syncer = {s1}
    Main = main
    Row = {r1, r2}
    File = {f1, f2}
    Torn = Torn
    Marred = Marred
    NoFile = NoFile
    Unused = Unused
    MaxFaults = 1
    MaxRestarts = 1
    MaxOps = 2
CHECK_DEADLOCK FALSE
INVARIANT FreshDaemonKeepsRows
