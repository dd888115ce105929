SPECIFICATION FairSpec
CONSTANTS
    b1 = b1
    b2 = b2
    Bucket = {b1, b2}
    CreatedAt <- MCCreatedAt
    Client = {c1}
    Syncer = {s1}
    Main = main
    Row = {r1}
    File = {f1, f2, f3, f4}
    Torn = Torn
    Marred = Marred
    NoFile = NoFile
    Unused = Unused
    MaxFaults = 2
    MaxRestarts = 1
    MaxOps = 0
CHECK_DEADLOCK FALSE
PROPERTY EveryBucketIsRepaired
