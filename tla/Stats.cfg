SPECIFICATION FairSpec
CONSTANTS
    d1 = d1
    d2 = d2
    i1 = i1
    i2 = i2
    Daemon = {d1, d2}
    c1 = c1
    c2 = c2
    c3 = c3
    Client <- MCClient
    Id = {i1, i2, i3}
    FirstId <- MCFirstId
    Own = Own
    NoFile = NoFile
    Sizes = {1}
    Quota = 1
    MaxFaults = 1
    MaxRestarts = 1
    MaxOps = 2
CHECK_DEADLOCK FALSE
INVARIANTS
    TypeOK
    CountedOnce
    OvershootBounded
PROPERTY UsageConverges
