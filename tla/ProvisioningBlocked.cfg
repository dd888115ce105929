SPECIFICATION StartSpec
CONSTANTS
    A = A
    x = x
    k1 = k1
    n1 = n1
    s1 = s1
    Daemon = {d1, d2}
    Request = {r1, r2}
    Server = {A}
    NoServer = NoServer
    Base = {x}
    Root = x
    Key = {k1}
    BucketName = {n1}
    NoFile = NoFile
    MaxIds = 8
    MaxOps = 0
    MaxFaults = 1
    HasFile = {d1, d2}
    Slug = {s1}
    FilePlace <- MCFilePlace
    FileKey = {k1}
    FileBucket <- MCFileBucket
CHECK_DEADLOCK FALSE
INVARIANT NeverBlocked
