SPECIFICATION FairSpec
CONSTANTS
    Request = {r1, r2}
    Counting = {r1, r2}
    Syncer = {s1}
    Main = main
    Id = {b1, b2, b3}
    Entry = {e1, e2, e3, e4, e5}
    NoEntry = NoEntry
    NoId = NoId
    Cap = 1
ACTION_CONSTRAINT InOrder
CHECK_DEADLOCK FALSE
INVARIANTS
    TypeOK
    NoUseAfterClose
    CachedIsUncontended
    OvershootBounded
PROPERTY EvictionEnds
