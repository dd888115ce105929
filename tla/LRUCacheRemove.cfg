SPECIFICATION RemoveSpec
CONSTANTS
    Request = {r1, r2}
    Counting = {}
    Syncer = {s1}
    Main = main
    Id = {b1, b2}
    Entry = {e1, e2, e3}
    NoEntry = NoEntry
    NoId = NoId
    Cap = 1
CHECK_DEADLOCK FALSE
PROPERTY RemoveClosesBucket
