SPECIFICATION Spec
CONSTANTS
    u1 = u1
    u2 = u2
    v1 = v1
    v2 = v2
    db = db
    file = file
    c1 = c1
    c2 = c2
    Call = {u1, u2, v1, v2}
    Name = {db, file}
    Atomic = {db}
    Content = {c1, c2}
    NameOf <- Databases
    ContentOf <- Contents
    SizeOf <- EqualSizes
    Absent = Absent
    Partial = Partial
    Retries = 2
CHECK_DEADLOCK FALSE
INVARIANTS
    TypeOK
    AnsweredIsWhole
PROPERTIES
    ImplementsReplacement
