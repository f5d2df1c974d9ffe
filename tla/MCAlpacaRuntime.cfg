SPECIFICATION Spec
CONSTANTS
    a = a
    b = b
    s = s
    t1 = t1
    t2 = t2
    none = none
    Arr = {a, b}
    Scal = {s}
    Value = {0, 1}
    InitValue = 0
    Task = {t1, t2}
    InitTask = t1
    War <- const_War
    NoVar = none
    NoTask = none
    MaxBoots = 2
    GbufSize = 3
INVARIANTS
    TypeOK
    NoStaleStamp
    CommitListExact
    GbufFits
    CursorAtStart
PROPERTIES
    TasksAreAtomic
