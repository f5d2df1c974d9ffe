SPECIFICATION FairSpec
CONSTANTS
    a = a
    b = b
    s = s
    t1 = t1
    t2 = t2
    none = none
    Arr = {a, b}
    Scal = {}
    Value = {0}
    InitValue = 0
    Task = {t1}
    InitTask = t1
    War <- live_War
    NoVar = none
    NoTask = none
    MaxBoots = 2
    GbufSize = 2
PROPERTIES
    CommitEnds
