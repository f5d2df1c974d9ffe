SPECIFICATION Spec
CONSTANTS
    t0 = t0
    t1 = t1
    t2 = t2
    s = s
    x = x
    null = null
    Task = {t0, t1, t2}
    InitTask = t0
    Field = {s, x}
    SelfField = {s}
    Writer <- const_Writer
    SyncLists <- const_SyncLists
    Value = {1}
    NoField = null
    NoValue = null
    MaxDirty = 3
    MaxTime = 3
    MaxOuts = 1
    MaxTransitions = 3
    MaxAborts = 4
INVARIANTS
    DirtyListFits
CHECK_DEADLOCK FALSE
