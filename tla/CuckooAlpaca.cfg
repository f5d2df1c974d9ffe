\* A filter so small that insertions find both buckets taken, relocate, and fail.
SPECIFICATION CuckooSpec
CONSTANTS
    NUM_BUCKETS = 4
    NUM_INSERTS = 6
    MAX_RELOCATIONS = 2
    Arr <- Filter
    Scal <- Scalars
    Value <- Word
    InitValue = 0
    Task <- CuckooTask
    InitTask = 0
    War <- CuckooWar
    NoVar = none
    NoTask = none
    MaxBoots = 2
    GbufSize = 7
INVARIANTS
    FinalCounts
PROPERTIES
    RunsAsTasks
CHECK_DEADLOCK FALSE
