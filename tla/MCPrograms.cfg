SPECIFICATION ProgramsSpec
CONSTANTS
    SEED = 4
    ITER = 100
    NUM_LETTERS = 256
    DICT_SIZE = 512
    BLOCK_SIZE = 64
    GOLDEN_BUCKETS = 128
    GOLDEN_INSERTS = 32
    GOLDEN_RELOCATIONS = 8
    NUM_BUCKETS = 32
    NUM_INSERTS = 28
    MAX_RELOCATIONS = 2
    MODEL_SIZE = 16
    SAMPLES_TO_COLLECT = 128
    Uninitialized = {0, 2, 32}
    Program = {"ar", "bc", "blowfish", "cem", "cuckoo", "rsa", "rsa_lower"}
INVARIANTS
    GoldenResult
    GoldenOnDino
    SegmentsAreAtomic
    DictionaryIsForest
    LogTellsDictionary
    ResultIsReduced
    SquaresBase
    TasksTypeOK
    OccupiedIsInserted
    NoKeyLost
    NoFalseNegatives
PROPERTIES
    ProgramsEnd
    ChainAsAlpaca
CHECK_DEADLOCK FALSE
