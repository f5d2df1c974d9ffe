SPECIFICATION Spec
CONSTANTS
    NUM_BUCKETS = 32
    NUM_INSERTS = 16
    MAX_RELOCATIONS = 8
INVARIANTS
    NoFalseNegatives
CHECK_DEADLOCK FALSE
