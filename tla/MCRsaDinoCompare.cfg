SPECIFICATION Spec
CONSTANTS
    Program = {"rsa_lower"}
    SEED = 4
    ITER = 100
    NUM_LETTERS = 256
    DICT_SIZE = 512
    BLOCK_SIZE = 64
    MODEL_SIZE = 16
    SAMPLES_TO_COLLECT = 128
    NUM_BUCKETS = 128
    NUM_KEYS = 32
    MAX_RELOCATIONS = 8
INVARIANTS
    CyphertextIsGolden
CHECK_DEADLOCK FALSE
