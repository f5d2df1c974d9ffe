\* One global, up to two words of stack, and one place that takes checkpoints.
SPECIFICATION Spec
CONSTANTS
    RamSize = 8
    GlobalSize = 1
    Value = {0, 1}
    Pc = {5}
    StartPc = 9
    Magic = 7
    NoBundle = none
INVARIANTS
    TypeOK
    BundlesApart
PROPERTIES
    ResumesFromCheckpoint
    StuckPathIsStuck
