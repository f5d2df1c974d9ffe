\* Two pages of three words with a variable at the start of each and one beside
\* that of the second; three tasks, any attempt of which may call os_jump(0) or
\* os_jump(2), and two initial ones.
SPECIFICATION Spec
CONSTANTS
    NUM_PAG = 2
    PAG_SIZE = 3
    BIGEN_ROM = 1
    Var = {1, 4, 5}
    Value = {0, 1}
    InitValue = 0
    NumTasks = 3
    NumInitTasks = 2
    Jumps = {0, 2}
INVARIANTS
    TypeOK
    InitTasksHaveRun
    SwapMissesPageStarts
    NextTaskAsAsked
PROPERTIES
    TasksAreAtomic
