\* Segments of two or three bundles, each with one word of globals and at most
\* one of stack; a header written half-way shows seven words of globals.
SPECIFICATION Spec
CONSTANTS
    SegSize = 15
    Registers = 2
    StackSize = {0, 1}
    GlobalSize = 1
    TornSize = 7
    JunkSize = 11
    Blank = blank
    Zero = zero
    Magic = magic
    Data = data
    NoBundle = none
INVARIANTS
    FindsNewest
