SPECIFICATION Spec
CONSTANTS
    Start = 1
    End = 17
    HDR = 3
    Sizes = {0, 1, 3}
INVARIANTS
    Whole
PROPERTIES
    ImplementsHeap
