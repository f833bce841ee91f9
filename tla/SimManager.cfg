SPECIFICATION Spec
CONSTANTS
    Pages = {p1, p2, p3, p4}
    Size = 3
    Chains = {1, 2}
    Levels = {0, 1, 3}
    PIN_LEVEL = 2
    MaxClock = 5
SYMMETRY Sym
INVARIANTS
    ChainsSound
    SomethingToEvict
PROPERTIES
    EvictsByPolicy
CHECK_DEADLOCK FALSE
