SPECIFICATION Spec
CONSTANTS
    t1 = t1
    t2 = t2
    p1 = p1
    p2 = p2
    p3 = p3
    Tasks <- OneTask
    Pages <- TwoPages
    Capacity = 2
    MaxRange = 1
    SMP = TRUE
    NoPage = NoPage
    NoChain = NoChain
INVARIANTS
    NoOops
CHECK_DEADLOCK FALSE
