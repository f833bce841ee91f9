SPECIFICATION Spec
CONSTANTS
    t1 = t1
    t2 = t2
    p1 = p1
    p2 = p2
    p3 = p3
    Tasks <- TwoTasks
    Pages <- TwoPages
    Capacity = 1
    MaxRange = 2
    SMP = FALSE
    NoPage = NoPage
    NoChain = NoChain
SYMMETRY Symmetry
INVARIANTS
    CollectionSound
    MembershipAgrees
    NrLinksExact
    AnchorAndDelegateLinked
    RefCounterCovers
    LinkedAllocated
PROPERTIES
    AccessProtectsChain
    
