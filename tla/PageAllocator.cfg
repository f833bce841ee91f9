SPECIFICATION BootedSpec
CONSTANTS
    c1 = c1
    c2 = c2
    k1 = k1
    k2 = k2
    CPUs <- OneCPU
    Tasks <- OneTask
    NPages = 6
    MaxOrder = 3
    PageblockOrder = 2
    Batch = 1
    High = 2
    AllocTypes <- TwoTypes
    MaxReserve = 1
    Isolation = TRUE
    Linkable <- Page1
    LinkTails = FALSE
    NNodes = 2
    NZones = 3
    MaxZonePfn <- Limits
    Highmem = {1}
    MaxRegions = 3
    ULong = 1000
    MapPages = 6
    DmaReserve = 1
    MaxLowPfn = 8
    Edges = {0, 6, 8, 11, 16}
    Cores = {0, 5}
    MinFrees = {3}
    Ratios = {0, 2}
INVARIANTS
    FreeListsSound
    EachPageOnce
    FreeIsUnlinked
    
CHECK_DEADLOCK FALSE
