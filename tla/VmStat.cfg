SPECIFICATION FairSpec
CONSTANTS
    Cpus = {c1, c2}
    Zones = {z}
    Tasks = {t}
    Half = 4
    MaxThreshold = 2
    SizeClass <- ByZone0
    Distance <- ByZone3
    Removable = {c2}
    Deltas <- Two
    Calls <- CallsOf
    Lo = 0
    Hi = 2
    MaxWorks = 1
INVARIANTS
    Accounted
    
PROPERTIES
    EventuallyExact
CHECK_DEADLOCK FALSE
