CONSTANTS
  p1 = p1
  p2 = p2
  p3 = p3
  p4 = p4
  c1 = c1
  c2 = c2
  Null = Null
  Pages <- FourPages
  UserChains <- OneChain
  Size = 3
  MaxClock = 9
SPECIFICATION Spec
SYMMETRY Symmetry
INVARIANTS ListsSound
PROPERTIES EvictsOldest KeepsPromise
CHECK_DEADLOCK FALSE
