CONSTANTS
  p1 = p1
  p2 = p2
  NoPage = NoPage
  Pages <- TwoPages
  FilePages <- OneFile
  Preempt = FALSE
  MaxDrift = 1
SPECIFICATION Spec
INVARIANTS FlagsSound NothingUncounted
CHECK_DEADLOCK FALSE
