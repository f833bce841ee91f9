CONSTANTS
  t1 = t1
  t2 = t2
  w1 = w1
  w2 = w2
  p1 = p1
  p2 = p2
  Nobody = Nobody
  NoPage = NoPage
  NoChain = NoChain
  Tasks <- TwoTasks
  Workers <- OneWorker
  Pages <- OnePage
  Overlap <- TwoOwners
SPECIFICATION Spec
INVARIANTS FaultsOnlyByTransfer NoWaitCycle
SYMMETRY Symmetry
CHECK_DEADLOCK FALSE
