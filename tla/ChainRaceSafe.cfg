CONSTANTS
  t1 = t1
  t2 = t2
  w1 = w1
  w2 = w2
  p1 = p1
  p2 = p2
  Nobody = Nobody
  NoPage = NoPage
  NoChain = NoChain
  Tasks <- OneTask
  Workers <- TwoWorkers
  Pages <- TwoPages
  Overlap <- Safe
SPECIFICATION FairSpec
INVARIANTS ConsistentAtRest 
PROPERTIES Terminates
