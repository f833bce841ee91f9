CONSTANTS
  init = init
  a = a
  b = b
  c1 = c1
  c2 = c2
  c3 = c3
  NoColl = NoColl
  NoTask = NoTask
  Tasks <- ThreeTasks
  Colls <- ThreeColls
  Capacity = 4
  Unroll = 2
  Preempt = FALSE
  Vfork = FALSE
SPECIFICATION Spec
SYMMETRY Symmetry
INVARIANTS OwnedByOne  FirstFreeSlot
