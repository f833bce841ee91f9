CONSTANTS
  init = init
  a = a
  b = b
  c = c
  none = none
  Tasks = {init, a, b, c}
  first = a
  Ignoring = {b}
  Kinds <- Calls
  Opts <- Waits
  Unshares <- ByC
  MaxThreads = 4
  Fails = {0, 1, 2, 3, 4, 5, 6, 7}
SPECIFICATION FairSpec
INVARIANTS BurialSound SharedCounted NoMissedChild OwnerUsesMm
PROPERTIES ZombiesBuried GroupExitKept
