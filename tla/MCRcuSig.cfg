CONSTANTS
  NR_THREADS = 3
  Readers = {0, 1}
  Updaters = {1, 2}
  MaxNest = 2
  MaxGP = 2
  MaxStores = 2
  MaxClock = 8
SPECIFICATION Spec
INVARIANT SectionsExited
CHECK_DEADLOCK FALSE
