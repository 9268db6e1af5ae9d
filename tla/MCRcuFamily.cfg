CONSTANTS
  NR_THREADS = 3
  Readers = {0, 1}
  Updaters = {1, 2}
  MaxNest = 2
  MaxGP = 2
  MaxStores = 2
  MaxClock = 6
  Ticks = {2}
SPECIFICATION Spec
PROPERTIES ImplementsGracePeriod WaitEnds
CHECK_DEADLOCK FALSE
