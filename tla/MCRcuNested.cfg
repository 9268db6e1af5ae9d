CONSTANTS
  NR_THREADS = 3
  FewThreads = 2
  Readers = {0, 1}
  Updaters = {1, 2}
  MaxNest = 2
  MaxIdx = 6
  WORD = 16
  RCU_GP_CTR_BOTTOM_BIT = 4
  MAX_GP_ADV_DISTANCE = 6
SPECIFICATION Spec
INVARIANT AnnouncedWhileInside
PROPERTIES ImplementsGracePeriod FlipsEnd RetryEnds
