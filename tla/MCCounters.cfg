CONSTANTS
  NR_THREADS = 2
  WORD = 32
  globalcountmax = 5
  MAX_COUNTERMAX = 3
  CM_BITS = 2
  num_online_threads = 2
  Deltas = {1, 4}
  MaxIncs = 2
SPECIFICATION Spec
INVARIANTS ReserveCoversCountermax NoTheftDuringUpdate ReadBetween FinalReadExact ReadsNothingFreed
PROPERTIES ImplementsLimitCounter FlushEnds
