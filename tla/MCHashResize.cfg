CONSTANTS
  NR_THREADS = 2
  Elems = {0, 1}
  Nbuckets0 = 2
  Nbuckets1 = 1
  MaxResize = 2
  Shared = FALSE
SPECIFICATION FairSpec
INVARIANTS LookupCorrect InstanceIntact
PROPERTY ResizeEnds
