CONSTANTS
  NR_THREADS = 2
  Readers = {0}
  K = 2
  R = 1
  Objects = {1, 2}
  INT_MAX = 3
  NULL = NULL
  POISON = POISON
  Addrs = {a1, a2}
  Keys = {0, 1}
  HashMod = 2
  NBUCKETS = 1
SPECIFICATION Spec
INVARIANTS ValidatedNotFreed AllocatedIsReachable
PROPERTIES PresentKeyFound ExitFrees
