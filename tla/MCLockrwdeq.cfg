CONSTANTS
  Threads = {t1, t2}
  FewThreads = {t1, t2}
  Elems = {e1, e2, e3, e4, e5}
  FewElems = {e1}
  NULL = NULL
  HEAD = HEAD
  OneThreadPerEnd = FALSE
  MAIN = MAIN
  PDEQ_N_BKTS = 2
  DEQ_N_BKTS = 4
  TARGET_POOL_SIZE = 1
  GLOBAL_POOL_SIZE = 1
  RUNLENGTH = 1
SPECIFICATION Spec
INVARIANTS PoppedOnce
