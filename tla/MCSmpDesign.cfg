CONSTANTS
  Threads = {t1, t2, t3}
  FewThreads = {t1, t2}
  Elems = {e1, e2, e3, e4, e5}
  FewElems = {e1, e2, e3}
  NULL = NULL
  HEAD = HEAD
  OneThreadPerEnd = TRUE
  MAIN = MAIN
  PDEQ_N_BKTS = 2
  DEQ_N_BKTS = 4
  TARGET_POOL_SIZE = 1
  GLOBAL_POOL_SIZE = 6
  RUNLENGTH = 3
SPECIFICATION Spec
INVARIANTS EndsApart BlocksConserved
PROPERTIES ImplementsDeque OperationsReturn
