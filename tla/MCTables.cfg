CONSTANTS
  NR_THREADS = 2
  Objects = {o1, o2}
  Keys = {0, 1}
  NBUCKETS = 2
  NULL = NULL
  JUNK = JUNK
  MaxSeq = 6
  SL_MAX_LEVELS = 2
  HEAD = HEAD
  OneOwner = TRUE
  Lowering = FALSE
  MaxSlSeq = 4
  Groups = {11, 12}
  MaxCalls = 2
SPECIFICATION Spec
SYMMETRY Symmetry
INVARIANTS UsedNotFreed LookupAnswers NoLeak StructureIntact
PROPERTY MoveAtomic
