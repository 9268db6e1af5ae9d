CONSTANTS
  NR_THREADS = 3
  MaxGP = 2
SPECIFICATION FairSpec
INVARIANTS GracePeriodGuarantee IInv
PROPERTIES ImplementsGracePeriod SynchronizeReturns
