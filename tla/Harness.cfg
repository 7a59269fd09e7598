SPECIFICATION FairSpec
CONSTANTS
  MaxThreads = 4
  MaxUpdaters = 4
  NB_TEST = 1
  ITERATION = 2
  MaxOps = 2
INVARIANTS IInv UpdatersOutlastReaders StartTogether NoStragglers
PROPERTIES Terminates
CHECK_DEADLOCK FALSE
