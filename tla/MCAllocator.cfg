SPECIFICATION ZombieSpec
CONSTANTS
  Nodes = {n1, n2, n3, n4, n5}
  Main = main
  Updaters = {u}
  Others = {c, r}
  Lasting = {c}
  FreerSets = {{u}, {c}, {u, r}}
  AmortFree = 2
  NbKeys = 2
  MaxIter = 2
  NULL = NULL
  R = 1
  WithHP = {FALSE, TRUE}
SYMMETRY NodeSymmetry
INVARIANTS ZombieInv ScanEnds
PROPERTIES PoolSpec FreesOffLists
CHECK_DEADLOCK FALSE
