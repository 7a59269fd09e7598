SPECIFICATION Spec
CONSTANTS
  Nodes = {n1, n2, n3}
  Main = main
  Updaters = {u, v}
  Others = {}
  Lasting = {}
  FreerSets = {{u, v}}
  AmortFree = 2
  NbKeys = 3
  MaxIter = 1
  NULL = NULL
PROPERTIES PoolSpec
CHECK_DEADLOCK FALSE
