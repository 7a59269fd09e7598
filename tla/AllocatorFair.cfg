SPECIFICATION FairSpec
CONSTANTS
  Nodes = {n1, n2, n3, n4}
  Main = main
  Updaters = {u}
  Others = {c}
  Lasting = {c}
  FreerSets = {{u}, {c}}
  AmortFree = 2
  NbKeys = 1
  MaxIter = 2
  NULL = NULL
PROPERTIES CallsReturn
CHECK_DEADLOCK FALSE
