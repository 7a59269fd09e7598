SPECIFICATION FairSpec
CONSTANTS
  Nodes = {n1, n2, n3}
  Keys = {0, 1}
  NbBuckets = 1
  Writers = {w}
  Readers = {r}
  OneWriter = TRUE
  NULL = NULL
INVARIANTS IInv CountsExact CountedNotFreed
PROPERTIES SetSpec Reclaimed
