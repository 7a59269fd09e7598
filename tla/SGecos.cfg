SPECIFICATION FairSpec
CONSTANTS
  Nodes = {n1, n2}
  Keys = {0, 1, 2}
  NbBuckets = 2
  Writers = {w1}
  Readers = {r1}
  OneWriter = TRUE
  NULL = NULL
  MaxGen = 2
INVARIANTS IInv BucketGenerationProtects
PROPERTIES SetSpec SearchReturns
