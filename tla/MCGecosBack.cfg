SPECIFICATION FairSpec
CONSTANTS
  Nodes = {n1, n2}
  Keys = {0, 1}
  NbBuckets = 1
  Writers = {w1, w2}
  Readers = {r1}
  OneWriter = FALSE
  NULL = NULL
  Builds = {"GECOS_B"}
  MaxGc = 1
INVARIANTS IInv
PROPERTIES SearchLinearizable SearchReturns
