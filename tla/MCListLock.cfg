SPECIFICATION FairSpec
CONSTANTS
  w1 = w1
  w2 = w2
  r1 = r1
  r2 = r2
  Nodes = {n1, n2}
  Keys = {0, 1}
  NbBuckets = 1
  Writers = {w1, w2}
  Readers = {r1, r2}
  OneWriter = FALSE
  NULL = NULL
  Crews <- MCCrews
  MaxGen = 3
INVARIANTS IInv LockProtects CounterProtects GraceProtects
PROPERTIES SetSpec LocksReleased GraceEnds
