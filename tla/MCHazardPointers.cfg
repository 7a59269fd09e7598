SPECIFICATION Spec
CONSTANTS
  Nodes = {n1, n2}
  Keys = {0, 1}
  NbBuckets = 1
  Writers = {w}
  Readers = {r}
  OneWriter = FALSE
  NULL = NULL
  R = 0
  Barriers = {"sfence", "full"}
  Fences = {"compiler", "full"}
  MaxBuffer = 1
INVARIANTS IInv HazardRespected FencedHeadProtects ZombiesBounded
PROPERTIES SoundSearches
SYMMETRY NodeSymmetry
