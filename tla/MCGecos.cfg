SPECIFICATION Spec
CONSTANTS
  Nodes = {n1, n2, n3}
  Keys = {0, 1, 3}
  NbBuckets = 2
  Writers = {w1}
  Readers = {r1}
  OneWriter = TRUE
  NULL = NULL
  Builds = {"GECOS", "GECOS_R"}
  MaxGc = 2
SYMMETRY NodeSymmetry
INVARIANTS TypeOK ListWellFormed OneRole GenerationProtects CheckCcrt
PROPERTIES SetSpec
