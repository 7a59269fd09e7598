SPECIFICATION Spec
CONSTANTS
  Nodes = {n1, n2, n3}
  Keys = {0, 1}
  NbBuckets = 1
  Writers = {w}
  Readers = {r}
  OneWriter = TRUE
  NULL = NULL
  R = 0
  Barriers = {"sfence"}
  Fences = {"full"}
  MaxBuffer = 1
INVARIANT HeadProtects
