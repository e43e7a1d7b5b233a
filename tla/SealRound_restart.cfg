CONSTANTS
  n1 = n1
  n2 = n2
  k1 = k1
  Node = {n1, n2}
  Lead = {n1, n2}
  Item = {1, 2, 3}
  Start = {}
  ChunkSize = 2
  Slot = {k1}
  Vouch = 1
  DoneCap = 8
  Lossy = FALSE
  MaxCrashes = 2
SPECIFICATION Spec
SYMMETRY Symmetry
INVARIANTS
  TypeOK
  NoReuse
PROPERTY SealedSurvivesOnceSaved
