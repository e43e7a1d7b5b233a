CONSTANTS
  n1 = n1
  n2 = n2
  n3 = n3
  k1 = k1
  Node = {n1, n2, n3}
  Lead = {n1, n2, n3}
  Item = {1, 2, 3}
  Start = {2}
  ChunkSize = 2
  Slot = {k1}
  Vouch = 1
  DoneCap = 8
  Lossy = FALSE
  MaxCrashes = 0
SPECIFICATION Spec
SYMMETRY Symmetry
INVARIANTS
  QuorumBacked
  NoForkIfOneVote
