CONSTANTS
  n1 = n1
  n2 = n2
  k1 = k1
  Node = {n1, n2}
  Lead = {n1, n2}
  Item = {1, 2}
  Start = {}
  ChunkSize = 1
  Slot = {k1}
  Vouch = 1
  DoneCap = 8
  Lossy = TRUE
  MaxCrashes = 0
SPECIFICATION FairSpec
PROPERTY LaggardCatchesUp
