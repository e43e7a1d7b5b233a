CONSTANTS
  k1 = k1
  k2 = k2
  k3 = k3
  Key = {k1, k2, k3}
  Writes <- SomeWrites
  Canon <- TwoAnchors
  Task = {1, 2}
  MaxStart = 4
  MaxBoot = 2
  Event <- SomeEvents
  MaxAttempts = 2
  MaxEnqueue = 2
  MaxCrash = 2
  MaxLog = 5
  Data = {1, 2, 3}
  Anonymous = {2}
  Impossible = {3}
  Code = {1, 2, 6}
  MaxNonce = 7
  MinedMax = 2
SPECIFICATION Spec
INVARIANTS
  RootIsPromise
  TrieSound
  NothingLost
  AcceptedIsContent
  PlacementVerifies
  ProofsSound
  DecodeSound
CHECK_DEADLOCK FALSE
