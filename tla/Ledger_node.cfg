SPECIFICATION LedgerSpec
CONSTANTS
  Key = {1, 2, 3}
  Anchor = {1, 2}
  Admission = {a1}
  FaceSize = 2
  CubeFaces = 1
  Kinds = {"good", "badsig", "untyped", "malformed"}
  Foreign = {{{1, 3}}}
  Feeds = {{1, 2}}
  MaxCrash = 2
  MaxRequest = 4
INVARIANTS AnchorOnce
PROPERTIES Kept EvictedNotRebuilt ImplementsLife
CHECK_DEADLOCK FALSE
