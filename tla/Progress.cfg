CONSTANTS
  p = p
  q = q
  Node = {p, q}
  Cube = {1, 2}
  Block = {1, 2}
  Members <- SameNumber
  Held0 <- AllAtFirst
  Unnamed = {1}
  Corrupt = {}
  MaxInFlight = 1
  MaxAttempts = 2
  MaxLoss = 1
  MaxRestart = 1
  MaxVersion = 3
  StaleAfter = 2
  Dirty = {3}
  MaxHands = 2
  MaxCached = 2
SPECIFICATION Spec
 
PROPERTIES
  Converges
  CatchesUp
CHECK_DEADLOCK FALSE
