CONSTANTS
  self = self
  none = none
  u1 = u1
  p1 = p1
  p2 = p2
  t1 = t1
  t2 = t2
  Self = self
  None = none
  Peer = {p1, p2}
  Tx = {t1}
  From <- OneFrom
  Forged = {}
  Aged = {t1}
  Submitter = {p1, p2}
  Required = 2
  PeerMax = 9
  PoolMax = 9
  Churn = FALSE
  MaxSubmits = 1
  MaxCrashes = 0
SPECIFICATION FlowSpec
INVARIANTS
  MovedOnce
  GuardedTasksMapped
PROPERTY
  GuardedAttested
CHECK_DEADLOCK FALSE
