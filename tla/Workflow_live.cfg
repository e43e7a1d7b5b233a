CONSTANTS
  self = self
  none = none
  u1 = u1
  p1 = p1
  p2 = p2
  t1 = t1
  t2 = t2
  Self = self
  None = none
  Peer = {p1, p2}
  Tx = {t1, t2}
  From <- OneFrom
  Forged = {}
  Aged = {}
  Submitter = {p1}
  Required = 2
  PeerMax = 1
  PoolMax = 9
  Churn = FALSE
  MaxSubmits = 0
  MaxCrashes = 0
SPECIFICATION LiveSpec
PROPERTY Advances
CHECK_DEADLOCK FALSE
