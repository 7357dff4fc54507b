CONSTANTS
  k1 = k1
  c1 = c1
  c2 = c2
  c3 = c3
  p1 = p1
  w1 = w1
  w2 = w2
  None = None
  Cids = {k1}
  Clients = {c1, c2, c3}
  Providers = {p1}
  Workers = {w1, w2}
  Key <- SameKey
  MaxQueue = 1
SPECIFICATION Spec
INVARIANTS
  ListenersHaveQuery
  ListenersCatchUp
PROPERTIES
  CallsEnd
\* The manager may have been stopped, and every call have ended.
CHECK_DEADLOCK FALSE
