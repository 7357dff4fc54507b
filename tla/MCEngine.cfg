\* One peer, one key that is large enough for HAVEs, one worker, any filter.
CONSTANTS
  k1 = k1
  p1 = p1
  w1 = w1
  Peers = {p1}
  Cids = {k1}
  Large = {k1}
  Messages <- Mixed
  Workers = {w1}
SPECIFICATION Spec
INVARIANTS
  WantsServed
  DontHaveAskedFor
  
