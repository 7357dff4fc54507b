\* Two peers and two keys: a key wanted from one peer, from both, and from all
\* by broadcast; a cancel of one key or of both.
CONSTANTS
  p1 = p1
  p2 = p2
  c1 = c1
  c2 = c2
  s1 = s1
  Peers = {p1, p2}
  Cids = {c1, c2}
  Sessions = {s1}
  CancelLists <- DistinctLists
SPECIFICATION Spec
SYMMETRY Symmetry
INVARIANTS
  IndexExact
  GaugesExact
  SignalsFollowConnections
PROPERTIES
  ImplementsWantLedger
