\* Two peers that have the block, and channels that are soon full.
SPECIFICATION FairSpec
CONSTANTS
  p1 = p1  p2 = p2  c1 = c1  c2 = c2  r1 = r1  r2 = r2  None = None
  Peers = {p1, p2}
  Cids = {c1}
  Calls = {r1}
  Extra = {}
  KeyOf <- OneKey
  Holders <- HeldByAll
  Known = {}
  Slow = {}
  MaxEvents = 0
  ChangesBufferSize = 1
  IncomingSize = 1
  PeerDontHaveLimit = 1
  BroadcastLimit = 1
PROPERTIES
  CallsReturn
