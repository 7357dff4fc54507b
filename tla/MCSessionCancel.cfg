\* Two calls for one key, one of which may be cancelled.
SPECIFICATION Spec
CONSTANTS
  p1 = p1  p2 = p2  c1 = c1  c2 = c2  r1 = r1  r2 = r2  None = None
  Peers = {p1}
  Cids = {c1}
  Calls = {r1, r2}
  Extra = {}
  KeyOf <- OneKey
  Holders <- HeldByAll
  Known = {}
  Slow = {c1}
  MaxEvents = 1
  ChangesBufferSize = 2
  IncomingSize = 1
  PeerDontHaveLimit = 1
  BroadcastLimit = 1
INVARIANTS
  OpenCallsWanted
\* A session that was shut down does nothing more.
CHECK_DEADLOCK FALSE
