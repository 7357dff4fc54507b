\* One peer that may answer too late, one call, and one event at any point,
\* which may be a call for a second key; the peer has the first block only.
SPECIFICATION Spec
CONSTANTS
  p1 = p1  p2 = p2  c1 = c1  c2 = c2  r1 = r1  r2 = r2  None = None
  Peers = {p1}
  Cids = {c1, c2}
  Calls = {r1, r2}
  Extra = {r2}
  KeyOf <- TwoKeys
  Holders <- FirstHeld
  Known = {p1}
  Slow = {c1}
  MaxEvents = 1
  ChangesBufferSize = 2
  IncomingSize = 1
  PeerDontHaveLimit = 1
  BroadcastLimit = 1
INVARIANTS
  SessionPeersAgree
  OpenCallsWanted
  IdleWantsHopeless
  WaitCanEnd
  WantedIsPursued
  OpenCallsAsked
\* A session that was shut down does nothing more.
CHECK_DEADLOCK FALSE
