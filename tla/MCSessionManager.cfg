\* Two sessions that want the same block, which arrives twice, and one event.
SPECIFICATION Spec
CONSTANTS
  Sids = {"s1", "s2"}
  Cids = {"c"}
  Calls = {"r1", "r2"}
  SessionOf <- SessionFor
  KeyOf <- OneKey
  Known = {"s2"}
  MaxEvents = 2
INVARIANTS
  OpenCallsWanted
  
\* With no calls and blocks left, the client is idle.
CHECK_DEADLOCK FALSE
PROPERTIES
  OpenCallsAskedAgain
  CloseEnds
