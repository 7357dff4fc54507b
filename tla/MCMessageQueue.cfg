\* Two keys and messages of one entry, so that most are cut short: the races
\* between the callers and a message being put together.
CONSTANTS
  c1 = c1
  c2 = c2
  Cids = {c1, c2}
  maxMessageSize = 1
SPECIFICATION Spec
CONSTRAINT UntilShutdown
SYMMETRY Symmetry
INVARIANTS
  QueueTracksWants
  DrainNeverBlocks
PROPERTIES
  NoLostWakeup
