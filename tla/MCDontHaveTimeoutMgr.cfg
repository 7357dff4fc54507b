\* Latencies from nothing to more than the timeouts allow for.
CONSTANTS
  k1 = k1
  k2 = k2
  Keys = {k1, k2}
  defaultTimeout = 3
  maxTimeout = 4
  maxExpectedWantProcessTime = 1
  pingLatencyMultiplier = 2
  messageLatencyMultiplier = 2
  MaxLatency = 3
  MaxQueue = 4
SPECIFICATION TSpec
SYMMETRY Symmetry
CONSTRAINT UntilShutdown
INVARIANTS
  QueueMatchesMap
  NoneOverdue
