\* Channels of one key and one goroutine for three keys; one or two workers for
\* two lookups of two keys and one, one key stored; a peer, two exchanges.
CONSTANTS
  n1 = n1
  n2 = n2
  Notifiers = {n1, n2}
  Batch <- Batches
  HasBlockBufferSize = 1
  ProvideKeysBufferSize = 1
  ProvideWorkerMax = 1
  Cids = {"a", "b"}
  Stored = {"a"}
  Lookups = {"sizes", "blocks"}
  AskedFor <- KeysOf
  CtxLookups = {"blocks"}
  MaxWorkers = 2
  Partners = {"p"}
  Exchanges = {"x1", "x2"}
  MaxScore = 2
  Loads = {"provide", "lookup", "score"}
SPECIFICATION Spec
CHECK_DEADLOCK FALSE
INVARIANTS
  ProvidedInOrder
  LookupsSettled
  ScoresTagged
PROPERTIES
  AcceptedAreProvided
  CallersReturn
  CloseReturns
