\* Two peers share the change queue; two listeners make the worker call out
\* twice, the first of them keeps the queues.
CONSTANTS
  p1 = p1
  p2 = p2
  Peers = {p1, p2}
  NumListeners = 2
  MaxRetries = 2
  Sending = {p1}
SPECIFICATION LSpec
INVARIANTS
  EventsAlternate
  DisconnectedIffUnlinked
  SettledViewsAgree
  QueueForResponsive
PROPERTIES
  ImplementsPeerEvents
  DeadQueueRemoved
