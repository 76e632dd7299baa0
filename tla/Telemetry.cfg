\* Three connections for two slots, and two publishing threads.
SPECIFICATION Spec
CONSTANTS
  MaxClients = 2
  QueueCapacity = 1
  Streams = {s1}
  Publishers = {p1, p2}
  None = None
  MaxConnections = 3
  MaxFrames = 2
INVARIANTS TypeOK SlotsWithinCap OneOrder ClosedMeansDrained
PROPERTIES PublishCompletes
\* Every connection may be closed and every frame published.
CHECK_DEADLOCK FALSE
