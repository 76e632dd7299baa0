\* The same env with a live policy: one fallback tick is enough to drift.
SPECIFICATION Spec
CONSTANTS
  NumEnvs = 1
  ObsBatch = 1
  ObsPeriod = 1
  InferPeriod = 1
  Latency = 1
  InferBatch = 1
  H = 4
  ExecuteChunk = 4
  ChunkSlots = 2
  Deployments <- MCSwitchOnly
  MaxObsAge = 9
  Tripping = {0}
  PolicyMayStop = FALSE
  MaxTick = 5
  MaxEpisode = 2
INVARIANTS CommandedNeverDrifts
CHECK_DEADLOCK FALSE
