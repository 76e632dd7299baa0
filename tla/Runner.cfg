\* Three envs observed two at a time (a ragged block) through a pipeline of one,
\* under each of four deployments: watchdogs free to trip on any tick in one of
\* them, a policy that may stop, and episodes that end between any two phases.
SPECIFICATION Spec
CONSTANTS
  NumEnvs = 3
  ObsBatch = 2
  ObsPeriod = 1
  InferPeriod = 1
  Latency = 1
  InferBatch = 1
  H = 3
  ExecuteChunk = 3
  ChunkSlots = 2
  Deployments <- MCDeployments
  MaxObsAge = 9
  Tripping = {0}
  PolicyMayStop = TRUE
  MaxTick = 7
  MaxEpisode = 1
INVARIANTS TypeOK EpisodeIsolation RowsOnTime DeadPolicyStops LookaheadExact RoundRobinBounded
CHECK_DEADLOCK FALSE
