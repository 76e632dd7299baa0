\* One control tick of latency, two rows to a chunk and a replan every two ticks.
SPECIFICATION Spec
CONSTANTS
  Latency = 1
  InferBatch = 1
  H = 2
  ExecuteChunk = 2
  ChunkSlots = 2
  Deployments <- MCDemo
  MaxSteps = 6
  Episodes = 2
INVARIANTS MarkedFramesAreDriven
CHECK_DEADLOCK FALSE
