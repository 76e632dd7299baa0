\* One deployment: inference asked for every third tick, chunks of two rows.
CONSTANTS
  ExecuteChunk = 2
  Mode = "RecedingHorizon"
  Fallback = "EmergencyStop"
  InferenceBudget = 2
  MaxObsAge = 1
  HeartbeatTimeout = 3
  Home = Home
  None = None
  H = 3
  InferenceEvery = 3
  Poses = {p1}
  MaxTick = 6
SPECIFICATION RuntimeSpec
INVARIANTS RuntimeTypeOK ReplansOnTime NewestChunkOnly
PROPERTIES RowsInOrder
CHECK_DEADLOCK FALSE
