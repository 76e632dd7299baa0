\* Two controllers on a network that loses, repeats and reorders, a sink that may
\* fail on any record, and a plane that runs a command only on the tick it answers.
CONSTANTS
  ExecuteChunk = 1
  Mode = "RecedingHorizon"
  Fallback = "HoldPosition"
  InferenceBudget = 2
  MaxObsAge = 0
  HeartbeatTimeout = 1
  Home = Home
  None = None
  DeadlineTicks = 1
  Poses = {p1}
  LogMayFail = TRUE
  MaxTick = 3
  Controllers = {c1, c2}
  RowCount = 1
  MaxSeq = 3
  MaxDatagrams = 4
  MaxSession = 3
SPECIFICATION Spec
INVARIANTS TypeOK ReplaysIdentically VerifiedIsWhole RunsInDate LostAreSkipped
PROPERTIES CommandStreamSpec
\* The run ends with finish.
CHECK_DEADLOCK FALSE
