\* Every limit and every watchdog armed at once: rows and poses outside every
\* limit, non-finite rows, a soft limit that is not inside the hard one, budgets of
\* one tick, a rate window of two and the fallback that latches.
SPECIFICATION Spec
CONSTANTS
  NonFinite = NonFinite
  None = None
  RawHard <- MCHard
  RawSoft <- MCBadSoft
  RawVelMax = 2
  RawAccMax = 1
  RawTauMax = 6
  RawD1Max = 3
  RawD2Max = 2
  Workspace <- MCWorkspace
  ActionSpace = "JointPosition"
  WindowLen = 2
  H = 1
  ExecuteChunk = 1
  FallbackKind = "EmergencyStop"
  Trajectory <- MCNoTrajectory
  InferenceBudget = 1
  MaxObsAge = 1
  HeartbeatTimeout = 1
  Sensors = {"joint_state"}
  MaxGap <- MCGap
  MaxOnes = 1
  Rows = {0, 3, NonFinite}
  Poses = {9}
  Speeds <- MCEdgeSpeeds
  MaxTick = 3
INVARIANTS TypeOK InsideHard VelocityBounded PolicyMeansUntouched ExecutedInDate
PROPERTIES DeadlineCountsNewChunks LatchHolds RateWatchdogSpec
CHECK_DEADLOCK FALSE
