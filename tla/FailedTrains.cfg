\* Demonstrations that mostly failed, collected, merged and collected again.
SPECIFICATION Spec
CONSTANTS
  None = None
  Torn = Torn
  Documents <- MCDocuments
  Collections = {c1, c2}
  MaxRuns = 3
INVARIANTS FailedNeverTrains
CHECK_DEADLOCK FALSE
