\* Three runs of the command in one <out>, each killed anywhere, started again from
\* any stage check_resume lets it, with and without an expert and a merge stage.
SPECIFICATION Spec
CONSTANTS
  None = None
  Torn = Torn
  Documents <- MCDocuments
  Collections = {c1, c2}
  MaxRuns = 3
INVARIANTS TypeOK JudgedIsNamed FullCyclesChain RefusedOnceRecorded LedgersInOrder
CHECK_DEADLOCK FALSE
