\* A stage of one tick that needs no success predicate.
SPECIFICATION Spec
CONSTANTS
  NumEnvs = 1
  Graphs <- MCOneStep
  Root = 1
  NoNode = NoNode
  MaxDescent = 12
  MaxEpisodeSteps = 0
  HoldTicks = 2
INVARIANT UnconditionalStageCompletes
