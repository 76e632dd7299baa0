\* Two envs stepped as one batch, under three control graphs.
SPECIFICATION Spec
CONSTANTS
  NumEnvs = 2
  Graphs <- MCGraphs
  Root = 1
  NoNode = NoNode
  MaxDescent = 12
  MaxEpisodeSteps = 7
  HoldTicks = 2
INVARIANTS TypeOK WithinBudget EpisodesWhole
PROPERTY StagesFollowPlan
