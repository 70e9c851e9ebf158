SPECIFICATION Spec
CONSTANTS
  v1 = v1
  v2 = v2
  NoImage = NoImage
  Image = {v1, v2}
  Head <- MCHead
  MaxRuns = 5
  PoolSize = 2
  MaxOverflow = 0
  DatabaseMax = 6
  Reserved = 2
  MinTasks = 1
  Deadline = 1
  TotalTimeout = 3
  MaxDeploys = 2
  MaxExtra = 1
  MaxScalings = 1
  MaxUnanswered = 1
INVARIANTS FleetFitsBudget
