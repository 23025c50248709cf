SPECIFICATION FairSpec
CONSTANTS
  a = a
  b = b
  c = c
  d = d
  x = x
  Agents <- MCAgents
  Refs <- MCRefs
  Dags <- All
  MaxAttempts = 2
  MaxRunCost = 2
  MaxCallCost = 1
INVARIANTS
  TypeOK
  StartedAfterUpstream
  AttemptsUnique
  HandoffFromUpstream
  CompletedMeansApproved
  CostCeiling
PROPERTIES
  CurrentAdvances
  HandoffContract
  TasksTerminate
CHECK_DEADLOCK FALSE
