SPECIFICATION SocietySpec
CONSTANTS
  Agents <- Roles
  Refs <- MCRefs
  Dags <- MCDags
  MaxAttempts = 3
  MaxRunCost = 1
  MaxCallCost = 0
  Worlds <- MCWorlds
INVARIANTS
  FaultCaught
  Delivered
  ContractFirst
CHECK_DEADLOCK FALSE
