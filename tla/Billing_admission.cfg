SPECIFICATION FairSpec
CONSTANTS
  r1 = r1
  r2 = r2
  s1 = s1
  s2 = s2
  s3 = s3
  Runs = {r1, r2}
  Sids = {s1, s2, s3}
  RunOf <- MCRunOf
  Policies = {"needs"}
  Allowance = 2
  Refill = 1
  Median <- MCMedian
  High <- MCHigh
  CallRefill = 1
  RunRefill = 1
  Floors = {0, 1}
  GateFloor = 1
  MinCharge = 1
  MaxUsage = 3
  MaxAttempts = 2
PROPERTIES
  AdmittedCovered
CHECK_DEADLOCK FALSE
