SPECIFICATION Spec
CONSTANTS
  r1 = r1
  r2 = r2
  r3 = r3
  s1 = s1
  s2 = s2
  s3 = s3
  s4 = s4
  cloud = cloud
  local = local
  wide = wide
  sandbox = sandbox
  Runs = {r1, r2, r3}
  Res <- MCRes
  Sandbox = sandbox
  Cap <- MCCap
  H = 1
  SdkRetries = 1
  Worlds <- Racing
INVARIANTS
  UnitsOwned
CHECK_DEADLOCK FALSE
