SPECIFICATION Spec
CONSTANTS
  sa = sa
  sb = sb
  Sessions = {sa, sb}
  Worlds <- All
  Rpm = 4
  PauseAt = 1
  Horizon = 3
  Warm = 3
  Tau = 9
  TokCap = 10
  TokRefill = 2
  Headroom = 2
  UsdCap = 10
  UsdRefill = 1
  UsdPause = 1
  SdkRetries = 1
  RetryCap = 2
INVARIANTS
  RetryTimely
  NeverRefused
PROPERTIES
  PausedServed
CHECK_DEADLOCK FALSE
