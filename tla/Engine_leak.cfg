SPECIFICATION Spec
CONSTANTS
  sa = sa
  sb = sb
  sc = sc
  sd = sd
  SdkRetries = 1
  MaxEpisodes = 1
  Worlds <- Leaky
INVARIANTS
  NoLeakedHolds
CHECK_DEADLOCK FALSE
