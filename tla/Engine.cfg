SPECIFICATION FairSpec
CONSTANTS
  sa = sa
  sb = sb
  sc = sc
  sd = sd
  SdkRetries = 1
  MaxEpisodes = 1
  Worlds <- Sound
INVARIANTS
  TypeOK
  CapacityKept
  HoldsAccounted
  NoLeakedHolds
  NoFittingWaiter
  DeadlockFlagged
  JoinCounts
  RoomExists
PROPERTIES
  EverySessionEnds
CHECK_DEADLOCK FALSE
