SPECIFICATION Spec
CONSTANTS
  sa = sa
  sb = sb
  sc = sc
  ResOf <- MCResOf
  Worlds <- All
INVARIANTS
  LabelsTrue
  EachOutcomeOnce
  AsksKept
CHECK_DEADLOCK FALSE
