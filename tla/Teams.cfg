SPECIFICATION Spec
CHECK_DEADLOCK FALSE
CONSTANTS
  Required = 6
  BaseSpread = 100
  Interval = 60
  Amount = 50
  Sizes = {1, 2, 3}
  Elos = {1000, 1100, 1150, 1300}
  Waits = {0, 60}
  MaxBlocks = 4
INVARIANTS
  TypeOK
  GroupIsWhole
  MutuallyAcceptable
  Balanced
  Bookkeeping
