SPECIFICATION Spec
CONSTANTS
  Changes <- SomeChanges
  Overrides = {0, 810, 2010}
  MaxMatches = 3
  MaxOverrides = 2
  Weeks = {2, 3, 9, 300}
INVARIANTS
  TierNearElo
  AnnouncedIsReached
  DecayKeepsTier
CHECK_DEADLOCK FALSE
