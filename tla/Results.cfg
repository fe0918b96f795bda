SPECIFICATION Spec
CONSTANTS
  Players = {p1, p2}
  Matches = {m1, m2}
  Team1 = {p1}
  StartElos = {20}
  Overrides = {420}
  MinPlacement = 1
  MaxAttempts = 2
  MaxDisturbances = 1
  NoMatch = NoMatch
SYMMETRY AnyMatch
INVARIANTS
  TypeOK
  EloIsSum
  ClosedIsRated
  AbandonerLoses
  PunishedOnce
  ZeroSum
