SPECIFICATION FairSpec
CONSTANTS
  Players = {p1, p2}
  MaxRows = 1
  MaxMatches = 1
  Ports = {a}
  Tokens = {t}
  None = None
  MaxAttempts = 2
  Required = 2
  Faults = {"docker"}
PROPERTIES
  EndedIsCleaned
  AcceptedMovesOn
