SPECIFICATION FairSpec
CONSTANTS
  Players = {p1}
  MaxRows = 1
  MaxMatches = 1
  Ports = {a}
  Tokens = {t}
  None = None
  MaxAttempts = 1
  Required = 1
  Faults = {}
PROPERTIES
  AbandonedIsReleased
