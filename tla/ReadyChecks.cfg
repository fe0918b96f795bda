SPECIFICATION Spec
CONSTANTS
  Players = {p1, p2}
  MaxRows = 1
  MaxMatches = 1
  Ports = {a, b}
  Tokens = {t}
  None = None
  MaxAttempts = 1
  Required = 2
  Faults = {"crash", "db", "admin"}
SYMMETRY Symmetric
INVARIANTS
  ConsentToMatch
  MatchedHasServer
PROPERTIES
  ServerForTheReady
