SPECIFICATION Spec
CONSTANTS
  Players = {p1}
  Panels = {web}
  Instants = {0, 20, 22000}
  Minutes = {60}
  MaxOffences = 2
  MaxFaults = 1
  MaxRows = 2
  MaxTogether = 3
  NoPlayer = NoPlayer
INVARIANTS
  TypeOK
  RefusedIsListed
  BannedLeavesQueue
PROPERTIES
  EscalationNeverShortens
