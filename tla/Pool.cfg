SPECIFICATION Spec
CONSTANTS
  Players = {p1}
  MaxRows = 2
  MaxMatches = 2
  Ports = {a}
  Tokens = {t}
  None = None
  MaxAttempts = 1
  Required = 1
  Faults = {"docker"}
SYMMETRY Symmetric
INVARIANTS
  TypeOK
  LeaseExclusive
  LeaseKept
  LeaseAccounted
PROPERTIES
  ImplementsLease
