SPECIFICATION Spec
CONSTANTS
  Team1 = {p1}
  Team2 = {p2}
  None = None
  MinRounds = 1
  Late = FALSE
  Plans = {{}}
CHECK_DEADLOCK FALSE
INVARIANTS
  RightWinner
