SPECIFICATION FairSpec
CONSTANTS
  Team1 = {p1}
  Team2 = {p2}
  None = None
  MinRounds = 2
  Late = FALSE
  Plans = {{"leave", "score"}, {"leave", "vote"}, {"pause"}, {"surrender", "vote"},
           {"offline", "linger", "vote"}}
CHECK_DEADLOCK FALSE
INVARIANTS
  TypeOK
  OwnStatistics
  RequestsAreGood
PROPERTIES
  OnlyForward
  CancelledInWarmup
  ImplementsGameServers
  ChoiceEnds
  PauseEnds
