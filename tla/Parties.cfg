SPECIFICATION Spec
CHECK_DEADLOCK FALSE
CONSTANTS
  Players = {p1, p2, p3}
  Parties = {1}
  MaxMembers = 2
  MaxInvites = 2
  MaxPending = 4
  Nobody = Nobody
SYMMETRY Symmetry
INVARIANTS
  TypeOK
  OneLeader
  InvitedOnly
  NoEmptyParty
