SPECIFICATION Spec
CONSTANTS
  p1 = p1
  p2 = p2
  NoPlayer = NoPlayer
  Unreadable = Unreadable
  Players <- MCPlayers
  RefreshFrames = 2
SYMMETRY Symmetry
INVARIANTS
  StuckInputHasCause
  LostDisableHasCause
  RecordMatchesLease
