SPECIFICATION Spec
CONSTANTS
  Beams <- MCBeams
  NoBeam = NoBeam
  PulsePolls <- MCPulsePolls
INVARIANTS
  TypeOK
  PanelShowsChoice
PROPERTIES
  CommitWasShown
  CommitIsTheWeaponHands
