SPECIFICATION Spec
CONSTANTS
  p1 = p1
  p2 = p2
  o1 = o1
  o2 = o2
  o3 = o3
  NoPlayer = NoPlayer
  Gone = Gone
  Players <- MCPlayers
  Objects <- MCObjects
  Addr <- MCAddr
  Hold = 1
  Look = 2
  MaxFrame = 4
SYMMETRY Symmetry
INVARIANTS
  HoldIsShort
  EmptyFeedIsRepaired
  FedNeverLooksEmpty
PROPERTIES
  OffersWhatItHit
