SPECIFICATION Spec
CONSTANTS
  rotation = rotation
  rotationCave = rotationCave
  sway = sway
  culling = culling
  p1 = p1
  p2 = p2
  NoPlayer = NoPlayer
  Patches <- MCAllPatches
  Caves <- MCAllCaves
  Site <- MCAllSite
  Critical <- MCAllCritical
  Covered <- MCCovered
  Players <- MCPlayers
  Recheck = 6
  Window = 3
  Early = 2
  Late = 3
  Startup = 8
  MaxFrame = 14
SYMMETRY Symmetry
INVARIANT UndoneIsRunAgain
