SPECIFICATION FairSpec
CONSTANTS
  Setups <- SoundSetups
  NumImages = 3
INVARIANTS
  NoImageLeftHeld
  InputEndsWithSession
PROPERTIES
  ImplementsCallOrder
  ImmediatePictureHasItsPose
  SettledSessionIsShown
