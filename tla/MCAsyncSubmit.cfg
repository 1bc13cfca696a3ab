SPECIFICATION FairSpec
CONSTANTS
  Setups <- MCSetups
  NumImages = 3
INVARIANTS
  TypeOK
  NoImageLeftHeldWhenSound
PROPERTIES
  PromptCallsInOrder
  OwnPictureIsShown
  SettledFramesAreShown
