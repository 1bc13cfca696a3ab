SPECIFICATION GestureSpec
CONSTANTS
  NearHold = 5
  LatchFrames = 2
  InitialFrames = 4
  RepeatFrames = 3
  MaxFrame = 7
  Sticks <- MCSticks
INVARIANTS
  GestureTypeOK
  ArmedNearHead
  ArmedByStick
  PressRepeats
PROPERTIES
  PressNotTooFast
