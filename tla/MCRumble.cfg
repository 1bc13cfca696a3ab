SPECIFICATION RumbleSpec
INVARIANTS
  LeftoverRumbleHasCause
PROPERTIES
  RumbleOffSettles
