SPECIFICATION Spec
CONSTANTS
  Fields = {arm, overlays}
  Shown = {arm}
  Overlays = overlays
  Values = {on, off}
  Default = on
  MaxChanges = 4
INVARIANTS
  TypeOK
  LostChangeHasCause
PROPERTIES
  SavedIsMeant
  WindowConverges
  MenuSaveIsWritten
