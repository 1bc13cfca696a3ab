SPECIFICATION Spec
CONSTANTS
  Fields = {arm, overlays}
  Shown = {arm}
  Overlays = overlays
  Values = {on, off}
  Default = on
  MaxChanges = 3
PROPERTY WindowChangeIsSaved
