CONSTANTS
  Red = Red
  Grey = Grey
  Hues = {Red, Blue}
  Positions = {0, 1}
  Files <- OneFile
  MaxMtl = 2
  None = None
SPECIFICATION EditorSpec
INVARIANTS
  EditorShowsCurrent
  PickerTargetsCurrent
  StaleIsMarked
PROPERTIES
  ScreenCatchesUp
