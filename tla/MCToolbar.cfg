CONSTANTS
  Tools = {sel, move}
  Sel = sel
  Dbg = dbg
  GLUT = GLUT
  DOS = DOS
  NoKey = NoKey
  MaxTyped = 1
SPECIFICATION BarSpec
PROPERTY ShiftChoosesPlane
