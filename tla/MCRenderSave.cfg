CONSTANTS
  Windows = {}
  Modes <- Tiny
  Points = {}
  Reach = 0
  MaxVer = 1
  MaxJobs = 1
SPECIFICATION Spec
INVARIANT
  SavesTheRender
