CONSTANTS
  Windows <- ThreeWindows
  Modes <- OneMode
  Points <- Corners
  Reach = 5
  MaxVer = 2
  MaxJobs = 2
SPECIFICATION BoundedSpec
INVARIANTS
  FrameInBounds
  OverlayAligned
PROPERTIES
  FinishedIsSharp
  PassStaysInside
  RenderEnds
