CONSTANTS
  chA = chA
  chB = chB
  Chars = {chA, chB}
  Nul = Nul
  Junk = Junk
  Shown <- Names
  MaxLen = 4
  Tools = {sel, move}
  Sel = sel
  Dbg = dbg
  GLUT = GLUT
  DOS = DOS
  NoKey = NoKey
  MaxTyped = 1
  W = 4
  H = 3
  Reach = 1
  Areas <- TheAreas
  Places <- ThePlaces
  Bands <- TheBands
  Nowhere = Nowhere
  Items = {chA, chB}
  Rubbish = Rubbish
  MaxItems = 5
  Starts <- TheStarts
  Xs = {0, 21, 64, 106}
  Ys = {0, 10, 64, 140}
  MaxChoices = 1
  MtlNames = {0, 1}
  TypedNames = {0, 1}
  Shins = {1, 50}
  Views = {1, 2}
  MaxMtls = 2
  MaxObjs = 2
  MaxId = 1
  Foreign <- HandWritten
  Letters = {"a", "e", "v", "rrscene", "material", "view", "name", "kd", "shin", "theta", "options", "video", "input", "xres", "vsync", "mousespeed"}
  Digits = {"0", "1", "5", "05", "50", "640"}
  Scenes <- TheTrees
  NoScene = NoScene
  MaxElems = 31
  Video <- TheVideo
  Input <- TheInput
  Values <- TheValues
  Default <- TheDefault
  FbW = 5
  FbH = 5
  Quads <- TheQuads
  Ends <- TheEnds
  Nothing = Nothing
  ptA = ptA
  ptB = ptB
  ptC = ptC
  Lines <- TheLines
  Polygons <- ThePolygons
  Weights <- TheWeights
  NoPrim = NoPrim
  PrimKinds = {2, 3, 4}
  Colors = {"white", "blue"}
  VbufSize = 6
  MaxGiven = 7
  MaxComp = 2
  Free = Free
  Meshes = {1, 2, 3}
  Data <- TheMeshData
  Subs = {0, 1, 2, 3, 5}
SPECIFICATION Spec
INVARIANTS
  EditsFit
  ToolbarIsTrue
  ConstraintHasCause
  NothingForgotten
  HoldsItems
  ChoiceIsShownAgain
  SceneSurvives
  OpensAsSaved
  OptionsSurvive
  PiecesMeet
  LineIsClosest
  ClipsToView
  BufferIsInvisible
  DrawsTheMesh
  SurfaceIsClosed
PROPERTIES
  OneCursor
  EditsLikeALineEditor
  BandResidue
