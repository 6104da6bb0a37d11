CONSTANTS
  Objs = {a, b, c}
  Mtls = {m, n}
  DefMtl = DefMtl
  Nil = Nil
  Colors = {white, red}
  Shins = {50, 60}
  DefColor = white
  DefShin = 50
  MaxLights = 1
  MaxLoaded = 1
SYMMETRY Symmetry
SPECIFICATION BoundedSpec
INVARIANTS
  ObjectsOwned
  EditorTracksScene
  MaterialsLive
  LightsShine
  MatricesFresh
PROPERTIES
  PictureIsRedrawn
  ImplementsSceneSet
