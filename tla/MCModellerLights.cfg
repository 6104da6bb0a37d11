CONSTANTS
  Objs = {a, b, c}
  Mtls = {m}
  DefMtl = DefMtl
  Nil = Nil
  Colors = {white}
  Shins = {50}
  DefColor = white
  DefShin = 50
  MaxLights = 2
  MaxLoaded = 1
SYMMETRY Symmetry
SPECIFICATION Spec
INVARIANT
  SavedLightsUnique
