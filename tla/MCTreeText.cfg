CONSTANTS
  Letters = {"a", "e", "rrscene", "object", "name", "pos"}
  Digits = {"0", "1", "5", "05"}
  Scenes <- TheScenes
  NoScene = NoScene
  MaxElems = 31
SPECIFICATION TextSpec
INVARIANT NumbersAreRead
