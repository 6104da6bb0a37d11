CONSTANTS
  MtlNames = {0, 1, 2}
  TypedNames = {}
  Shins = {50}
  Views = {1}
  MaxMtls = 2
  MaxObjs = 1
  MaxId = 2
  Foreign <- NoFile
SPECIFICATION FileSpec
INVARIANT MaterialNamesUnique
