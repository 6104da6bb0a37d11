CONSTANTS
  minus = minus
  slash = slash
  NoKey = NoKey
  Keys = {minus, slash}
  Codes = {53, 74}
  ExtCodes = {53}
  Scantbl <- Table
  ScantblExt <- TableExt
  BufSize = 4
  MaxCount = 3
  Calm = calm
  Rushed = rushed
  CalmBurst = 3
  RushedBurst = 1
SPECIFICATION Spec
INVARIANTS KnowsWhatIsDown
PROPERTIES ImplementsQueue OnlyDropsAreLost
