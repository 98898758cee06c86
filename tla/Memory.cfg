SPECIFICATION Spec
CONSTANTS
  s1 = s1
  s2 = s2
  None = None
  Pages = 3
  W = 32
  Swaps = {s1, s2}
  SwapSize = 3
  Strays = {0, 2, 31}
  PageSizes = {1, 4}
  Lacking <- LackingDef
  MaxMoves = 2
INVARIANT TypeOK
INVARIANT PctWithinBounds
INVARIANT ActualUsedDrift
