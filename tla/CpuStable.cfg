SPECIFICATION Spec
CONSTANTS
  Cores = {0, 1}
  MaxTicks = 2
  Width = 64
INVARIANT TotalPctWithinBounds
INVARIANT CorePctWithinBounds
INVARIANT PrevIsSameCore
