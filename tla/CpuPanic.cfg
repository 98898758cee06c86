SPECIFICATION Spec
CONSTANTS
  Cores = {0, 1}
  MaxTicks = 3
  Width = 64
INVARIANT NoPanic
