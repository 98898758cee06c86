SPECIFICATION Spec
CONSTANTS
  kernel = kernel
  beat = beat
  p1 = p1
  p2 = p2
  q = q
  None = None
  Procs = {kernel, beat, p1, p2, q}
  PidOf <- PidOfDef
  Self = beat
  Protected = {p2}
  Slack = 0
INVARIANT StateOfOneProcess
INVARIANT StateComplete
INVARIANT RunningIsFound
INVARIANT ListedOnce
PROPERTY FetchEnds
PROPERTY CallShortens
