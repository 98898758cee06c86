SPECIFICATION SSpec
CONSTANTS
  beat = beat
  shell = shell
  cron = cron
  None = None
  Pids = {1, 2}
  Procs = {beat, shell}
  PidOf <- OwnPids
  Beat = beat
  KernelThreads = {}
  Matched = {shell}
  Callers = {g1}
  Collectors = {g1}
  Inspectors = {g1}
  CacheCmdLine = TRUE
  EnableCgroups = TRUE
  Cores = 1
  MaxTime = 3
  Watched = 2
INVARIANT UsageNonNegative
INVARIANT ReportedOnce
PROPERTY SamplesAdvance
PROPERTY PidIsSampled
