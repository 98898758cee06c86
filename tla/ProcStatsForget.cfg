SPECIFICATION FairSpec
CONSTANTS
  beat = beat
  shell = shell
  cron = cron
  None = None
  Pids = {1, 2}
  Procs = {beat, shell}
  PidOf <- OwnPids
  Beat = beat
  KernelThreads = {}
  Matched = {beat, shell}
  Callers = {g1, g2}
  Collectors = {g1}
  Inspectors = {g2}
  CacheCmdLine = TRUE
  EnableCgroups = TRUE
  Cores = 1
  MaxTime = 0
PROPERTY ExitedForgotten
