SPECIFICATION Spec
CONSTANTS
  beat = beat
  shell = shell
  cron = cron
  None = None
  Pids = {1, 2}
  Procs = {beat, shell, cron}
  PidOf <- SharedPid
  Beat = beat
  KernelThreads = {shell, cron}
  Matched = {shell, cron}
  Callers = {g1, g2}
  Collectors = {g1}
  Inspectors = {g2}
  CacheCmdLine = FALSE
  EnableCgroups = TRUE
  Cores = 0
  MaxTime = 1
INVARIANT ElapsedNonNegative
PROPERTY GoneIsDropped
SYMMETRY Either
