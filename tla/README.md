# TLA+ models of elastic-agent-system-metrics

This directory holds TLA+ models of the parts of elastic-agent-system-metrics
that keep state between calls or read the system in several steps, TLC
configurations that check them on small instances, and TLAPS proofs for all
instances.

    tlc -workers 2 -config DiskRounds.cfg MCDiskIO.tla   # one run
    tlapm DiskIOProofs.tla                               # one module of proofs

## The system

The library is a set of samplers. A caller (Metricbeat, or the reporters that
`report/` registers) asks for a sample; the sampler reads files under `/proc` and
`/sys` or makes system calls, compares what it read with what it kept from the
call before, keeps the new sample and returns differences and percentages.
Nothing is persisted and there is almost no locking, so what can go wrong is of
four kinds: the kernel moves on between two reads of one call; the kept sample is
not the one the new one must be compared with; two calls interleave; and a
difference wraps or is divided by zero.

| Part | State kept | Operations | What is hard | What makes it correct |
|---|---|---|---|---|
| `metric/system/process` | `ProcsTrack.pids`: the last `ProcState` of each pid, behind an RWMutex | `Get`, `GetOne`, `GetSelf`, all through `pidFill`; `ListStates`, `GetPIDState` | several goroutines; processes exit between reads; pids are reused; each operating system lists and reads processes in its own way | a percentage is computed from two samples in order; exited processes are forgotten, and so is what later ones inherited of them; every field of a state is of one process; what runs is found |
| `metric/system/cgroup` | the mount points; the caller keeps the last stats | `NewReaderOptions`, `GetStatsForPid`, `FillPercentages`, `Get` of each controller | `/proc/[pid]/cgroup` is read twice; processes are moved, groups vanish and are made anew; V1 and V2 mixed; options for Docker; names of devices looked up in `/dev` | all controllers or an error; the usage of a group never goes back; no device under another's name |
| `metric/cpu` | `Monitor.lastSample` | `Fetch`, `FetchCores`, `Metrics.Format` | two reads in turn; hotplug; two calls share a sample; unsigned differences | percentages in [0, 1] where two samples can be compared at all; a core is compared with itself |
| `metric/system/diskio` | last counter of each device, CPU at open and close | `IOCounters`, `OpenSampling`, `CalcIOStatistics`, `CloseSampling` | errors in the middle of a round; devices come and go; 32 bit counters | a result is divided by the interval its counters span; nothing is counted twice or lost |
| `metric/memory` | none | `Get` | sizes from two or three system calls are subtracted, unsigned; keys that a kernel lacks; fixed units | used memory is off by no more than moved meanwhile, and never above the total |
| `metric/system/filesystem` | none; the caller keeps the list | `GetFilesystems`, `GetUsage` | the mount table changes between list and usage; duplicates | no device missed or listed twice; usage of the listed device |
| `metric/system/hwmon` | none; the caller keeps the devices | `DetectHwmon`, `ReportSensors` | drivers come and go between any two files; keys made of labels | what succeeds is complete, each value under its own label |
| `report` | registry | reporters that call `GetSelf` | they share one `process.Stats` | as for `process` |
| `numcpu`, `network`, `host`, `resolve`, `metric/math.go` | none | parse, filter, round | boundaries of parsers | functions of their input |

`report` calls `process`; `process` calls `cgroup` and `numcpu`; `cgroup`
and `diskio` call `numcpu`. There are no callbacks and no messages: the parts
interact by calls and by the samples they keep for each other.

`PROJECT.json` lists every part with what is modelled of it, every hazard at its
line, and for each definition the lines it stands for.

## The modules

| Module | Models | Extended for TLC by | Proofs |
|---|---|---|---|
| ProcStats, ProcStatsAccounting | `process`: `Stats`, `ProcsTrack`, the Linux reader | MCProcStats, MCProcStatsSampler | ProcStatsProofs |
| PidReaders | `process`: the readers of Windows, macOS and AIX | MCPidReaders | PidReadersProofs |
| CgroupReader | `cgroup`: `GetStatsForPid`, `FillPercentages` | MCCgroupReader | CgroupReaderProofs |
| CgroupIO | `cgroup`: blkio of V1 and io of V2 | MCCgroupIO | CgroupIOProofs |
| Mounts | `filesystem`, and the mount points of `cgroup` | MCMounts | CgroupReaderProofs |
| CpuMonitor | `cpu`, on all operating systems | MCCpuMonitor | CpuMonitorProofs |
| DiskIO | `diskio` on Linux | MCDiskIO | DiskIOProofs |
| Sampler | what a sampler promises; abstract | | |
| ProcStatsSampler | ProcStats as an implementation of Sampler | MCProcStatsSampler | ProcStatsProofs |
| DiskIOSampler | DiskIO as an implementation of Sampler | MCDiskIO | DiskIOProofs |
| Memory | `memory`, on all operating systems | MCMemory | MemoryProofs |
| Hwmon | `hwmon` | MCHwmon | HwmonProofs |

In every module a call is cut where the code reads or writes what others can
change: the kernel's tables, or state that goroutines share. Code between two
such points is one action.

### ProcStats, ProcStatsAccounting, ProcStatsSampler

`ProcStats` is one `process.Stats` and the goroutines (`Callers`) that share it.
`pids` is `ProcsTrack.pids`; `pc`, `op`, `todo`, `procMap`, `pid`, `status` and
`last` are the locals of `Get`, `GetOne`, `pidIter` and `pidFill` in each caller;
`phase`, `cpu` and `now` are the processes, their ticks and the clock.

| Action | Code |
|---|---|
| `StartGet`, `GetListed` | `FetchPids`, `pidIter`, `GetInfoForPid` |
| `GetOne`, `GetSelf` | the calls, up to `GetInfoForPid` |
| `FilterAndCache` | `cacheCmdLine`, then `matchProcess` for `Get` |
| `ReadCPU`, `ReadFiles` | `FillPidMetrics` |
| `GetLast` | `ProcsMap.GetPid`, the baseline |
| `Stamp` | `SampleTime = time.Now()`, `GetStatsForPid`, the percentages |
| `Fail` | every error return of `pidFill` |
| `Collect`, `SetMap`, `SetPid` | `procMap[pid] = status`, publication of the result |

Each of the map's methods holds the mutex throughout, so each is one step. A
`ProcState` names in each field the process whose file it was read from, so that
the properties can tell whether the fields agree. `GetSelf` is `GetOne` of the
process's own pid: the code differs only in what it returns. Errors in opening
`/proc` itself end a call before it has changed anything and are left out.
`skipExtended` is set only by `ListStates`, on a `Stats` of its own.
`includeTopProcesses` and the formatting change only what is returned. The dozen files
of a process are read in three steps (status, CPU time, the rest), so that it can
exit, and another take its pid, between these.

`ProcStatsAccounting` adds a history variable: the CPU time that the numerators
of the returned percentages add up to.

`ProcStatsSampler` says that to one caller, `Stats` is a Sampler (see there) of a pid,
`Watched`. The kept sample is the entry of the tracked map, the next one what the
call under way has taken. `GetProcCPUPercentage` is called in the middle of a call,
and its result becomes a report when `SetPid` or `SetMap` has put the new sample in
place; so two history variables hold what it divided by what (`computed`) and what
the last step reported (`result`). A Get that could not read the process stores a map
without it, which is the Sampler's `Lose`. `PidIsSampled` is the refinement.

### PidReaders

The same `pidFill` down to the single system call, on the three operating systems
that do not read `/proc`; `os` chooses one. A `ProcState` names in each field the
process it describes.

* Windows: `EnumProcesses` lists the pids; `getProcName`, `getPidStatus`,
  `getProcCredName`, `getParentPid`, `procMem`, `getProcTimes` and `getProcArgs`
  each open the process anew. A process that ended while others hold it open
  answers some queries and not others; a protected one refuses some.
* macOS: `proc_listpidsSize` and `proc_listpids` are two calls; `taskInfo` has
  most fields, `sysctl` arguments and environment. Neither tells anything of a
  protected process, for which `proc_pidinfo` returns no struct of the expected
  size (`process_darwin.go:231`): the first read of it fails.
* AIX: `NextInTable` walks the process table with `getprocs`, which answers with
  the next entry when there is none of the pid it was asked for; then `getprocs`,
  `procExists`, `getprocsAgain`, `getargs`, `getevars`.

`FetchPids`, `GetOne` (which `ListStates` and `Get` share) and `GetPIDState` are
the calls. `Fails` and `Collect` are what `pidIter` makes of the outcome.

### CgroupReader

One process and the `Reader` that is asked for its stats again and again. `home`
and `exists` are the process's group and the existing groups in each hierarchy,
`usage` the CPU time of each group, and `made`, a history variable, how often
each group was made. A call goes through `ReadVersion` and `ReadControllerList`
(`CgroupsVersion`), `ReadPaths` and `ReadDir` (`ProcessCgroupPaths`), one
`ReadController` per controller in any order (the code ranges over a map), and
`Finish` or `Fail`. `Move`, `RemoveGroup` and `CreateGroup`, which makes a group
anew under the same path with no usage, happen between any two of these. The
stats note the group that the usage was read from and which one of those that
had its path it was (`from`, `life`), for the properties only. `setup` holds the
options that `report.go` and Metricbeat pass, and whether the kernel has
pressure files; it does not change. `HasPrev` is the guard of `FillPercentages`.
Reading the files of one controller is one step here: what can happen between
them is in CgroupIO, for the controllers whose files are read one by one.

### CgroupIO

`Get` of blkio (`IoServiceBytes`, `IoServiced`, `ReadLimits`) and of io
(`OpenStat`, `ScanStat`, then for each device of each line `WalkDir`, `WalkNode`,
`WalkDone`, and `LineDone`, `StatPressure`, `GetPressure`). Meanwhile tasks of the
group make requests, the group is removed and made anew, and udev makes and
removes nodes. `/dev` is listed at once and then looked at node by node, as
`filepath.WalkDir` does.

### Mounts

The kernel's mount table, in which later mounts cover earlier ones, and its two
readers. `parseMounts`, `GetfsstatSize` with `Getfsstat`, and `GetAccessPaths` with
`GetFilesystemType` and `DrivesListed` are `GetFilesystems` on Linux and FreeBSD,
macOS and Windows; `avoidFileSystem` and `filterDuplicates` its filters; `GetUsage`
the later question for one directory. `NewReader` is `SubsystemMountpoints`, whose
result the cgroup `Reader` keeps until it is dropped. Mounts and CgroupReader meet
in this result: what `MountpointServes` promises is what CgroupReader takes for
granted when it looks for a controller's directory. One module has the proofs of
both, so that their names differ (`MountsSpec`, `at` for where a call is). `kept` and
`covered` are history: which mounts stayed since the call began, and which
directories a second one came to. On Windows the first table has one volume under
each drive.

### CpuMonitor

A `Monitor` and the kernel's counters. With `/proc`, `ReadStat` reads
`/proc/stat`; then `Fetch`, `FetchCores` or `FetchCoresPanics` reads
`/proc/cpuinfo` and ends the call, or `FailCPUInfo` does. Elsewhere `ReadTotals`
comes first and the cores second; OpenBSD fills every core from the totals
(`LoadGlobal`). `Total`, `TimeDelta`, `Rejected` and `IdleDelta` are what `Format`
and `createTotal` make of two samples. Counters are kept in the three classes the
percentages tell apart: busy, idle and iowait.

### DiskIO, Sampler, DiskIOSampler

DiskIO is an `IOStat` and a caller that works in rounds, as the doc of
`OpenSampling` asks: `IOCounters`, `OpenSampling`, `CalcIOStatistics` of every
listed device in any order, `CloseSampling`. `CalcIOStatistics` is `CalcFirst`,
`CalcRejected` or `CalcResult`. `Counter` carries the whole time and the life of
the device next to what the kernel shows, for the properties only. `keptAt` and
`accounted` are history.

Sampler is the promise of a sampler of one source, independent of any code: every
report is the difference of two samples, in count and in clock, and starts with
the sample that the report before ended with. Two constants tell its
implementations apart: one that `Refuses` has no report while its clock stands still,
and one that `Loses` may be without a sample again. IOStat refuses and does not lose;
`Stats` of ProcStats loses and does not refuse.

IOStat does not look like a Sampler: it has one clock for all devices, which it
moves once a round, whether or not each device was calculated. DiskIOSampler says
how it is one all the same: the clock of the kept sample is when its counter was
kept. `ImplementsSampler` is the refinement, for any one device (`Watched`).

### Memory

The pages and swap devices of a machine, and `Get` on six operating systems:
`GetLinux` from one read of `/proc/meminfo`, of which keys may be missing;
`GetAtOnce` on AIX, Windows and macOS; `GetFree`, then `GetCached` on FreeBSD and
OpenBSD; and on OpenBSD `CountSwap`, the number of swap devices, then `ReadSwap`,
their statistics. `Minus` is the subtraction of `uint64`.

On macOS the total is `hw.memsize` in bytes, while counts of pages are shifted by 12
(`memory_darwin.go:65`). The sizes of the model are in units of 4096 bytes there:
`units` is how many of them a page has, and only the total is multiplied by it.

`Swapent` of OpenBSD has a slice where the kernel's entry holds the path itself, so
that it is shorter. The first entry is a device; at the places of the others stands
whatever the path left there, a member of the set `Strays` or something that is not
enabled. A second call that fails with -1 is no error, since only 0 is tested
(`memory_openbsd.go:222`), and leaves the entries empty.

### Hwmon

Directories under `/sys/class/hwmon`, each with a chip or none. `ReadDir`,
`ResolvePath`, `findSensorsInPath`, `ReadName` and `DetectionDone` are
`DetectHwmon`; `ReportSensors`, then `FetchLabel` and `FetchInput` for each sensor,
and `ReportDone` are the report. `Rebind` exchanges the chip of a directory.
Values are not modelled, only whose value stands under which key.

## The runs

"Passes" means that TLC explored every state and found no error.

| Run | Question | Outcome |
|---|---|---|
| ProcStatsSequential | Does one goroutine that mixes `Get`, `GetOne` and `GetSelf` ever report a negative percentage, the same CPU time twice, or put an older sample in place of a newer one? Is `Stats` a Sampler of each pid? | passes |
| ProcStatsConcurrent | Two goroutines, and two processes that have one pid in turn: is a divisor ever negative, does an exited process that no call under way holds ever come back into the map, does anything that a later process inherited of it ever return? | passes |
| ProcStatsForget | Is an exited process forgotten for good? | passes, under fairness |
| PidReaders | Windows, macOS and AIX, with a pid that is reused: is every state of one process and without gaps, is every process that keeps running found, is a pid listed once, does every step bring the end of the call nearer, does the listing end? | passes |
| CgroupCalls | The process is moved, groups vanish and are made anew during calls and between them: all controllers or an error? Does the Docker setup read all? Does the usage of a group go back, other than when it is made anew? | passes |
| CgroupIO | Are the totals of blkio counts the group had during the call, are the stats of io complete, does a device ever stand under another's name, is a group that stays ever an error? | passes |
| Mounts | Does the list of filesystems miss a device or list it twice, is usage that of the listed device, does the cgroup `Reader` look where its controllers are? | passes |
| CpuStable | While any core comes and goes and iowait may decrease: are percentages in [0, 1] wherever a core is compared with itself and iowait did not decrease, and when exactly is a core compared with itself? | passes |
| CpuPanic | Does `FetchCores` ever index `CPUInfo` out of range? | yes |
| DiskRounds | Is every result divided by its own interval, every request counted once, a rolled over counter off by at most one? Is an `IOStat` a Sampler of a device that is plugged in and out? | passes |
| Memory | Is used memory at most the total, and off by no more pages than moved? | passes |
| Hwmon | Drivers come and go during both calls: is what succeeds complete, and every value under its own label? | passes |

The type invariants of Memory and Mounts are checked and proved. The others are not
listed in a run, because they are proved: a run would add nothing.

CpuPanic is the one run that finds an error: a core goes offline between the
reads of `/proc/stat` and `/proc/cpuinfo`, and `FetchCores` indexes `CPUInfo` with
the position of a core it does not have (`metrics.go:139`), although the comment
says that the metric is only added if it is available.

### Known limits that no run shows

Met while modelling. The models contain the behaviour of the first group, and
their properties are stated around it; the second group is of values that the
models leave out.

* `process`: two goroutines that fill the same pid can get a negative percentage,
  since one may have read its ticks before the other stored a newer sample, which
  `GetPid` then returns as the baseline (`process.go:242`). `report.go` registers
  reporters that share a `Stats`.
* `process`: the ticks are read before `SampleTime`, so a percentage may exceed
  the number of cores; two samples may have the same `SampleTime`, so it may be
  infinite: only NaN is tested (`helpers.go:90`). `FillPercentages` of `cgroup`
  divides by the same interval and tests nothing (`cgstats.go:71`).
* `process`: when a pid is reused before a `Get` dropped it, the new process gets the
  old one's baseline, environment and, with `CacheCmdLine`, arguments
  (`process.go:284`), and hands them on to its successors as long as the pid stays
  tracked. A sample that is read while the pid changes hands has fields of both.
  `GoneIsDropped` says when all that is over.
* `process`: an older sample may replace a newer one when two goroutines store one
  pid, and the map of a `Get` drops what `GetOne` stored while it ran.
* `process`: `GetPIDState` returns an error other than `ProcNotExist` when the
  process ends between psutil's check and the read (`process.go:70`). On AIX the
  last pid of the table is filled twice.
* `cpu`: cores are matched by position in two lists (`metrics.go:127`): when a
  core other than the last comes or goes, the cores after it are compared with
  their neighbours. `PrevIsSameCore` says exactly when, and `CorePctWithinBounds`
  excepts these comparisons.
* `cpu`, `diskio`: `Metrics.Format` and `CalcIOStatistics` test an unsigned
  difference for `<= 0`. If iowait decreases, the difference may wrap and no error
  is returned; the bounds of `cpu` except these comparisons.
* `cpu`: on OpenBSD every core shows the totals (`metrics_openbsd.go:97`).
* `diskio`: `MaxUint32 - prev + current` is one short of the true difference
  (`diskstat_linux.go:74`). The counter of an unplugged device is kept for ever,
  so that the first result after it was plugged in again compares two lives.
* `cgroup`: the version is chosen from one read of `/proc/[pid]/cgroup` and the
  paths come from another (`reader.go:216`), so that a process that moves may be
  given the stats of a version without controllers.
* `cgroup`: a group that was removed and made anew under its path counts from zero,
  so that the usage, and with it the percentage, goes back (`cgstats.go:118`).
  `SameGroupNonNegative` says that this is the only way. A V1 group that is removed
  while it is read has zeros, which count as read.
* `cgroup`: without `cpu.pressure`, `cpu.stat` is not read (`cgv2/cpu.go:69`).
* `cgroup`: a group that is removed while blkio is read has bytes and no requests
  (`cgv1/blkio.go:146`); one that is removed after `io.stat` was opened has no
  devices and no error, because `sc.Err()` is not looked at (`cgv2/io.go:92`). The
  metrics of a line of `io.stat` with several devices are those of the last.
* `cgroup`: `getCommonCgroupMetadata` returns the ID `.` when every group is an
  ignored root group (`reader.go:339`).
* `cgroup`: V2 usage is in microseconds in a field called NS, so V2 percentages
  are a thousandth of what they should be.
* `hwmon`: a sensor with a label and no input fails the report of its device,
  though the comment at `hwmon_types.go:39` calls that a soft error, because
  `os.IsNotExist` does not look through `%w` (`hwmon.go:132`). Two labels with one
  key overwrite each other.
* `memory`: swap sizes on OpenBSD are kilobytes in a field of bytes
  (`memory_openbsd.go:228`). With several devices only the first is read where it
  stands, since `Swapent` is shorter than the kernel's entry
  (`memory_openbsd.go:151`), and -1 of the second call is not an error (`:222`).
* `memory`: on Macs with pages of 16 KiB, what is free and what is actually free are
  a quarter of what they should be, and what is used is more than it is
  (`memory_darwin.go:65`).
* `memory`: on FreeBSD and OpenBSD, pages that move between the two calls can take
  what is actually used below zero: it wraps, and its percentage is far above 1.
* `hwmon`: one chip that goes while the directories are walked, or one with an oddly
  named file (`hwmon.go:207`), fails the detection of all.
* `filesystem`: on Windows, a drive that is removed while the drives are looked at
  fails the listing (`filesystem_windows.go:37`).

Of values: a process whose limit of open files is `unlimited` fails to parse
(`process_linux_common.go:369`); `bootTime` is written without synchronisation,
always with one value (`process_linux_common.go:417`); with no `Procs` configured,
`Init` returns before it makes the cgroup reader (`process_common.go:177`); user
time on AIX stays in ticks (`metrics_aix.go:86`); temperatures below zero are
stored as unsigned numbers (`hwmon.go:243`); the mounts of hostfs are told by a
string prefix, which `/hostfs2` has too (`cgroup/util.go:196`); `WalkDir` calls its
function with a nil entry when `/dev` itself cannot be read
(`io_helper_linux.go:40`).

### Bounds, and why they are enough

* ProcStats: two pids. The beat has one; the other is that of a process that starts
  and exits, in ProcStatsConcurrent of two processes one after the other, which are
  symmetric. The properties speak of one pid or process at a time, and a process
  under a third pid only adds a listing with more entries. `Watched` is the pid of the
  process that starts and exits. Callers: two, since a race needs a reader and a
  writer of one entry. Clock (`MaxTime`): three ticks in ProcStatsSequential, so
  that four samples can be told apart; ProcStatsConcurrent needs one, because its
  `ElapsedNonNegative` compares two; its two processes of one pid have no
  command line, as kernel threads have none, so that what passes from one to the
  other is the environment. ProcStatsForget stops the clock, which no action of it
  depends on.
* PidReaders: the kernel's pid 0, the beat, one pid that two processes have in
  turn, the second protected, and one more pid after it, so that AIX has a next
  entry to answer with. `Slack` is 0: the buffer of macOS can be too small.
* CgroupReader: the root and one slice, which can be moved into, left, removed
  and made anew once (`MaxMade` is 2); the slice has V2 controllers and the root
  has none; a host, a host without pressure files, and a container. Usage
  (`MaxUsage`) up to one microsecond orders the two samples that are compared,
  in each life of a group. `NsPerUs` is 2: any factor above one tells the units
  apart.
* CgroupIO: three devices, of which two share a line, and two names, so that a
  walk has a node after the one that matched. `MaxRequests` is 2: one before and
  one during the call; `MaxChanges` is 2: the group removed and made anew, or a
  name that passes from one device to another. A request has `Size` 2, so that
  bytes are not requests.
* Mounts: twelve mounts, chosen for the branches of the filters: one device in
  three directories, a directory with two devices, a bind mount, a namespace, a
  pseudo filesystem, a drive without a type, cgroups on the host and under
  hostfs. `MaxChanges` is 3: a mount, one that covers it, and an unmount.
* CpuMonitor: two cores, of which either may go offline: so that one before the
  other can come and go. Two ticks of each line (`MaxTicks`) give two samples
  with something between them; CpuPanic, which needs none, has three.
  Differences wrap at 64.
* DiskIO: one fixed disk and one that is unplugged and plugged in once
  (`MaxLife`); two requests (`MaxWork`) of one or two milliseconds each
  (`Steps`) roll a counter of width 3 over once, to zero or past it. `MaxCPU` is
  2, for two rounds with ticks before each; the CPU total may decrease.
* Memory: three pages, so that free, cached and other pages can all be there; two
  moves during a call (`MaxMoves`), so that the error can exceed one page; sizes
  wrap at 32, above every true value. Pages of macOS have 4096 bytes or four
  times that. Two swap devices, one of which can come while the other goes; the
  place of the second has nothing, something small, or a number whose sum with the
  first wraps (`Strays`).
* Hwmon: two directories and four chips: one with all kinds of labels, one with an
  oddly named file, one with an unreadable input and an unreadable label, one with a
  label and no input.
  `MaxBinds` is 2 for each directory: unbound and bound anew.

The proofs need none of these bounds.

### Fairness and deadlock

`ExitedForgotten` assumes that a goroutine in a call goes on (`WF` of `Step`: the
Go scheduler is fair and file reads return) and that `Get` is called again and
again (`SF` of `StartGet`: the caller is periodic; strong, because the goroutine is
also used for other calls). Nothing obliges a process to exit, time to pass or
anybody to call `GetOne`.

`FetchEnds` assumes only the first of these (`WF` of `Run`). On AIX the walk could
go on for ever if the index did not pass every entry it was given; that it ends
although processes start while it runs is what the property says.

Each of the two has a part that needs no fairness, is an action property and is
proved. `GoneIsDropped`: a Get that holds nothing of an exited process drops it, and
what no call holds never comes back; fairness only adds that such a Get is made.
`CallShortens`: each step of a call lowers a bound on the steps that are left
(`Rank`), which nothing in the kernel can raise; fairness only adds that the steps
are taken.

Deadlock is checked in every run: a caller can always make another call.

## The proofs

They hold for any constants that satisfy the named assumptions of the modules.

| Theorem | Says | Also assumes | Along |
|---|---|---|---|
| ProcStats `TypeCorrect` | `[]TypeOK` | | each action keeps each variable's type |
| `ElapsedCorrect` | `[]ElapsedNonNegative` | | `SampleInv`: every sample anywhere (map, locals, results) is at most `now`, so a baseline read before `SampleTime` is not after it |
| `UsageCorrect` | `[]UsageNonNegative` | `NoPidReuse`, `OneCaller` | `BaseInv`: the tracked ticks of a pid are at most those of its process, and of a call under way those read before are at most those read in it |
| `SamplesCorrect` | `SamplesAdvance` | `NoPidReuse`, `OneCaller` | the same for `SampleTime` |
| `ReportsCorrect` | `[]ReportedOnce` | `NoPidReuse`, `OneCaller` | what is reported is at most the ticks of the sample that is kept or about to be kept |
| `PidSampledCorrect` | `PidIsSampled` | `NoPidReuse`, `OneCaller` | step by step: each action of ProcStats is an action of Sampler or a stutter; `ComputedInv`: what was computed in the call under way is the difference of its sample to the entry that is still tracked |
| `DroppedCorrect` | `GoneIsDropped` | | `TypeOK` is enough: of a process that is gone, each action leaves clean what was clean |
| `ForgottenForGood` | `[](Forgotten(x) => []Forgotten(x))` | | the same; `Forgotten`: `x` is gone, and neither the tracked map nor a call shows anything of it, inherited arguments and environment included |
| PidReaders `TypeCorrect` | `[]TypeOK` | | as above |
| `OneProcessCorrect` | `[]StateOfOneProcess` | | `OneInv`: while no process has taken the pid since the call began, every field filled so far is of the one process that had it; on AIX `procExists` rules out the next entry |
| `ListedOnceCorrect` | `[]ListedOnce` | | `OnceInv`: a pid is still to be filled, being filled or listed, one of the three; on AIX the listed pids are below `index` |
| `StateCompleteCorrect` | `[]StateComplete` | | `CompleteInv`: each field has been filled by the time the code has passed the read that fills it |
| `RunningIsFoundCorrect` | `[]RunningIsFound` | | `FoundInv`: the pid of a process that has run since the call began is listed, being filled or still to come, and no read of it fails |
| `ShortensCorrect` | `CallShortens` | | `Rank` counts the pids that are still to come, and the stages of the one being filled; one case for each action |
| CgroupReader `TypeCorrect` | `[]TypeOK` | | as above, with what an idle reader has |
| `AllOrNothingCorrect` | `[]AllOrNothing` | | `StatsInv`: what was got and what is still to be got make up what must be got |
| `OverrideCorrect` | `[]OverrideReadsAll` | `HasGroups` | `PathsInv`: with the override, the paths are the root's |
| `UsageCorrect` | `[]SameGroupNonNegative` | | `UsageInv`, by `UsedWithin`: a usage that was read in some life of a group is at most the current one as long as that life lasts, and a life that is over never comes back |
| Mounts `MountsTypeCorrect` | `[]MountsTypeOK` | | as above |
| `ListedCorrect` | `[]DevicesListed` | | `TableInv`: each mount is in the table once and those that stayed are in it; `ListInv`: on macOS the entries of those that stayed are among the number asked for, on Windows each is listed or its drive is still to come; and lemmas on `filterDuplicates`, which keeps a shortest directory of each path |
| `UsageOwnCorrect` | `[]UsageOfOwnDevice` | | `TableInv`: a mount that stayed shows in its directory unless another came there |
| `ServesCorrect` | `[]MountpointServes` | | `ReaderInv`: of the mounts that stayed, those in the Reader's directories are of the controllers it found there; with `TableInv` |
| CgroupIO `TypeCorrect` | `[]TypeOK` | | with `NamesInv` |
| `ErrorCorrect` | `[]ErrorOnlyIfRemoved` | | `StayedInv`: a group that stayed still exists |
| `NamesCorrect` | `[]NameStoodForDevice` | | `NamesInv`: `stood` has what each node stands for, every name found so far stood for the device it was found for, and the line is the one parsed |
| `StatsCorrect` | `[]StatsComplete` | | `ShownInv`: the lines so far are shown, and the names of the next one are right; in a walk `WalkInv`: what was found is the last match so far |
| `TotalCorrect` | `[]TotalWithinCall` | | `TotalInv`: the counts at the start, those of the first file and the current ones are in order, device by device, and so are their sums |
| CpuMonitor `TypeCorrect` | `[]TypeOK` | | as above |
| `TotalPctCorrect` | `[]TotalPctWithinBounds` | | `TotalsInv`: kept, read and current totals are in order, class by class but for iowait, and below the width |
| `SameCoreCorrect` | `[]PrevIsSameCore` | | `PlaceInv`: every list has its cores in ascending order, each at the place that the number of those below it gives |
| `CorePctCorrect` | `[]CorePctWithinBounds` | | `AdvanceInv`: a line is not ahead of the core it was read from, nor a kept line of the one it will be compared with |
| DiskIO `IntervalCorrect` | `[]IntervalMatches` | | `IntervalInv`: between rounds, each device there was kept at the CPU sample the last round closed with; within a round that holds of those still to be calculated |
| `AccountedCorrect` | `[]AllAccounted` | | `ResultInv`: counters of one life are in order and below the width |
| `RolloverCorrect` | `[]RolloverWithinOne` | | `ResultInv`, and `Wrap`: adding less than the width rolls over at most once |
| `SamplerCorrect` | `ImplementsSampler` | | step by step: each action of DiskIO is an action of Sampler or a stutter; `OrderInv` and `IntervalInv` for the steps that report |
| Memory `TypeCorrect` | `[]TypeOK` | | the sizes of pages and swap space fit in 64 bits |
| `ActualUsedCorrect` | `[]ActualUsedDrift` | | `FreeInv`, `CachedInv`: how far the pages now are from those read |
| `PctCorrect` | `[]PctWithinBounds` | | `PctInv`: where there is a percentage, what is used is at most the total, and what is actually used too if no page moved |
| Hwmon `TypeCorrect` | `[]TypeOK` | | as above |
| `DetectionCorrect` | `[]DetectionComplete` | | `DetectInv`: every path that stayed is still to be looked at or has the sensors of its chip |
| `ReportCorrect` | `[]ReportComplete` | | `ReportInv`: every sensor with a key of its own is still to be fetched or stands under its key |

Few of the safety properties are inductive as they stand: each speaks of the moment
a result is there, and the invariant says what the call had gathered before.

The extra assumptions are needed. `NoPidReuse` (no two processes have one pid) and
`OneCaller`: with reuse, or with two callers, TLC finds the properties violated.
`HasGroups` (there is a V1 controller, or V2 is there): without either there are no
paths that the override could replace.

The assumptions on constants say what the system guarantees: there are finitely
many cores, devices and swap devices, a device has one line in `io.stat`, and all
memory and all swap space fit in 64 bits. What stands at the places of
OpenBSD's swap devices may be any number.

One proof is about sums: the requests of all devices (CgroupIO), which the model
writes with the fold of the community modules. The proof module first derives what
it needs of such sums (that they exist, are unique, grow with their terms and can be
added) by induction over the subsets of a finite set. That induction is a least
counterexample: the natural numbers are well founded, so a property of finite sets
that fails has a smallest set for which it fails.

Only model-checked: the liveness properties `ExitedForgotten` and `FetchEnds`, which
the provers cannot treat. What remains of them without fairness is proved
(`DroppedCorrect`, `ForgottenForGood`, `ShortensCorrect`). Every other property of a
passing run is a theorem.

## Not modelled

* `report`, `numcpu`, `network`, `host`, `resolve`, the load averages and the
  rounding: no state and one read each. `report` is the callers of ProcStats.
* `diskio` on Windows, which keeps no sample, and elsewhere, where there are stubs.
* `includeTopProcesses` and everything else that only changes what is returned:
  formatting, conversion of events to maps.
* The parsers' handling of malformed content: a read succeeds or fails. The mount
  table of Linux is read at once, and percentages are not rounded.
* Units and values where no property tells them apart: wait and service times,
  sensor values, the fields of a cgroup controller other than its CPU usage,
  network counters.

`PROJECT.json` gives the reason for each part.

## Plan

Done: the modules above, with their runs and proofs. Left:

1. `TopProcesses`: `includeTopProcesses` against a definition of what the top
   processes are, and `CpuLists` (`parseCPUList` of numcpu), as functions over
   bounded inputs.
2. The reading of the fields of one controller of `cgroup`, file by file, as
   CgroupIO does for blkio and io.

The `Monitor` of `cpu` is not an implementation of Sampler: `FetchCores` moves the
kept totals on without reporting them, so that the next `Fetch` starts where no
report ended.
