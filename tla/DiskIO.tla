-------------------------------- MODULE DiskIO --------------------------------
(***************************************************************************)
(* metric/system/diskio.IOStat on Linux, driven in rounds by its caller:   *)
(* IOCounters, OpenSampling, CalcIOStatistics of every listed device,      *)
(* CloseSampling.  The kernel counts on between any two of these, and      *)
(* devices are unplugged and plugged in again.                             *)
(***************************************************************************)
EXTENDS Integers

CONSTANTS
  Devices,   \* device names
  CanUnplug, \* the devices that may be unplugged
  CPUDrops,  \* whether the CPU total may decrease, as its iowait part does
  Width32,   \* the kernel shows times modulo Width32 (2^32)
  Width64,   \* differences are taken modulo Width64 (2^64)
  MaxWork,   \* bound: requests a device completes
  Steps,     \* bound: the milliseconds that one of them may take
  MaxCPU,    \* bound: the CPU total
  MaxLife,   \* bound: times that a device is plugged in
  None       \* no counter

ASSUME DiskAssumption ==
  /\ CanUnplug \subseteq Devices
  /\ CPUDrops \in BOOLEAN
  /\ Width32 \in Nat \ {0}
  /\ Width64 \in Nat
  /\ Steps \subseteq Nat
  /\ {MaxWork, MaxCPU, MaxLife} \subseteq Nat
  /\ MaxWork < Width64 /\ MaxCPU < Width64

VARIABLES
  plugged,       \* the devices that /proc/diskstats lists
  disk,          \* of each device: its life, requests and time in that life
  cpu,           \* the CPU total
  pc,            \* of the caller: "idle", "listed" or "open"
  counters,      \* what IOCounters returned, without what was calculated
  curCPU,        \* IOStat.curCPU
  lastCPU,       \* IOStat.lastCPU
  lastCounters,  \* IOStat.lastDiskIOCounters
  keptAt,        \* history: curCPU when the last counter was kept
  accounted,     \* history: requests before the first counter or in a result
  result         \* what CalcIOStatistics returned last in this round

kernel == <<plugged, disk, cpu>>
history == <<keptAt, accounted>>
vars == <<plugged, disk, cpu, pc, counters, curCPU, lastCPU, lastCounters,
          keptAt, accounted, result>>

(* A disk.IOCountersStat: a count, a time as the kernel shows it, and for  *)
(* the properties the whole time and the life that they belong to.         *)
Counter == [ios : Nat, time : 0..(Width32 - 1), busy : Nat, life : Nat]

(* An IOMetric: the requests and the CPU time that its rates are made of. *)
Result == [device : Devices, ios : Nat, cpu : Nat]

ASSUME NoCounterAssumption == None \notin Counter \cup Result

Init ==
  /\ plugged = Devices
  /\ disk = [d \in Devices |-> [ios |-> 0, busy |-> 0, life |-> 1]]
  /\ cpu = 0
  /\ pc = "idle"
  /\ counters = [d \in Devices |-> None]
  /\ curCPU = 0
  /\ lastCPU = 0
  /\ lastCounters = [d \in Devices |-> None]
  /\ keptAt = [d \in Devices |-> 0]
  /\ accounted = [d \in Devices |-> 0]
  /\ result = None

-----------------------------------------------------------------------------
(* The kernel. *)

Work(d, ms) ==
  /\ d \in plugged
  /\ disk[d].ios < MaxWork
  /\ disk' = [disk EXCEPT ![d] =
       [ios |-> @.ios + 1, busy |-> @.busy + ms, life |-> @.life]]
  /\ UNCHANGED <<plugged, cpu, pc, counters, curCPU, lastCPU, lastCounters,
                 history, result>>

CPUTick(n) ==
  /\ n = 1 \/ CPUDrops
  /\ cpu + n \in 0..MaxCPU
  /\ cpu' = cpu + n
  /\ UNCHANGED <<plugged, disk, pc, counters, curCPU, lastCPU, lastCounters,
                 history, result>>

Unplug(d) ==
  /\ d \in plugged \cap CanUnplug
  /\ plugged' = plugged \ {d}
  /\ UNCHANGED <<disk, cpu, pc, counters, curCPU, lastCPU, lastCounters, history, result>>

(* A device counts from zero when it is plugged in. *)
Plug(d) ==
  /\ d \in CanUnplug \ plugged
  /\ disk[d].life < MaxLife
  /\ plugged' = plugged \cup {d}
  /\ disk' = [disk EXCEPT ![d] = [ios |-> 0, busy |-> 0, life |-> @.life + 1]]
  /\ UNCHANGED <<cpu, pc, counters, curCPU, lastCPU, lastCounters, history, result>>

-----------------------------------------------------------------------------
(* IOCounters: gopsutil reads /proc/diskstats. *)
IOCounters ==
  /\ pc = "idle"
  /\ pc' = "listed"
  /\ counters' = [d \in Devices |->
       IF d \in plugged
       THEN [ios |-> disk[d].ios, time |-> disk[d].busy % Width32,
             busy |-> disk[d].busy, life |-> disk[d].life]
       ELSE None]
  /\ UNCHANGED <<kernel, curCPU, lastCPU, lastCounters, history, result>>

OpenSampling ==
  /\ pc = "listed"
  /\ pc' = "open"
  /\ curCPU' = cpu
  /\ UNCHANGED <<kernel, counters, lastCPU, lastCounters, history, result>>

(* /proc/stat cannot be read: the caller gives the round up. *)
OpenSamplingFails ==
  /\ pc = "listed"
  /\ pc' = "idle"
  /\ counters' = [d \in Devices |-> None]
  /\ UNCHANGED <<kernel, curCPU, lastCPU, lastCounters, history, result>>

(* Mutant: the whole counter is taken to be 64 bits wide. *)
FixRolloverWide(current, prev) == (current - prev) % Width64

(* A decrease is taken to be one roll over of a 32 bit counter. *)
returnOrFix32BitRollover(current, prev) ==
  IF current >= prev THEN current - prev
  ELSE IF prev > Width32 - 1 THEN 0
  ELSE (Width32 - 1 - prev) + current

(* deltams, up to the factor that turns it into milliseconds. *)
DeltaCPU == (curCPU - lastCPU) % Width64

(* The requests and the time that a result is calculated from. *)
DeltaIOs(d) == (counters[d].ios - lastCounters[d].ios) % Width64
DeltaTime(d) == returnOrFix32BitRollover(counters[d].time, lastCounters[d].time)

(* Mutant: the counter is kept although the result was an error. *)
KeepWhenRejected(d) ==
  /\ DeltaCPU = 0
  /\ lastCounters' = [lastCounters EXCEPT ![d] = counters[d]]
  /\ keptAt' = [keptAt EXCEPT ![d] = curCPU]
  /\ result' = None
  /\ UNCHANGED accounted

(* CalcIOStatistics: the last counter is not found, so there is nothing to *)
(* calculate.                                                              *)
CalcFirst(d) ==
  /\ lastCounters[d] = None
  /\ lastCounters' = [lastCounters EXCEPT ![d] = counters[d]]
  /\ keptAt' = [keptAt EXCEPT ![d] = curCPU]
  /\ accounted' = [accounted EXCEPT ![d] = counters[d].ios]
  /\ result' = [device |-> d, ios |-> 0, cpu |-> 0]

(* CalcIOStatistics: no CPU time went by, which is an error. *)
CalcRejected(d) ==
  /\ lastCounters[d] # None
  /\ DeltaCPU = 0
  /\ result' = None
  /\ UNCHANGED <<lastCounters, history>>

(* CalcIOStatistics: a result, and the counter is kept. *)
CalcResult(d) ==
  /\ lastCounters[d] # None
  /\ DeltaCPU > 0
  /\ lastCounters' = [lastCounters EXCEPT ![d] = counters[d]]
  /\ keptAt' = [keptAt EXCEPT ![d] = curCPU]
  /\ accounted' = [accounted EXCEPT ![d] =
       IF lastCounters[d].life = counters[d].life THEN @ + DeltaIOs(d)
                                                  ELSE counters[d].ios]
  /\ result' = [device |-> d, ios |-> DeltaIOs(d), cpu |-> DeltaCPU]

CalcIOStatistics(d) ==
  /\ pc = "open"
  /\ counters[d] # None
  /\ CalcFirst(d) \/ CalcRejected(d) \/ CalcResult(d)
  /\ counters' = [counters EXCEPT ![d] = None]
  /\ UNCHANGED <<kernel, pc, curCPU, lastCPU>>

(* Mutant: the CPU sample is kept only by the first round. *)
CloseSamplingOnce ==
  /\ pc = "open"
  /\ \A d \in Devices : counters[d] = None
  /\ pc' = "idle"
  /\ lastCPU' = IF lastCPU = 0 THEN curCPU ELSE lastCPU
  /\ result' = None
  /\ UNCHANGED <<kernel, counters, curCPU, lastCounters, history>>

CloseSampling ==
  /\ pc = "open"
  /\ \A d \in Devices : counters[d] = None
  /\ pc' = "idle"
  /\ lastCPU' = curCPU
  /\ result' = None
  /\ UNCHANGED <<kernel, counters, curCPU, lastCounters, history>>

Next ==
  \/ \E d \in Devices, ms \in Steps : Work(d, ms)
  \/ \E n \in {-1, 1} : CPUTick(n)
  \/ \E d \in Devices : Unplug(d) \/ Plug(d) \/ CalcIOStatistics(d)
  \/ IOCounters
  \/ OpenSampling
  \/ OpenSamplingFails
  \/ CloseSampling

Spec == Init /\ [][Next]_vars

-----------------------------------------------------------------------------
(* Properties *)

(* The type of every variable. *)
TypeOK ==
  /\ plugged \subseteq Devices
  /\ disk \in [Devices -> [ios : Nat, busy : Nat, life : Nat]]
  /\ cpu \in Nat
  /\ pc \in {"idle", "listed", "open"}
  /\ counters \in [Devices -> Counter \cup {None}]
  /\ curCPU \in Nat
  /\ lastCPU \in Nat
  /\ lastCounters \in [Devices -> Counter \cup {None}]
  /\ keptAt \in [Devices -> Nat]
  /\ accounted \in [Devices -> Nat]
  /\ result \in Result \cup {None}

(* A result is about to be calculated, from two counters of one life.      *)
HasLast(d) ==
  /\ pc = "open"
  /\ counters[d] # None /\ lastCounters[d] # None
  /\ counters[d].life = lastCounters[d].life

TrueTime(d) == counters[d].busy - lastCounters[d].busy

(* The CPU time that a result is divided by is the time between the two    *)
(* rounds its counters come from: calls of CalcIOStatistics that failed    *)
(* and rounds that were given up lose none, and a device that was away     *)
(* for a few rounds spoils nothing for the others.                         *)
IntervalMatches == \A d \in Devices : HasLast(d) => lastCPU = keptAt[d]

(* Every request that the last counter shows is accounted for exactly      *)
(* once, even if CalcIOStatistics failed in between.                       *)
AllAccounted ==
  \A d \in Devices :
    lastCounters[d] # None => accounted[d] = lastCounters[d].ios

(* A 32 bit counter that rolled over once is reconstructed to within a     *)
(* millisecond.                                                            *)
RolloverWithinOne ==
  \A d \in Devices : HasLast(d) /\ TrueTime(d) < Width32 =>
    DeltaTime(d) \in {TrueTime(d) - 1, TrueTime(d)}
=============================================================================
