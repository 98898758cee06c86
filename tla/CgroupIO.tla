------------------------------- MODULE CgroupIO -------------------------------
(***************************************************************************)
(* The controllers blkio (V1) and io (V2) of one cgroup.  Get opens one    *)
(* file after the other while tasks of the group do I/O and the group is   *)
(* removed or made anew; V2 also looks for the name of every device in     *)
(* /dev, where nodes come and go.                                          *)
(***************************************************************************)
EXTENDS Integers, Sequences, SequencesExt, FiniteSetsExt

CONSTANTS
  Devices,     \* pairs of major and minor number
  Names,       \* names in /dev, in the order of a directory listing
  Lines,       \* of io.stat: each line names one or more devices
  Size,        \* bytes of a request
  MaxRequests, \* bound: requests of the group, in one life
  MaxChanges,  \* bound: how often the group or a node comes or goes
  None         \* no device, no name, no metrics

ASSUME CgroupIOAssumption ==
  /\ IsFiniteSet(Devices)
  /\ Names \in Seq(STRING) /\ IsInjective(Names)
  /\ ToSet(Names) \cap Devices = {}
  /\ Lines \in Seq(Seq(Devices))
  /\ \A k, l \in DOMAIN Lines : \A i \in DOMAIN Lines[k], j \in DOMAIN Lines[l] :
       Lines[k][i] = Lines[l][j] => k = l /\ i = j
  /\ {Size, MaxRequests, MaxChanges} \subseteq Nat
  /\ None \notin Devices \cup ToSet(Names)

Ops == {"read", "write", "discard"}
Counts == [Devices -> [Ops -> Nat]]
NoCounts == [d \in Devices |-> [op \in Ops |-> 0]]
Keys == Devices \cup ToSet(Names)
NoIO == [key \in Keys |-> None]

VARIABLES
  exists,   \* whether the group exists
  count,    \* requests of the group, of each device
  nodes,    \* of each name: the block device that its node stands for
  changes,  \* how often group or nodes changed
  pc,       \* the step that Get is at
  bytes,    \* V1: Bytes of the ThrottleDevices, in requests
  total,    \* V1: TotalIOs
  content,  \* V2: what the scanner reads of io.stat
  line,     \* V2: the line that is parsed
  devIds,   \* V2: the names found for the devices of that line
  listing,  \* V2: the names that WalkDir has listed and not looked at
  found,    \* V2: the name found in it so far
  stats,    \* V2: IOSubsystem.Stats
  pressure, \* V2: whether there is a Pressure
  begun,    \* history: count when the call began
  stayed,   \* history: the group stayed since the call began
  stood     \* history: devices that a name stood for since the call began

group == <<exists, count, changes, begun, stayed>>
v1 == <<bytes, total>>
parser == <<line, devIds, listing, found>>
v2 == <<content, parser, stats, pressure>>
vars == <<exists, count, nodes, changes, pc, bytes, total, content, line, devIds,
          listing, found, stats, pressure, begun, stayed, stood>>

Init ==
  /\ exists = TRUE
  /\ count = NoCounts
  /\ nodes \in [ToSet(Names) -> Devices \cup {None}]
  /\ changes = 0
  /\ pc = "idle"
  /\ bytes = NoCounts
  /\ total = [bytes |-> 0, ios |-> 0]
  /\ content = NoCounts
  /\ line = 0 /\ devIds = <<>> /\ listing = {} /\ found = None
  /\ stats = NoIO
  /\ pressure = FALSE
  /\ begun = NoCounts
  /\ stayed = FALSE
  /\ stood = [n \in ToSet(Names) |-> {}]

-----------------------------------------------------------------------------
(* The kernel *)

SumOfOps(c) == c["read"] + c["write"] + c["discard"]
Requests(counts) == MapThenSumSet(LAMBDA d : SumOfOps(counts[d]), Devices)

Request(d, op) ==
  /\ exists
  /\ count' = [count EXCEPT ![d][op] = @ + 1]
  /\ UNCHANGED <<exists, nodes, changes, pc, v1, v2, begun, stayed, stood>>

RemoveGroup ==
  /\ exists /\ changes < MaxChanges
  /\ exists' = FALSE /\ stayed' = FALSE
  /\ changes' = changes + 1
  /\ UNCHANGED <<count, nodes, pc, v1, v2, begun, stood>>

(* The group of a container that is started again has the same path. *)
CreateGroup ==
  /\ ~exists /\ changes < MaxChanges
  /\ exists' = TRUE /\ count' = NoCounts
  /\ changes' = changes + 1
  /\ UNCHANGED <<nodes, pc, v1, v2, begun, stayed, stood>>

(* udev makes or removes a node. *)
Mknod(n, d) ==
  /\ nodes[n] # d /\ (nodes[n] = None \/ d = None)
  /\ changes < MaxChanges
  /\ nodes' = [nodes EXCEPT ![n] = d]
  /\ stood' = IF pc = "idle" THEN stood ELSE [stood EXCEPT ![n] = @ \cup {d}]
  /\ changes' = changes + 1
  /\ UNCHANGED <<exists, count, pc, v1, v2, begun, stayed>>

-----------------------------------------------------------------------------
Begin ==
  /\ pc = "idle"
  /\ stayed' = exists
  /\ UNCHANGED <<exists, count, nodes, changes>>

Kernel == <<group, nodes, stood>>

(* BlockIOSubsystem.Get *)

(* readBlkioValues: no file, no values.  A group that is removed after the *)
(* file was opened fails the read.                                         *)
ReadFails == ~exists /\ pc' = "error" /\ UNCHANGED <<Kernel, v1, v2>>

IoServiceBytes ==
  /\ Begin
  /\ \/ pc' = "io_serviced" /\ bytes' = IF exists THEN count ELSE NoCounts
     \/ ~exists /\ pc' = "error" /\ UNCHANGED bytes
  /\ begun' = count
  /\ UNCHANGED <<total, stood, v2>>

(* Mutant: all operations are added up. *)
SumOfAll(counts) == Requests(counts)

(* Of the OperationValues, read and write count. *)
Sum(counts) ==
  MapThenSumSet(LAMBDA d : counts[d]["read"] + counts[d]["write"], Devices)

IoServiced ==
  /\ pc = "io_serviced"
  /\ \/ ReadFails
     \/ /\ pc' = "limits"
        /\ total' = [bytes |-> Size * Sum(bytes),
                     ios |-> IF exists THEN Sum(count) ELSE 0]
        /\ UNCHANGED <<Kernel, bytes, v2>>

(* The four files of limits, which no metric shows. *)
ReadLimits ==
  /\ pc = "limits"
  /\ ReadFails \/ (pc' = "total" /\ UNCHANGED <<Kernel, v1, v2>>)

-----------------------------------------------------------------------------
(* IOSubsystem.Get *)

OpenStat ==
  /\ Begin
  /\ pc' = IF exists THEN "opened" ELSE "error"
  /\ stood' = [n \in ToSet(Names) |-> {nodes[n]}]
  /\ UNCHANGED <<begun, v1, v2>>

(* The error of the scanner is not looked at: of a group that was removed  *)
(* since, there are no lines.                                              *)
ScanStat ==
  /\ pc = "opened"
  /\ pc' = "line"
  /\ content' = IF stayed THEN count ELSE NoCounts
  /\ line' = IF stayed THEN 1 ELSE Len(Lines) + 1
  /\ UNCHANGED <<Kernel, v1, devIds, listing, found, stats, pressure>>

Device == Lines[line][Len(devIds) + 1]

(* Mutant: what was found for the device before is still there. *)
WalkDirStale ==
  /\ pc = "line" /\ line <= Len(Lines) /\ Len(devIds) < Len(Lines[line])
  /\ pc' = "walk"
  /\ listing' = {n \in ToSet(Names) : nodes[n] # None}
  /\ UNCHANGED <<Kernel, v1, content, line, devIds, found, stats, pressure>>

(* fetchDeviceName: WalkDir reads the whole directory. *)
WalkDir ==
  /\ pc = "line" /\ line <= Len(Lines) /\ Len(devIds) < Len(Lines[line])
  /\ pc' = "walk"
  /\ listing' = {n \in ToSet(Names) : nodes[n] # None}
  /\ found' = None
  /\ UNCHANGED <<Kernel, v1, content, line, devIds, stats, pressure>>

(* Its nodes are looked at in order, and the last that matches counts. *)
WalkNode ==
  /\ pc = "walk"
  /\ \E i \in DOMAIN Names :
       /\ Names[i] \in listing /\ \A j \in 1..(i - 1) : Names[j] \notin listing
       /\ found' = IF nodes[Names[i]] = Device THEN Names[i] ELSE found
       /\ listing' = listing \ {Names[i]}
  /\ UNCHANGED <<Kernel, pc, v1, content, line, devIds, stats, pressure>>

(* Without a name, the device goes by its number. *)
WalkDone ==
  /\ pc = "walk" /\ listing = {}
  /\ pc' = "line"
  /\ devIds' = Append(devIds, IF found = None THEN Device ELSE found)
  /\ UNCHANGED <<Kernel, v1, content, line, listing, found, stats, pressure>>

(* The metrics of a line are those of its last device. *)
Metrics(k) == content[Last(Lines[k])]
FoundMetrics(k) == \E op \in Ops : Metrics(k)[op] # 0

(* Mutant: the line is that of its first device only. *)
LineDoneFirst ==
  /\ pc = "line" /\ line <= Len(Lines) /\ Len(devIds) = Len(Lines[line])
  /\ stats' = IF FoundMetrics(line) THEN [stats EXCEPT ![Head(devIds)] = Metrics(line)]
              ELSE stats
  /\ line' = line + 1 /\ devIds' = <<>>
  /\ UNCHANGED <<Kernel, pc, v1, content, listing, found, pressure>>

LineDone ==
  /\ pc = "line" /\ line <= Len(Lines) /\ Len(devIds) = Len(Lines[line])
  /\ stats' = IF FoundMetrics(line)
              THEN [key \in Keys |->
                      IF key \in ToSet(devIds) THEN Metrics(line) ELSE stats[key]]
              ELSE stats
  /\ line' = line + 1 /\ devIds' = <<>>
  /\ UNCHANGED <<Kernel, pc, v1, content, listing, found, pressure>>

(* Mutant: without io.pressure the call fails. *)
StatPressureHard ==
  /\ pc = "line" /\ line > Len(Lines)
  /\ pc' \in (IF exists THEN {"pressure", "error"} ELSE {"error"})
  /\ UNCHANGED <<Kernel, v1, v2>>

(* io.pressure, which not every kernel has. *)
StatPressure ==
  /\ pc = "line" /\ line > Len(Lines)
  /\ pc' \in (IF exists THEN {"pressure", "stats"} ELSE {"stats"})
  /\ UNCHANGED <<Kernel, v1, v2>>

GetPressure ==
  /\ pc = "pressure"
  /\ pc' = IF exists THEN "stats" ELSE "error"
  /\ pressure' = exists
  /\ UNCHANGED <<Kernel, v1, content, parser, stats>>

-----------------------------------------------------------------------------
Returned == pc \in {"total", "stats", "error"}

(* The caller takes what was returned. *)
Return ==
  /\ Returned
  /\ pc' = "idle"
  /\ bytes' = NoCounts /\ total' = [bytes |-> 0, ios |-> 0]
  /\ content' = NoCounts
  /\ line' = 0 /\ devIds' = <<>> /\ listing' = {} /\ found' = None
  /\ stats' = NoIO /\ pressure' = FALSE
  /\ begun' = NoCounts /\ stayed' = FALSE
  /\ stood' = [n \in ToSet(Names) |-> {}]
  /\ UNCHANGED <<exists, count, nodes, changes>>

Next ==
  \/ /\ Requests(count) < MaxRequests
     /\ \E d \in Devices, op \in Ops : Request(d, op)
  \/ RemoveGroup \/ CreateGroup
  \/ \E n \in ToSet(Names), d \in Devices \cup {None} : Mknod(n, d)
  \/ IoServiceBytes \/ IoServiced \/ ReadLimits
  \/ OpenStat \/ ScanStat
  \/ WalkDir \/ WalkNode \/ WalkDone \/ LineDone
  \/ StatPressure \/ GetPressure
  \/ Return

Spec == Init /\ [][Next]_vars

-----------------------------------------------------------------------------
(* Properties *)

(* The type of every variable. *)
TypeOK ==
  /\ {exists, stayed, pressure} \subseteq BOOLEAN
  /\ {count, bytes, content, begun} \subseteq Counts
  /\ nodes \in [ToSet(Names) -> Devices \cup {None}]
  /\ changes \in 0..MaxChanges
  /\ pc \in {"idle", "io_serviced", "limits", "total", "opened", "line", "walk",
             "pressure", "stats", "error"}
  /\ DOMAIN total = {"bytes", "ios"}
  /\ line \in 0..(Len(Lines) + 1)
  /\ devIds \in Seq(Keys)
  /\ listing \subseteq ToSet(Names)
  /\ found \in ToSet(Names) \cup {None}
  /\ stats \in [Keys -> [Ops -> Nat] \cup {None}]
  /\ stood \in [ToSet(Names) -> SUBSET (Devices \cup {None})]

ReadsAndWrites(counts) ==
  MapThenSumSet(LAMBDA p : counts[p[1]][p[2]], Devices \X {"read", "write"})

(* blkio: the totals of a group that stayed are counts of reads and writes *)
(* that it had during the call, and as they are read in this order, no     *)
(* bytes are shown whose request is not counted.                           *)
TotalWithinCall ==
  pc = "total" /\ stayed =>
    /\ ReadsAndWrites(begun) <= total.ios /\ total.ios <= ReadsAndWrites(count)
    /\ Size * ReadsAndWrites(begun) <= total.bytes
    /\ total.bytes <= Size * total.ios

(* The name that /dev has for a device, or its number. *)
NameOf(d) ==
  LET is == {i \in DOMAIN Names : nodes[Names[i]] = d}
  IN IF is = {} THEN d ELSE Names[Max(is)]

(* io: if neither group nor nodes changed, every device of every line with *)
(* metrics is there under its name, with the metrics of that line.         *)
StatsComplete ==
  pc = "stats" /\ stayed /\ (\A n \in ToSet(Names) : stood[n] = {nodes[n]}) =>
    \A k \in DOMAIN Lines : FoundMetrics(k) =>
      \A d \in ToSet(Lines[k]) : stats[NameOf(d)] = Metrics(k)

(* io: whatever happens to the nodes, what stands under a name are the     *)
(* metrics of a device that the name stood for during the call.            *)
NameStoodForDevice ==
  \A n \in ToSet(Names) : stats[n] # None =>
    \E k \in DOMAIN Lines :
      stats[n] = Metrics(k) /\ ToSet(Lines[k]) \cap stood[n] # {}

(* A group that stays is never an error, whatever files its kernel lacks   *)
(* and whatever happens in /dev.                                           *)
ErrorOnlyIfRemoved == pc = "error" => ~stayed
=============================================================================
