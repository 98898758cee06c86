------------------------------ MODULE CpuMonitor ------------------------------
(***************************************************************************)
(* metric/cpu.Monitor: Fetch and FetchCores read /proc/stat and then       *)
(* /proc/cpuinfo, or on systems without them the totals and then the       *)
(* cores, compare what they read with the sample of the previous call,     *)
(* whichever of the two it was, and keep the new one.  Counters advance,   *)
(* and cores come and go, between and during the calls.                    *)
(***************************************************************************)
EXTENDS Integers, Sequences, FiniteSets

CONSTANTS
  Cores,    \* CPU numbers
  MaxTicks, \* bound: the ticks counted on a line
  Width     \* counters and their differences are taken modulo Width (2^64)

ASSUME CpuAssumption ==
  /\ Cores \subseteq Nat /\ IsFiniteSet(Cores)
  /\ MaxTicks \in Nat
  /\ Width \in Nat
  /\ MaxTicks < Width

(* A CPU: its counters, in the classes that the percentages tell apart,    *)
(* and the core they came from.  NoCore is what neither a total nor the    *)
(* zero value has.                                                         *)
NoCore == -1
CPU == [core : Cores \cup {NoCore}, busy : Nat, idle : Nat, wait : Nat]
ZeroCPU == [core |-> NoCore, busy |-> 0, idle |-> 0, wait |-> 0]

(* Mutant: iowait is left out of the total. *)
TotalWithoutWait(c) == c.busy + c.idle

(* CPU.Total. *)
Total(c) == c.busy + c.idle + c.wait

(* CPUMetrics: the "cpu" line, and the "cpuN" lines of the online cores.   *)
NoSample == [totals |-> ZeroCPU, list |-> <<>>]

VARIABLES
  os,         \* what Get was built for, see Systems
  online,     \* the cores that have a line in /proc/stat and /proc/cpuinfo
  core,       \* the counters of each core
  totals,     \* the counters of the "cpu" line
  pc,         \* "idle", the call that has read its list, one that has
              \* only read the totals, or "panic"
  sample,     \* the CPUMetrics that the call has read
  lastSample  \* Monitor.lastSample

vars == <<os, online, core, totals, pc, sample, lastSample>>

(* Linux and FreeBSD have /proc; AIX, macOS and Windows are "other".  A    *)
(* tick may stand for any unit of time.                                    *)
Systems == {"procfs", "openbsd", "other"}

Init ==
  /\ os \in Systems
  /\ online = Cores
  /\ core = [i \in Cores |-> [ZeroCPU EXCEPT !.core = i]]
  /\ totals = ZeroCPU
  /\ pc = "idle"
  /\ sample = NoSample
  /\ lastSample = NoSample

-----------------------------------------------------------------------------
(* The kernel. *)

Classes == {"busy", "idle", "wait"}

(* Core i books a tick under one class, or takes one back: iowait "may     *)
(* decrease in certain conditions", says proc(5).                          *)
Tick(i, class, n) ==
  /\ i \in online
  /\ n = 1 \/ class = "wait"
  /\ \A line \in {core[i], totals} :
       line[class] + n >= 0 /\ Total(line) + n <= MaxTicks
  /\ core' = [core EXCEPT ![i][class] = @ + n]
  /\ totals' = [totals EXCEPT ![class] = @ + n]
  /\ UNCHANGED <<os, online, pc, sample, lastSample>>

(* A core is taken offline, but never the only one that is left. *)
Offline(i) ==
  /\ i \in online /\ online # {i}
  /\ online' = online \ {i}
  /\ UNCHANGED <<os, core, totals, pc, sample, lastSample>>

Online(i) ==
  /\ i \in Cores \ online
  /\ online' = online \cup {i}
  /\ UNCHANGED <<os, core, totals, pc, sample, lastSample>>

-----------------------------------------------------------------------------
(* The members of S that are less than i. *)
Below(S, i) == Cardinality({j \in S : j < i})

(* statScanner: the cores that have a line, in ascending order. *)
CoreList ==
  [k \in 1..Cardinality(online) |->
     core[CHOOSE i \in online : Below(online, i) = k - 1]]

(* Get, first half: scanStatFile. *)
ReadStat(call) ==
  /\ pc = "idle" /\ os = "procfs"
  /\ pc' = call
  /\ sample' = [totals |-> totals, list |-> CoreList]
  /\ UNCHANGED <<os, online, core, totals, lastSample>>

(* Get, second half, fails: the call returns the error and nothing is kept. *)
FailCPUInfo ==
  /\ pc \in (IF os = "procfs" THEN {"Fetch", "FetchCores"}
                             ELSE {"FetchTotals", "FetchCoresTotals"})
  /\ pc' = "idle"
  /\ sample' = NoSample
  /\ UNCHANGED <<os, online, core, totals, lastSample>>

(* Get without /proc, first half: one system call for the totals. *)
ReadTotals(call) ==
  /\ pc = "idle" /\ os # "procfs"
  /\ pc' = IF call = "Fetch" THEN "FetchTotals" ELSE "FetchCoresTotals"
  /\ sample' = [totals |-> totals, list |-> <<>>]
  /\ UNCHANGED <<os, online, core, totals, lastSample>>

(* OpenBSD: every core is filled from loadGlobal, which has the totals. *)
LoadGlobal == [k \in 1..Cardinality(online) |-> sample.totals]

(* Get without /proc, second half: the cores that are there by now. *)
ReadCores ==
  /\ pc \in {"FetchTotals", "FetchCoresTotals"}
  /\ pc' = IF pc = "FetchTotals" THEN "Fetch" ELSE "FetchCores"
  /\ sample' = [totals |-> sample.totals,
                list |-> IF os = "openbsd" THEN LoadGlobal ELSE CoreList]
  /\ UNCHANGED <<os, online, core, totals, lastSample>>

(* Both calls return Metrics (see Returned) and overwrite the last sample. *)
KeepSample ==
  /\ pc' = "idle"
  /\ lastSample' = sample
  /\ sample' = NoSample
  /\ UNCHANGED <<os, online, core, totals>>

Fetch == pc = "Fetch" /\ KeepSample

(* The CPUInfo list, if the platform has one, is indexed without a check   *)
(* of its length: one entry per core that is online when it is read.       *)
CPUInfoTooShort ==
  LET infos == Cardinality(online)
  IN os = "procfs" /\ infos # 0 /\ infos < Len(sample.list)

FetchCores == pc = "FetchCores" /\ ~CPUInfoTooShort /\ KeepSample

(* metric.CPUInfo[i] is out of range: the goroutine panics. *)
FetchCoresPanics ==
  /\ pc = "FetchCores" /\ CPUInfoTooShort
  /\ pc' = "panic"
  /\ UNCHANGED <<os, online, core, totals, sample, lastSample>>

Next ==
  \/ \E i \in Cores, class \in Classes, n \in {-1, 1} : Tick(i, class, n)
  \/ \E i \in Cores : Offline(i) \/ Online(i)
  \/ \E call \in {"Fetch", "FetchCores"} : ReadStat(call) \/ ReadTotals(call)
  \/ ReadCores
  \/ FailCPUInfo
  \/ Fetch
  \/ FetchCores
  \/ FetchCoresPanics

Spec == Init /\ [][Next]_vars

-----------------------------------------------------------------------------
(* What the call under way returns, and what Format makes of it. *)

(* Mutant: the length check is off by one. *)
PrevCoreOffByOne(i) ==
  IF i + 1 <= Len(lastSample.list) THEN lastSample.list[i + 1] ELSE ZeroCPU

(* The i-th core of this list is compared with the i-th of the previous    *)
(* one, if that was long enough.                                           *)
PrevCore(i) ==
  IF i <= Len(lastSample.list) THEN lastSample.list[i] ELSE ZeroCPU

TotalsReturned == [prev |-> lastSample.totals, cur |-> sample.totals]
CoreReturned(i) == [prev |-> PrevCore(i), cur |-> sample.list[i]]

(* A difference of uint64 totals; Format returns an error if it is zero. *)
TimeDelta(m) == (Total(m.cur) - Total(m.prev)) % Width
Rejected(m) == TimeDelta(m) = 0

(* createTotal: total.norm.pct is 1 - IdleDelta / TimeDelta. *)
IdleDelta(m) == (m.cur.idle - m.prev.idle) + (m.cur.wait - m.prev.wait)

-----------------------------------------------------------------------------
(* Properties *)

IsSample(s) ==
  /\ s.totals \in CPU
  /\ \E n \in 0..Cardinality(Cores) : s.list \in [1..n -> CPU]

(* The type of every variable. *)
TypeOK ==
  /\ os \in Systems
  /\ online \subseteq Cores
  /\ core \in [Cores -> CPU]
  /\ totals \in CPU
  /\ pc \in {"idle", "FetchTotals", "FetchCoresTotals", "Fetch", "FetchCores",
             "panic"}
  /\ IsSample(sample)
  /\ IsSample(lastSample)

WithinBounds(m) == Rejected(m) \/ IdleDelta(m) \in 0..TimeDelta(m)

(* The two ways in which two samples may not be comparable: they are of    *)
(* two cores, or iowait went back in between.                              *)
OfTwoCores(m) == m.prev.core \notin {m.cur.core, NoCore}
WaitWentBack(m) == m.cur.wait < m.prev.wait

(* Fetch: the normalised total percentage of the machine is in [0, 1],     *)
(* whatever calls of FetchCores came in between and whatever cores came    *)
(* and went, unless iowait went back.                                      *)
TotalPctWithinBounds ==
  pc = "Fetch" =>
    WithinBounds(TotalsReturned) \/ WaitWentBack(TotalsReturned)

(* FetchCores: the percentage of a core is in [0, 1], whatever call was    *)
(* the previous one, unless the core is compared with another one or its   *)
(* iowait went back.                                                       *)
CorePctWithinBounds ==
  pc = "FetchCores" =>
    \A i \in DOMAIN sample.list :
      LET m == CoreReturned(i)
      IN WithinBounds(m) \/ OfTwoCores(m) \/ WaitWentBack(m)

(* The cores that a sample has lines of. *)
CoresOf(s) == {s.list[k].core : k \in DOMAIN s.list}

(* FetchCores compares by the place in the list, although "Count of CPUs   *)
(* can change".  A core that is in both lists is compared with itself      *)
(* exactly if as many cores with a lower number are in both: cores after   *)
(* it may come and go, but one before it shifts it to another core's place *)
(* (OpenBSD's lines are not those of a core).                              *)
PrevIsSameCore ==
  pc = "FetchCores" /\ os # "openbsd" =>
    \A i \in DOMAIN sample.list :
      LET c == sample.list[i].core
      IN c \in CoresOf(lastSample) =>
           (PrevCore(i).core = c <=>
              Below(CoresOf(lastSample), c) = Below(CoresOf(sample), c))

(* CPUInfo is added only if it is available: FetchCores never panics. *)
NoPanic == pc # "panic"
=============================================================================
