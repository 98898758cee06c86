--------------------------- MODULE CpuMonitorProofs ---------------------------
(* Proofs about CpuMonitor, for any cores, any hotplug and any bounds. *)
EXTENDS CpuMonitor, FiniteSetTheorems, FunctionTheorems, TLAPS

(* Of two readings of one line, the older one is behind in every class     *)
(* but iowait.                                                             *)
Behind(old, new) == old.busy <= new.busy /\ old.idle <= new.idle

(* The "cpu" lines that are remembered, from older to newer. *)
TotalsInv ==
  /\ \A line \in {totals, sample.totals, lastSample.totals} :
       /\ line \in CPU /\ line.core = NoCore
       /\ Total(line) <= MaxTicks
       /\ Behind(line, totals)
  /\ pc \in {"Fetch", "FetchCores", "FetchTotals", "FetchCoresTotals"} =>
       Behind(lastSample.totals, sample.totals)

LEMMA ZeroIsFirst ==
  /\ ZeroCPU \in CPU /\ ZeroCPU.core = NoCore /\ Total(ZeroCPU) = 0
  /\ \A c \in CPU : Behind(ZeroCPU, c) /\ Behind(c, c)
  /\ NoSample.totals = ZeroCPU /\ NoSample.list = <<>>
BY DEF ZeroCPU, CPU, NoCore, Total, Behind, NoSample

LEMMA BehindTransitive ==
  ASSUME NEW a \in CPU, NEW b \in CPU, NEW c \in CPU, Behind(a, b), Behind(b, c)
  PROVE  Behind(a, c)
BY DEF Behind, CPU

(* A tick, and one of iowait taken back, leaves a line ahead of before. *)
Book(line, class, n) == [line EXCEPT ![class] = @ + n]

LEMMA Booked ==
  ASSUME NEW line \in CPU, NEW class \in Classes, NEW n \in {-1, 1},
         n = 1 \/ class = "wait",
         line[class] + n >= 0, Total(line) + n <= MaxTicks
  PROVE  /\ Book(line, class, n) \in CPU
         /\ Book(line, class, n).core = line.core
         /\ Total(Book(line, class, n)) <= MaxTicks
         /\ Behind(line, Book(line, class, n))
BY CpuAssumption DEF Book, CPU, Classes, Total, Behind

LEMMA TotalsInit == Init => TotalsInv
BY ZeroIsFirst, CpuAssumption DEF Init, TotalsInv

LEMMA TotalsStep ==
  ASSUME TotalsInv, [Next]_vars
  PROVE  TotalsInv'
<1>0. totals \in CPU /\ sample.totals \in CPU /\ lastSample.totals \in CPU
  BY DEF TotalsInv
<1>1. ASSUME NEW i \in Cores, NEW class \in Classes, NEW n \in {-1, 1},
             Tick(i, class, n)
      PROVE  TotalsInv'
  <2>1. /\ n = 1 \/ class = "wait"
        /\ totals[class] + n >= 0 /\ Total(totals) + n <= MaxTicks
        /\ totals' = Book(totals, class, n)
        /\ UNCHANGED <<pc, sample, lastSample>>
    BY <1>1 DEF Tick, Book
  <2>2. /\ totals' \in CPU /\ totals'.core = NoCore
        /\ Total(totals') <= MaxTicks /\ Behind(totals, totals')
    BY <1>0, <2>1, Booked DEF TotalsInv
  <2>3. /\ Behind(sample.totals, totals') /\ Behind(lastSample.totals, totals')
        /\ Behind(totals', totals')
    BY <1>0, <2>2, BehindTransitive, ZeroIsFirst DEF TotalsInv
  <2> QED BY <2>1, <2>2, <2>3 DEF TotalsInv
<1>2. ASSUME NEW i \in Cores, Offline(i) \/ Online(i) PROVE TotalsInv'
  BY <1>2 DEF Offline, Online, TotalsInv
<1>3. ASSUME NEW call \in {"Fetch", "FetchCores"}, ReadStat(call) \/ ReadTotals(call)
      PROVE  TotalsInv'
  <2>1. sample'.totals = totals /\ UNCHANGED <<totals, lastSample>>
    BY <1>3 DEF ReadStat, ReadTotals
  <2> QED BY <2>1 DEF TotalsInv
<1>4. CASE ReadCores
  <2>1. sample'.totals = sample.totals /\ UNCHANGED <<totals, lastSample>>
        /\ pc \in {"FetchTotals", "FetchCoresTotals"}
    BY <1>4 DEF ReadCores
  <2> QED BY <2>1 DEF TotalsInv
<1>5. CASE FailCPUInfo
  BY <1>0, <1>5, ZeroIsFirst, CpuAssumption DEF FailCPUInfo, TotalsInv
<1>6. CASE Fetch \/ FetchCores
  BY <1>0, <1>6, ZeroIsFirst, CpuAssumption DEF Fetch, FetchCores, KeepSample, TotalsInv
<1>7. CASE FetchCoresPanics
  BY <1>7 DEF FetchCoresPanics, TotalsInv
<1>8. CASE UNCHANGED vars
  BY <1>8 DEF vars, TotalsInv
<1> QED BY <1>1, <1>2, <1>3, <1>4, <1>5, <1>6, <1>7, <1>8 DEF Next

(* Format's percentage of two readings of one line, with iowait not ahead  *)
(* in the older one.                                                       *)
LEMMA PctWithin ==
  ASSUME NEW old \in CPU, NEW new \in CPU,
         Behind(old, new), old.wait <= new.wait, Total(new) <= MaxTicks
  PROVE  WithinBounds([prev |-> old, cur |-> new])
<1> DEFINE m == [prev |-> old, cur |-> new]
           delta == Total(new) - Total(old)
<1>1. delta \in Nat /\ delta < Width
  BY CpuAssumption DEF Behind, CPU, Total
<1>2. TimeDelta(m) = delta
  BY <1>1, CpuAssumption DEF TimeDelta
<1>3. IdleDelta(m) \in 0..delta
  BY DEF IdleDelta, Behind, CPU, Total
<1> QED BY <1>2, <1>3 DEF WithinBounds

LEMMA TotalsWithin == TotalsInv => TotalPctWithinBounds
<1> SUFFICES ASSUME TotalsInv, pc = "Fetch", ~WaitWentBack(TotalsReturned)
             PROVE  WithinBounds(TotalsReturned)
  BY DEF TotalPctWithinBounds
<1>1. /\ lastSample.totals \in CPU /\ sample.totals \in CPU
      /\ Behind(lastSample.totals, sample.totals)
      /\ Total(sample.totals) <= MaxTicks
  BY DEF TotalsInv
<1>2. lastSample.totals.wait <= sample.totals.wait
  BY <1>1 DEF WaitWentBack, TotalsReturned, CPU
<1> QED BY <1>1, <1>2, PctWithin DEF TotalsReturned

(* The total percentage that Fetch returns is in range unless iowait went  *)
(* back, however cores come and go and however Fetch and FetchCores        *)
(* alternate on one Monitor.                                               *)
THEOREM TotalPctCorrect == Spec => []TotalPctWithinBounds
<1>1. TotalsInv /\ [Next]_vars => TotalsInv'
  BY TotalsStep
<1> QED BY <1>1, TotalsInit, TotalsWithin, PTL DEF Spec

-----------------------------------------------------------------------------
(* The list of the cores *)

LEMMA BelowIsNat ==
  ASSUME NEW S \in SUBSET Nat, IsFiniteSet(S), NEW i \in S
  PROVE  Below(S, i) \in 0..(Cardinality(S) - 1)
<1> DEFINE B == {j \in S : j < i}
<1>1. IsFiniteSet(S \ {i}) /\ Cardinality(S \ {i}) = Cardinality(S) - 1
  BY FS_RemoveElement
<1>2. B \in SUBSET (S \ {i})
  OBVIOUS
<1>3. IsFiniteSet(B) /\ Cardinality(B) <= Cardinality(S) - 1
  BY <1>1, <1>2, FS_Subset
<1>4. Cardinality(B) \in Nat /\ Cardinality(S) \in Nat
  BY <1>3, FS_CardinalityType
<1> QED BY <1>3, <1>4 DEF Below

(* No two members of a set have equally many below them. *)
LEMMA BelowIsInjective ==
  ASSUME NEW S \in SUBSET Nat, IsFiniteSet(S), NEW i \in S, NEW j \in S,
         Below(S, i) = Below(S, j)
  PROVE  i = j
<1>1. ASSUME NEW a \in S, NEW b \in S, a < b PROVE Below(S, a) # Below(S, b)
  <2> DEFINE A == {k \in S : k < a}
             B == {k \in S : k < b}
  <2>1. IsFiniteSet(B)
    BY FS_Subset
  <2>2. ~(a < a) /\ \A k \in S : k < a => k < b
    <3>1. a \in Nat /\ b \in Nat /\ \A k \in S : k \in Nat
      OBVIOUS
    <3> QED BY <1>1, <3>1
  <2>3. A \subseteq B /\ a \in B /\ a \notin A
    BY <1>1, <2>2
  <2>4. Cardinality(A) # Cardinality(B)
    BY <2>1, <2>3, FS_Subset
  <2> QED BY <2>4 DEF Below
<1> QED BY <1>1

(* Each place in the list is that of one core. *)
LEMMA CoreOfPlace ==
  ASSUME NEW S \in SUBSET Nat, IsFiniteSet(S), NEW k \in 1..Cardinality(S)
  PROVE  \E i \in S : Below(S, i) = k - 1
<1> DEFINE n == Cardinality(S)
           f == [i \in S |-> Below(S, i)]
<1>1. n \in Nat
  BY FS_CardinalityType
<1>2. f \in Injection(S, 0..(n - 1))
  BY BelowIsNat, BelowIsInjective DEF Injection, IsInjective
<1>3. IsFiniteSet(0..(n - 1)) /\ Cardinality(0..(n - 1)) = n
  <2> HIDE DEF n
  <2>1. 0 \in Int /\ n - 1 \in Int
    BY <1>1
  <2>2. IsFiniteSet(0..(n - 1))
        /\ Cardinality(0..(n - 1)) = IF 0 > n - 1 THEN 0 ELSE (n - 1) - 0 + 1
    BY <2>1, FS_Interval
  <2> QED BY <1>1, <2>2
<1>4. f \in Surjection(S, 0..(n - 1))
  BY <1>2, <1>3, FS_Injection
<1>5. k - 1 \in 0..(n - 1)
  BY <1>1
<1> QED BY <1>4, <1>5 DEF Surjection

LEMMA NoSampleType == IsSample(NoSample)
<1>1. ZeroCPU \in CPU
  BY DEF ZeroCPU, CPU, NoCore
<1>2. <<>> \in [1..0 -> CPU]
  OBVIOUS
<1>3. 0 \in 0..Cardinality(Cores)
  BY CpuAssumption, FS_CardinalityType
<1> QED BY <1>1, <1>2, <1>3 DEF IsSample, NoSample

LEMMA TypeInit == Init => TypeOK
<1> SUFFICES ASSUME Init PROVE TypeOK
  OBVIOUS
<1>1. ZeroCPU \in CPU /\ \A i \in Cores : [ZeroCPU EXCEPT !.core = i] \in CPU
  BY DEF ZeroCPU, CPU, NoCore
<1> QED BY <1>1, NoSampleType DEF Init, TypeOK

LEMMA OnlineIsFinite ==
  ASSUME TypeOK
  PROVE  /\ online \in SUBSET Nat /\ IsFiniteSet(online)
         /\ Cardinality(online) \in 0..Cardinality(Cores)
         /\ Cardinality(online) \in Nat
<1>1. online \in SUBSET Cores /\ IsFiniteSet(Cores)
  BY CpuAssumption DEF TypeOK
<1>2. IsFiniteSet(online) /\ Cardinality(online) <= Cardinality(Cores)
  BY <1>1, FS_Subset
<1>3. Cardinality(online) \in Nat /\ Cardinality(Cores) \in Nat
  BY <1>1, <1>2, FS_CardinalityType
<1> QED BY <1>1, <1>2, <1>3, CpuAssumption

(* Every entry of the list is that of the core with its place. *)
LEMMA CoreListEntries ==
  ASSUME TypeOK
  PROVE  /\ CoreList \in [1..Cardinality(online) -> CPU]
         /\ \A k \in 1..Cardinality(online) :
              \E i \in online : CoreList[k] = core[i] /\ Below(online, i) = k - 1
<1> DEFINE At(k) == CHOOSE i \in online : Below(online, i) = k - 1
<1>1. \A k \in 1..Cardinality(online) : At(k) \in online /\ Below(online, At(k)) = k - 1
  BY OnlineIsFinite, CoreOfPlace
<1>2. CoreList = [k \in 1..Cardinality(online) |-> core[At(k)]]
  BY DEF CoreList
<1> HIDE DEF At
<1>3. \A i \in online : core[i] \in CPU
  BY DEF TypeOK
<1> QED BY <1>1, <1>2, <1>3

LEMMA TypeStep == TypeOK /\ [Next]_vars => TypeOK'
<1> SUFFICES ASSUME TypeOK, [Next]_vars PROVE TypeOK'
  OBVIOUS
<1> USE DEF TypeOK
<1>1. ASSUME NEW i \in Cores, NEW class \in Classes, NEW n \in {-1, 1}, Tick(i, class, n)
      PROVE  TypeOK'
  <2> HIDE DEF TypeOK
  <2>1. /\ core' = [core EXCEPT ![i] = Book(core[i], class, n)]
        /\ totals' = Book(totals, class, n)
        /\ n = 1 \/ class = "wait"
        /\ core[i][class] + n >= 0 /\ Total(core[i]) + n <= MaxTicks
        /\ totals[class] + n >= 0 /\ Total(totals) + n <= MaxTicks
    BY <1>1 DEF Tick, Book
  <2>2. core[i] \in CPU /\ totals \in CPU
    BY DEF TypeOK
  <2>3. Book(core[i], class, n) \in CPU /\ Book(totals, class, n) \in CPU
    BY <2>1, <2>2, Booked
  <2>4. core' \in [Cores -> CPU] /\ totals' \in CPU
    BY <2>1, <2>2, <2>3 DEF TypeOK
  <2> QED BY <1>1, <2>4 DEF Tick, TypeOK, IsSample
<1>2. ASSUME NEW i \in Cores, Offline(i) \/ Online(i) PROVE TypeOK'
  BY <1>2, CpuAssumption DEF Offline, Online, IsSample
<1>3. ASSUME NEW call \in {"Fetch", "FetchCores"}, ReadStat(call) PROVE TypeOK'
  BY <1>3, OnlineIsFinite, CoreListEntries DEF ReadStat, IsSample
<1>4. ASSUME NEW call \in {"Fetch", "FetchCores"}, ReadTotals(call) PROVE TypeOK'
  BY <1>4, NoSampleType DEF ReadTotals, IsSample, NoSample
<1>5. CASE ReadCores
  <2>1. LoadGlobal \in [1..Cardinality(online) -> CPU]
    BY DEF LoadGlobal, IsSample
  <2>2. /\ sample'.totals \in CPU
        /\ sample'.list \in [1..Cardinality(online) -> CPU]
    BY <1>5, <2>1, CoreListEntries DEF ReadCores, IsSample
  <2> QED BY <1>5, <2>2, OnlineIsFinite DEF ReadCores, IsSample
<1>6. CASE FailCPUInfo
  BY <1>6, NoSampleType DEF FailCPUInfo, IsSample
<1>7. CASE Fetch \/ FetchCores
  BY <1>7, NoSampleType DEF Fetch, FetchCores, KeepSample, IsSample
<1>8. CASE FetchCoresPanics
  BY <1>8 DEF FetchCoresPanics, IsSample
<1>9. CASE UNCHANGED vars
  BY <1>9 DEF vars, IsSample
<1> QED BY <1>1, <1>2, <1>3, <1>4, <1>5, <1>6, <1>7, <1>8, <1>9 DEF Next

(* Every variable has its type, for any cores and any hotplug. *)
THEOREM TypeCorrect == Spec => []TypeOK
BY TypeInit, TypeStep, PTL DEF Spec

-----------------------------------------------------------------------------
(* The places of the cores *)

(* The cores of a list are in ascending order. *)
Ascending(s) ==
  /\ CoresOf(s) \subseteq Cores
  /\ \A k \in DOMAIN s.list : Below(CoresOf(s), s.list[k].core) = k - 1

PlaceInv ==
  /\ \A i \in Cores : core[i].core = i
  /\ os # "openbsd" => Ascending(sample) /\ Ascending(lastSample)

LEMMA CoreListAscending ==
  ASSUME TypeOK, PlaceInv, NEW s, s.list = CoreList
  PROVE  Ascending(s)
<1> DEFINE n == Cardinality(online)
<1>1. /\ DOMAIN CoreList = 1..n
      /\ \A k \in 1..n :
           \E i \in online : CoreList[k] = core[i] /\ Below(online, i) = k - 1
  BY CoreListEntries
<1>2. online \in SUBSET Nat /\ IsFiniteSet(online) /\ n \in Nat /\ online \subseteq Cores
  BY OnlineIsFinite DEF TypeOK
<1>3. \A k \in 1..n : CoreList[k].core \in online /\ Below(online, CoreList[k].core) = k - 1
  BY <1>1, <1>2 DEF PlaceInv
<1>4. ASSUME NEW i \in online PROVE \E k \in 1..n : CoreList[k].core = i
  <2>1. Below(online, i) \in 0..(n - 1)
    BY <1>2, BelowIsNat
  <2> DEFINE k == Below(online, i) + 1
  <2>2. k \in 1..n /\ k - 1 = Below(online, i)
    BY <1>2, <2>1
  <2> HIDE DEF k, n
  <2>3. CoreList[k].core \in online /\ Below(online, CoreList[k].core) = Below(online, i)
    BY <1>3, <2>2
  <2>4. CoreList[k].core = i
    BY <1>2, <2>3, BelowIsInjective
  <2> QED BY <2>2, <2>4
<1>5. CoresOf(s) = online
  BY <1>1, <1>3, <1>4 DEF CoresOf
<1> QED BY <1>1, <1>2, <1>3, <1>5 DEF Ascending

LEMMA EmptyAscending == Ascending(NoSample)
BY DEF Ascending, CoresOf, NoSample

LEMMA PlaceInit == Init => PlaceInv
BY EmptyAscending DEF Init, PlaceInv, ZeroCPU

LEMMA PlaceStep ==
  ASSUME TypeOK, PlaceInv, [Next]_vars
  PROVE  PlaceInv'
<1>1. ASSUME NEW i \in Cores, NEW class \in Classes, NEW n \in {-1, 1}, Tick(i, class, n)
      PROVE  PlaceInv'
  <2>1. core' = [core EXCEPT ![i] = Book(core[i], class, n)]
        /\ UNCHANGED <<os, sample, lastSample>>
    BY <1>1 DEF Tick, Book
  <2>2. \A c \in CPU : Book(c, class, n).core = c.core
    BY DEF Book, CPU, Classes
  <2>3. \A j \in Cores : core'[j].core = j
    <3> SUFFICES ASSUME NEW j \in Cores PROVE core'[j].core = j
      OBVIOUS
    <3>1. core[j] \in CPU /\ core[j].core = j
      BY DEF TypeOK, PlaceInv
    <3>2. core'[j] = core[j] \/ core'[j] = Book(core[j], class, n)
      BY <2>1 DEF TypeOK
    <3> QED BY <2>2, <3>1, <3>2
  <2>4. (os # "openbsd" => Ascending(sample) /\ Ascending(lastSample))'
    BY <2>1 DEF PlaceInv
  <2> QED BY <2>3, <2>4 DEF PlaceInv
<1>2. ASSUME UNCHANGED <<os, core>>, os # "openbsd" => Ascending(sample'),
             os # "openbsd" => Ascending(lastSample')
      PROVE  PlaceInv'
  BY <1>2 DEF PlaceInv, Ascending, CoresOf
<1>3. ASSUME NEW i \in Cores, Offline(i) \/ Online(i) PROVE PlaceInv'
  BY <1>2, <1>3 DEF Offline, Online, PlaceInv
<1>4. ASSUME NEW call \in {"Fetch", "FetchCores"}, ReadStat(call) PROVE PlaceInv'
  <2>1. sample'.list = CoreList /\ UNCHANGED <<os, core, lastSample>>
    BY <1>4 DEF ReadStat
  <2>2. Ascending(sample')
    BY <2>1, CoreListAscending
  <2> QED BY <1>2, <2>1, <2>2 DEF PlaceInv
<1>5. ASSUME NEW call \in {"Fetch", "FetchCores"}, ReadTotals(call) PROVE PlaceInv'
  <2>1. sample'.list = <<>> /\ UNCHANGED <<os, core, lastSample>>
    BY <1>5 DEF ReadTotals
  <2>2. Ascending(sample')
    BY <2>1 DEF Ascending, CoresOf
  <2> QED BY <1>2, <2>1, <2>2 DEF PlaceInv
<1>6. CASE ReadCores
  <2>1. /\ UNCHANGED <<os, core, lastSample>>
        /\ os # "openbsd" => sample'.list = CoreList
    BY <1>6 DEF ReadCores
  <2>2. os # "openbsd" => Ascending(sample')
    BY <2>1, CoreListAscending
  <2> QED BY <1>2, <2>1, <2>2 DEF PlaceInv
<1>7. CASE FailCPUInfo
  BY <1>2, <1>7, EmptyAscending DEF FailCPUInfo, PlaceInv
<1>8. CASE Fetch \/ FetchCores
  BY <1>2, <1>8, EmptyAscending DEF Fetch, FetchCores, KeepSample, PlaceInv
<1>9. CASE FetchCoresPanics \/ UNCHANGED vars
  BY <1>2, <1>9 DEF FetchCoresPanics, vars, PlaceInv
<1> QED BY <1>1, <1>3, <1>4, <1>5, <1>6, <1>7, <1>8, <1>9 DEF Next

LEMMA PrevCoreIs ==
  ASSUME TypeOK, NEW k \in DOMAIN sample.list
  PROVE  \/ k \in DOMAIN lastSample.list /\ PrevCore(k) = lastSample.list[k]
         \/ k \notin DOMAIN lastSample.list /\ PrevCore(k) = ZeroCPU
<1>1. PICK n \in Nat : lastSample.list \in [1..n -> CPU]
  BY CpuAssumption, FS_CardinalityType DEF TypeOK, IsSample
<1>2. Len(lastSample.list) = n /\ DOMAIN lastSample.list = 1..n
  BY <1>1
<1>3. k \in Nat /\ k >= 1
  BY CpuAssumption, FS_CardinalityType DEF TypeOK, IsSample
<1> QED BY <1>2, <1>3 DEF PrevCore

(* Whatever cores come and go, FetchCores compares a core that is in both  *)
(* lists with itself exactly if as many cores before it are in both.       *)
THEOREM SameCoreCorrect == Spec => []PrevIsSameCore
<1>1. TypeOK /\ PlaceInv => PrevIsSameCore
  <2> SUFFICES ASSUME TypeOK, PlaceInv, os # "openbsd", NEW i \in DOMAIN sample.list,
                      sample.list[i].core \in CoresOf(lastSample)
               PROVE  LET c == sample.list[i].core
                      IN PrevCore(i).core = c <=>
                           Below(CoresOf(lastSample), c) = Below(CoresOf(sample), c)
    BY DEF PrevIsSameCore
  <2> DEFINE c == sample.list[i].core
  <2>1. Ascending(sample) /\ Ascending(lastSample)
    BY DEF PlaceInv
  <2>2. Below(CoresOf(sample), c) = i - 1
    BY <2>1 DEF Ascending
  <2>3. PICK k \in DOMAIN lastSample.list : lastSample.list[k].core = c
    BY DEF CoresOf
  <2>4. Below(CoresOf(lastSample), c) = k - 1
    BY <2>1, <2>3 DEF Ascending
  <2>5. i \in Nat /\ k \in Nat /\ c \in Nat
    <3>1. c \in Cores
      BY <2>1 DEF Ascending
    <3>6. Cardinality(Cores) \in Nat
      BY CpuAssumption, FS_CardinalityType
    <3>7. IsSample(sample) /\ IsSample(lastSample)
      BY DEF TypeOK
    <3>2. PICK m \in Nat : sample.list \in [1..m -> CPU]
      BY <3>6, <3>7 DEF IsSample
    <3>3. PICK n \in Nat : lastSample.list \in [1..n -> CPU]
      BY <3>6, <3>7 DEF IsSample
    <3>4. i \in 1..m /\ k \in 1..n
      BY <3>2, <3>3
    <3>5. c \in Nat
      BY <3>1, CpuAssumption
    <3> HIDE DEF c
    <3> QED BY <3>4, <3>5
  <2>6. ASSUME i = k PROVE PrevCore(i).core = c
    BY <2>3, <2>6, PrevCoreIs
  <2>7. ASSUME PrevCore(i).core = c PROVE i = k
    <3>1. i \in DOMAIN lastSample.list /\ PrevCore(i) = lastSample.list[i]
      BY <2>5, <2>7, PrevCoreIs DEF ZeroCPU, NoCore
    <3>2. Below(CoresOf(lastSample), c) = i - 1
      BY <2>1, <2>7, <3>1 DEF Ascending
    <3> QED BY <2>4, <2>5, <3>2
  <2> HIDE DEF c
  <2>8. PrevCore(i).core = c <=> Below(CoresOf(lastSample), c) = Below(CoresOf(sample), c)
    BY <2>2, <2>4, <2>5, <2>6, <2>7
  <2> QED BY <2>8 DEF c
<1>2. TypeOK /\ PlaceInv /\ [Next]_vars => PlaceInv'
  BY PlaceStep
<1> QED BY <1>1, <1>2, TypeInit, TypeStep, PlaceInit, PTL DEF Spec

-----------------------------------------------------------------------------
(* The percentages of the cores *)

(* A line is of the totals on OpenBSD, and of a core anywhere else. *)
LineOK(s, k) ==
  IF os = "openbsd"
  THEN s.list[k] = s.totals
  ELSE /\ s.list[k].core \in Cores
       /\ Total(s.list[k]) <= MaxTicks
       /\ Behind(s.list[k], core[s.list[k].core])

AdvanceInv ==
  /\ \A i \in Cores : core[i].core = i /\ Total(core[i]) <= MaxTicks
  /\ \A k \in DOMAIN sample.list : LineOK(sample, k)
  /\ \A k \in DOMAIN lastSample.list : LineOK(lastSample, k)
  /\ os # "openbsd" =>
       \A k \in DOMAIN lastSample.list, j \in DOMAIN sample.list :
         lastSample.list[k].core = sample.list[j].core =>
           Behind(lastSample.list[k], sample.list[j])

LEMMA AdvanceInit == Init => AdvanceInv
BY CpuAssumption DEF Init, AdvanceInv, NoSample, ZeroCPU, Total

(* The list is read: no line of a core is behind an older one of it. *)
LEMMA AdvanceRead ==
  ASSUME TypeOK, AdvanceInv, os # "openbsd",
         UNCHANGED <<os, core, lastSample>>, sample'.list = CoreList
  PROVE  AdvanceInv'
<1>1. ASSUME NEW j \in DOMAIN CoreList
      PROVE  /\ CoreList[j].core \in Cores
             /\ CoreList[j] = core[CoreList[j].core]
             /\ CoreList[j] \in CPU
  <2>1. DOMAIN CoreList = 1..Cardinality(online) /\ CoreList[j] \in CPU
    BY <1>1, CoreListEntries
  <2>2. PICK i \in online : CoreList[j] = core[i]
    BY <1>1, <2>1, CoreListEntries
  <2> QED BY <2>1, <2>2 DEF AdvanceInv, TypeOK
<1>2. ASSUME NEW j \in DOMAIN CoreList PROVE LineOK(sample, j)'
  BY <1>1, <1>2, ZeroIsFirst DEF LineOK, AdvanceInv
<1>3. ASSUME NEW k \in DOMAIN lastSample.list, NEW j \in DOMAIN CoreList,
             lastSample.list[k].core = CoreList[j].core
      PROVE  Behind(lastSample.list[k], CoreList[j])
  BY <1>1, <1>3 DEF AdvanceInv, LineOK
<1>4. \A k \in DOMAIN lastSample.list : LineOK(lastSample, k)'
  BY DEF AdvanceInv, LineOK
<1> QED BY <1>2, <1>3, <1>4 DEF AdvanceInv

LEMMA AdvanceStep ==
  ASSUME TypeOK, AdvanceInv, [Next]_vars
  PROVE  AdvanceInv'
<1>1. ASSUME NEW i \in Cores, NEW class \in Classes, NEW n \in {-1, 1}, Tick(i, class, n)
      PROVE  AdvanceInv'
  <2>1. /\ core' = [core EXCEPT ![i] = Book(core[i], class, n)]
        /\ n = 1 \/ class = "wait"
        /\ core[i][class] + n >= 0 /\ Total(core[i]) + n <= MaxTicks
        /\ UNCHANGED <<os, sample, lastSample>>
    BY <1>1 DEF Tick, Book
  <2>2. \A j \in Cores : core[j] \in CPU
    BY DEF TypeOK
  <2>3. \A j \in Cores :
          /\ core'[j] \in CPU /\ core'[j].core = j /\ Total(core'[j]) <= MaxTicks
          /\ Behind(core[j], core'[j])
    <3> SUFFICES ASSUME NEW j \in Cores
                 PROVE  /\ core'[j] \in CPU /\ core'[j].core = j
                        /\ Total(core'[j]) <= MaxTicks /\ Behind(core[j], core'[j])
      OBVIOUS
    <3>1. CASE j = i
      <4>1. core'[j] = Book(core[i], class, n)
        BY <2>1, <3>1 DEF TypeOK
      <4> QED BY <2>1, <2>2, <3>1, <4>1, Booked DEF AdvanceInv
    <3>2. CASE j # i
      BY <2>1, <2>2, <3>2, ZeroIsFirst DEF TypeOK, AdvanceInv
    <3> QED BY <3>1, <3>2
  <2>4. ASSUME NEW s, IsSample(s), NEW k \in DOMAIN s.list, LineOK(s, k)
        PROVE  IF os = "openbsd"
               THEN s.list[k] = s.totals
               ELSE /\ s.list[k].core \in Cores
                    /\ Total(s.list[k]) <= MaxTicks
                    /\ Behind(s.list[k], core'[s.list[k].core])
    <3>1. s.list[k] \in CPU
      BY <2>4 DEF IsSample
    <3> QED BY <2>2, <2>3, <2>4, <3>1, BehindTransitive DEF LineOK
  <2>5. /\ \A k \in DOMAIN sample.list : LineOK(sample, k)'
        /\ \A k \in DOMAIN lastSample.list : LineOK(lastSample, k)'
    BY <2>1, <2>4 DEF TypeOK, AdvanceInv, LineOK
  <2> QED BY <2>1, <2>3, <2>5 DEF AdvanceInv
<1>2. ASSUME NEW i \in Cores, Offline(i) \/ Online(i) PROVE AdvanceInv'
  BY <1>2 DEF Offline, Online, AdvanceInv, LineOK
<1>3. ASSUME NEW call \in {"Fetch", "FetchCores"}, ReadStat(call) PROVE AdvanceInv'
  BY <1>3, AdvanceRead DEF ReadStat
<1>4. ASSUME NEW call \in {"Fetch", "FetchCores"}, ReadTotals(call) PROVE AdvanceInv'
  <2>1. sample'.list = <<>> /\ UNCHANGED <<os, core, lastSample>>
    BY <1>4 DEF ReadTotals
  <2> QED BY <2>1 DEF AdvanceInv, LineOK
<1>5. CASE ReadCores
  <2>1. /\ UNCHANGED <<os, core, lastSample>>
        /\ sample'.totals = sample.totals
        /\ sample'.list = IF os = "openbsd" THEN LoadGlobal ELSE CoreList
    BY <1>5 DEF ReadCores
  <2>2. CASE os = "openbsd"
    <3>1. \A k \in DOMAIN sample'.list : sample'.list[k] = sample.totals
      BY <2>1, <2>2 DEF LoadGlobal
    <3> QED BY <2>1, <2>2, <3>1 DEF AdvanceInv, LineOK
  <2>3. CASE os # "openbsd"
    BY <2>1, <2>3, AdvanceRead
  <2> QED BY <2>2, <2>3
<1>6. CASE FailCPUInfo
  BY <1>6 DEF FailCPUInfo, NoSample, AdvanceInv, LineOK
<1>7. CASE Fetch \/ FetchCores
  BY <1>7 DEF Fetch, FetchCores, KeepSample, NoSample, AdvanceInv, LineOK
<1>8. CASE FetchCoresPanics
  BY <1>8 DEF FetchCoresPanics, AdvanceInv, LineOK
<1>9. CASE UNCHANGED vars
  BY <1>9 DEF vars, AdvanceInv, LineOK
<1> QED BY <1>1, <1>2, <1>3, <1>4, <1>5, <1>6, <1>7, <1>8, <1>9 DEF Next

LEMMA CoresWithin ==
  ASSUME TypeOK, TotalsInv, AdvanceInv
  PROVE  CorePctWithinBounds
<1> SUFFICES ASSUME NEW k \in DOMAIN sample.list, pc = "FetchCores",
                    ~OfTwoCores(CoreReturned(k)), ~WaitWentBack(CoreReturned(k))
             PROVE  WithinBounds(CoreReturned(k))
  BY DEF CorePctWithinBounds
<1> DEFINE old == PrevCore(k)
           new == sample.list[k]
<1>1. new \in CPU /\ \A j \in DOMAIN lastSample.list : lastSample.list[j] \in CPU
  BY DEF TypeOK, IsSample
<1>2. LineOK(sample, k) /\ Total(new) <= MaxTicks
  BY DEF AdvanceInv, LineOK, TotalsInv
<1>3. old \in CPU /\ Behind(old, new)
  <2>1. CASE PrevCore(k) = ZeroCPU
    BY <1>1, <2>1, ZeroIsFirst
  <2>2. CASE k \in DOMAIN lastSample.list /\ PrevCore(k) = lastSample.list[k]
    <3>1. CASE os = "openbsd"
      BY <1>1, <1>2, <2>2, <3>1 DEF AdvanceInv, LineOK, TotalsInv
    <3>2. CASE os # "openbsd"
      <4>1. old.core \in Cores /\ old.core \in {new.core, NoCore}
        BY <2>2, <3>2 DEF AdvanceInv, LineOK, OfTwoCores, CoreReturned
      <4>2. old.core = new.core
        BY <4>1, CpuAssumption DEF NoCore
      <4> QED BY <1>1, <2>2, <3>2, <4>2 DEF AdvanceInv
    <3> QED BY <3>1, <3>2
  <2> QED BY <2>1, <2>2, PrevCoreIs
<1>4. old.wait <= new.wait
  BY <1>1, <1>3 DEF WaitWentBack, CoreReturned, CPU
<1> HIDE DEF old, new
<1>5. WithinBounds([prev |-> old, cur |-> new])
  BY <1>1, <1>2, <1>3, <1>4, PctWithin
<1> QED BY <1>5 DEF CoreReturned, old, new

(* The percentage of a core that FetchCores returns is out of range only   *)
(* if the core is compared with another one or its iowait went back,       *)
(* whatever cores come and go and whichever call was the previous one.     *)
THEOREM CorePctCorrect == Spec => []CorePctWithinBounds
<1>1. TypeOK /\ TotalsInv /\ AdvanceInv => CorePctWithinBounds
  BY CoresWithin
<1>2. TotalsInv /\ [Next]_vars => TotalsInv'
  BY TotalsStep
<1>3. TypeOK /\ AdvanceInv /\ [Next]_vars => AdvanceInv'
  BY AdvanceStep
<1> QED BY <1>1, <1>2, <1>3, TypeInit, TypeStep, TotalsInit, AdvanceInit, PTL DEF Spec
=============================================================================
