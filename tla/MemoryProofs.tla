----------------------------- MODULE MemoryProofs -----------------------------
(* Proofs about Memory, for every number of pages, devices and moves.      *)
EXTENDS Memory, FiniteSetTheorems, TLAPS

-----------------------------------------------------------------------------
(* Memory *)

(* actualUsed of m is off by no more pages than moved. *)
WithinMoves(m) ==
  \E d \in -moves..moves :
    m.actualUsed = IF active + d >= 0 THEN active + d ELSE active + d + W

(* Between the two calls, the free pages read are off by what moved; after *)
(* them what was computed is.                                              *)
PoolsInv ==
  /\ free \in Nat /\ cache \in Nat /\ free + cache <= Pages
  /\ os \in Systems
  /\ units \in PageSizes \cup {1} /\ (os # "darwin" => units = 1)
  /\ moves \in Nat
FreeInv ==
  pc = "cached" =>
    /\ os \in {"freebsd", "openbsd"}
    /\ \E f \in 0..Pages : memData = Base(Pages, f) /\ f - free \in -moves..moves
CachedInv ==
  /\ pc \in {"swap", "swapstats"} =>
       {"total", "used", "actualUsed"} \subseteq DOMAIN memData /\ memData.actualUsed # None
  /\ memData # NoMemory /\ FromPools /\ pc \in {"swap", "swapstats", "done"} => WithinMoves(memData)
PctInv ==
  pc \in {"swap", "swapstats", "done"} /\ HasPct(memData) =>
    /\ ValueOr(memData.used, 0) <= ValueOr(memData.total, 1)
    /\ moves = 0 => ValueOr(memData.actualUsed, 0) <= ValueOr(memData.total, 0)
MemoryInv == PoolsInv /\ FreeInv /\ CachedInv /\ PctInv

USE MemoryAssumption

LEMMA ValueOrDef == (\A d : \A x \in Int : ValueOr(x, d) = x) /\ \A d : ValueOr(None, d) = d
BY DEF ValueOr

LEMMA InitInv == Init => MemoryInv
BY DEF Init, MemoryInv, PoolsInv, FreeInv, CachedInv, PctInv

(* MovePage counts each page it moves while it matters. *)
LEMMA MovePageStep ==
  ASSUME MemoryInv, NEW m \in PageMoves, MovePage(m[1], m[2])
  PROVE  MemoryInv'
<1>1. /\ m[1] \in -1..1 /\ m[2] \in -1..1
  BY DEF PageMoves
<1>2. PoolsInv' /\ CachedInv' /\ PctInv'
  BY <1>1 DEF MemoryInv, PoolsInv, CachedInv, PctInv, MovePage
<1>3. ASSUME pc' = "cached"  PROVE FreeInv'
  <2>1. pc = "cached" /\ memData' = memData /\ os' = os /\ moves' = moves + 1 /\ free' = free + m[1]
    BY <1>3 DEF MovePage
  <2>2. PICK f \in 0..Pages : memData = Base(Pages, f) /\ f - free \in -moves..moves
    BY <2>1 DEF MemoryInv, FreeInv
  <2>3. f - free' \in -(moves')..moves'
    BY <1>1, <2>1, <2>2 DEF MemoryInv, PoolsInv
  <2>. QED BY <2>1, <2>2, <2>3 DEF MemoryInv, FreeInv, Base, NoMemory, Minus, ValueOr
<1>4. QED BY <1>2, <1>3 DEF MemoryInv, FreeInv

(* What was computed of one reading is exact. *)
LEMMA WithinNoMove ==
  moves \in Nat /\ active \in Nat /\ memData.actualUsed = active => WithinMoves(memData)
<1>. SUFFICES ASSUME moves \in Nat, active \in Nat, memData.actualUsed = active
              PROVE  \E d \in -moves..moves :
                       memData.actualUsed = IF active + d >= 0 THEN active + d ELSE active + d + W
  BY DEF WithinMoves
<1>1. 0 \in -moves..moves /\ active + 0 >= 0 /\ active + 0 = active
  OBVIOUS
<1>. QED BY <1>1

LEMMA GetLinuxStep == ASSUME MemoryInv, GetLinux  PROVE MemoryInv'
<1>1. os = "linux" /\ pc' = "done" /\ os' = os /\ lacks' = lacks /\ moves' = moves
      /\ units' = units /\ pools' = pools /\ active' = Pages - free - cache
  BY DEF GetLinux, Finish
<1>2. PoolsInv' /\ FreeInv'
  BY <1>1 DEF MemoryInv, PoolsInv, FreeInv, pools
<1>. DEFINE Table(k, v) == IF k \in lacks THEN None ELSE v
<1>3. PICK available \in 0..(free + cache), buffers \in 0..cache, swapFree \in 0..SwapTotal :
        LET f == Table("MemFree", free)
            total == Table("MemTotal", Pages)
            actual == IF "MemAvailable" \notin lacks THEN available
                      ELSE ValueOr(f, 0) + ValueOr(Table("Buffers", buffers), 0)
                             + ValueOr(Table("Cached", cache - buffers), 0)
            m == [Base(total, f) EXCEPT !.actualFree = actual,
                    !.actualUsed = Minus(ValueOr(total, 0), actual)]
        IN memData' = WithSwap(m, Table("SwapTotal", SwapTotal), Table("SwapFree", swapFree))
  BY DEF GetLinux, Finish
<1>. DEFINE f == Table("MemFree", free)
           total == Table("MemTotal", Pages)
           actual == IF "MemAvailable" \notin lacks THEN available
                     ELSE ValueOr(f, 0) + ValueOr(Table("Buffers", buffers), 0)
                            + ValueOr(Table("Cached", cache - buffers), 0)
<1>4. /\ memData'.total = total
      /\ memData'.used = Minus(ValueOr(total, 0), ValueOr(f, 0))
      /\ memData'.actualUsed = Minus(ValueOr(total, 0), actual)
  BY <1>3 DEF WithSwap, Base, NoMemory
<1>5. free \in Nat /\ cache \in Nat /\ free + cache <= Pages /\ Pages \in Nat
  BY DEF MemoryInv, PoolsInv
<1>6. /\ ValueOr(f, 0) \in {0, free}
      /\ ValueOr(Table("Buffers", buffers), 0) \in {0, buffers}
      /\ ValueOr(Table("Cached", cache - buffers), 0) \in {0, cache - buffers}
  <2>1. \A k, v : Table(k, v) \in {v, None}
    OBVIOUS
  <2>. QED BY <1>5, <2>1, ValueOrDef
<1>8. actual \in 0..(free + cache)
  BY <1>5, <1>6
<1>9. PctInv'
  <2>1. CASE total = None
    BY <2>1, <1>4, ValueOrDef DEF PctInv, HasPct
  <2>2. CASE total = Pages
    <3>1. /\ ValueOr(total, 0) = Pages /\ ValueOr(total, 1) = Pages
      BY <2>2, <1>5, ValueOrDef
    <3>2. memData'.used \in 0..Pages /\ memData'.actualUsed \in 0..Pages
      BY <3>1, <1>4, <1>5, <1>6, <1>8 DEF Minus
    <3>. QED BY <3>1, <3>2, <1>4, ValueOrDef DEF PctInv
  <2>. QED BY <2>1, <2>2
<1>7. ASSUME FromPools'  PROVE WithinMoves(memData)'
  <2>1. lacks = {"MemAvailable"}
    BY <1>1, <1>7 DEF FromPools
  <2>2. /\ Table("MemTotal", Pages) = Pages /\ Table("MemFree", free) = free
        /\ Table("Buffers", buffers) = buffers /\ Table("Cached", cache - buffers) = cache - buffers
    BY <2>1
  <2>4. actual = free + cache /\ ValueOr(total, 0) = Pages
    BY <2>1, <2>2, <1>5, ValueOrDef
  <2>3. (moves \in Nat /\ active \in Nat /\ memData.actualUsed = active)'
    BY <1>1, <1>4, <1>5, <2>4 DEF Minus, MemoryInv, PoolsInv
  <2>5. (moves \in Nat /\ active \in Nat /\ memData.actualUsed = active => WithinMoves(memData))'
    BY WithinNoMove, PTL
  <2>. QED BY <2>3, <2>5
<1>. QED BY <1>1, <1>2, <1>9, <1>7 DEF MemoryInv, CachedInv

(* A machine's pages in units of 4096 bytes. *)
LEMMA TotalSize ==
  ASSUME PoolsInv
  PROVE  /\ Pages * units \in Nat /\ Pages <= Pages * units /\ 2 * (Pages * units) < W
         /\ units = 1 => Pages * units = Pages
<1>1. units \in Nat \ {0} /\ 2 * (Pages * units) < W
  <2>1. Pages * 1 = Pages /\ 2 * Pages < W
    OBVIOUS
  <2>. QED BY <2>1, PageSizesAssumption DEF PoolsInv
<1>2. \A n \in Nat, u \in Nat \ {0} : n * u \in Nat /\ n <= n * u /\ n * 1 = n
  OBVIOUS
<1>. QED BY <1>1, <1>2

LEMMA GetAtOnceStep == ASSUME MemoryInv, GetAtOnce  PROVE MemoryInv'
<1>. DEFINE size == Pages * units
<1>1. /\ os \in {"aix", "windows", "darwin"} /\ pc' = "done" /\ os' = os /\ moves' = moves
      /\ units' = units /\ pools' = pools /\ active' = Pages - free - cache
  BY DEF GetAtOnce, Finish
<1>2. free \in Nat /\ cache \in Nat /\ free + cache <= Pages /\ Pages \in Nat /\ moves \in Nat
  BY DEF MemoryInv, PoolsInv
<1>3. size \in Nat /\ Pages <= size /\ (units = 1 => size = Pages)
  BY TotalSize DEF MemoryInv
<1>4. \/ os = "aix" /\ memData' = WithCached(Base(size, free), cache)
      \/ /\ os = "windows"
         /\ \E swapFree \in 0..SwapTotal : memData' =
              WithSwap([Base(size, free) EXCEPT !.actualFree = Base(size, free).free,
                          !.actualUsed = Base(size, free).used], SwapTotal, swapFree)
      \/ /\ os = "darwin"
         /\ \E swapFree \in 0..SwapTotal : memData' =
              WithSwap(WithCached(Base(size, free), cache), SwapTotal, swapFree)
  BY <1>1 DEF GetAtOnce, Finish
<1>. HIDE DEF size
<1>5. Base(size, free).total = size /\ Base(size, free).used = size - free
  BY <1>2, <1>3, ValueOrDef DEF Base, NoMemory, Minus
<1>6. /\ WithCached(Base(size, free), cache).total = size
      /\ WithCached(Base(size, free), cache).used = size - free
      /\ WithCached(Base(size, free), cache).actualUsed = size - free - cache
  BY <1>2, <1>3, <1>5 DEF WithCached, Base, NoMemory, Minus
<1>7. /\ memData'.total = size /\ memData'.used = size - free
      /\ memData'.actualUsed = IF os = "windows" THEN size - free ELSE size - free - cache
  <2>1. CASE os = "aix"
    BY <1>4, <1>6, <2>1
  <2>2. CASE os = "windows"
    BY <1>4, <1>5, <2>2 DEF WithSwap, Base, NoMemory
  <2>3. CASE os = "darwin"
    BY <1>4, <1>6, <2>3 DEF WithSwap, WithCached, Base, NoMemory
  <2>. QED BY <1>1, <2>1, <2>2, <2>3
<1>8. PctInv'
  BY <1>2, <1>3, <1>7, ValueOrDef DEF PctInv
<1>9. FromPools' => WithinMoves(memData)'
  <2>1. ASSUME FromPools'  PROVE (moves \in Nat /\ active \in Nat /\ memData.actualUsed = active)'
    <3>1. os # "windows" /\ units = 1
      BY <1>1, <2>1 DEF FromPools, MemoryInv, PoolsInv
    <3>. QED BY <1>1, <1>2, <1>3, <1>7, <3>1
  <2>2. (moves \in Nat /\ active \in Nat /\ memData.actualUsed = active => WithinMoves(memData))'
    BY WithinNoMove, PTL
  <2>. QED BY <2>1, <2>2
<1>10. PoolsInv' /\ FreeInv'
  BY <1>1 DEF MemoryInv, PoolsInv, FreeInv, pools
<1>. QED BY <1>1, <1>8, <1>9, <1>10 DEF MemoryInv, CachedInv

LEMMA GetFreeStep == ASSUME MemoryInv, GetFree  PROVE MemoryInv'
<1>1. free \in 0..Pages /\ free - free \in -0..0
  BY DEF MemoryInv, PoolsInv
<1>. QED BY <1>1 DEF GetFree, MemoryInv, PoolsInv, FreeInv, CachedInv, PctInv, pools

LEMMA GetCachedStep == ASSUME MemoryInv, GetCached  PROVE MemoryInv'
<1>1. /\ pc = "cached" /\ pc' \in {"swap", "done"} /\ os' = os /\ moves' = moves
      /\ units' = units /\ pools' = pools /\ active' = Pages - free - cache
      /\ memData' = WithCached(memData, cache)
  BY DEF GetCached
<1>2. /\ free \in Nat /\ cache \in Nat /\ free + cache <= Pages /\ moves \in Nat
      /\ Pages \in Nat /\ W \in Nat /\ W > 2 * Pages
  BY DEF MemoryInv, PoolsInv
<1>3. PICK f \in 0..Pages : memData = Base(Pages, f) /\ f - free \in -moves..moves
  BY <1>1 DEF MemoryInv, FreeInv
<1>4. /\ memData'.total = Pages /\ memData'.used = Pages - f
      /\ memData'.actualUsed = Minus(Pages - f, cache)
      /\ {"total", "used", "actualUsed"} \subseteq DOMAIN memData'
  BY <1>1, <1>2, <1>3, ValueOrDef DEF WithCached, Base, NoMemory, Minus
<1>5. memData'.actualUsed # None
  BY <1>2, <1>4 DEF Minus
<1>6. WithinMoves(memData)'
  <2>1. free - f \in -moves..moves /\ Pages - f - cache = active' + (free - f)
    BY <1>1, <1>2, <1>3
  <2>2. memData'.actualUsed = IF active' + (free - f) >= 0 THEN active' + (free - f)
                              ELSE active' + (free - f) + W
    BY <1>1, <1>2, <1>3, <1>4, <2>1 DEF Minus
  <2>. QED BY <1>1, <2>1, <2>2 DEF WithinMoves
<1>7. PctInv'
  <2>1. ASSUME moves = 0  PROVE memData'.actualUsed \in 0..Pages
    BY <1>2, <1>3, <1>4, <2>1 DEF Minus
  <2>. QED BY <1>1, <1>2, <1>3, <1>4, <1>5, <2>1, ValueOrDef DEF PctInv
<1>8. PoolsInv' /\ FreeInv'
  BY <1>1 DEF MemoryInv, PoolsInv, FreeInv, pools
<1>. QED BY <1>1, <1>4, <1>5, <1>6, <1>7, <1>8 DEF MemoryInv, CachedInv

LEMMA AddEntryKeeps ==
  ASSUME NEW m, NEW e
  PROVE  /\ DOMAIN AddEntry(m, e) = DOMAIN m
         /\ \A k \in {"total", "used", "actualUsed"} :
              k \in DOMAIN m => AddEntry(m, e)[k] = m[k]
BY DEF AddEntry

(* The swap space changes nothing of what was computed before. *)
LEMMA SwapStep == ASSUME MemoryInv, CountSwap \/ ReadSwap  PROVE MemoryInv'
<1>1. /\ pc \in {"swap", "swapstats"} /\ pc' \in {"swapstats", "done"} /\ os' = os /\ moves' = moves
      /\ pools' = pools /\ active' = active /\ lacks' = lacks /\ units' = units
  BY DEF CountSwap, ReadSwap, Finish
<1>2. {"total", "used", "actualUsed"} \subseteq DOMAIN memData /\ memData.actualUsed # None
  BY <1>1 DEF MemoryInv, CachedInv
<1>3. /\ {"total", "used", "actualUsed"} \subseteq DOMAIN memData' /\ memData'.total = memData.total
      /\ memData'.used = memData.used /\ memData'.actualUsed = memData.actualUsed
  <2>1. CASE CountSwap
    BY <1>2, <2>1 DEF CountSwap
  <2>2. CASE ReadSwap
    <3>1. PICK first, stray, free1 :
            memData' = [AddEntry(AddEntry(memData, first), stray) EXCEPT !.swapFree = free1]
      BY <2>2 DEF ReadSwap, Finish
    <3>2. \A k \in {"total", "used", "actualUsed"} :
            /\ k \in DOMAIN AddEntry(AddEntry(memData, first), stray)
            /\ AddEntry(AddEntry(memData, first), stray)[k] = memData[k]
      <4>1. \A k \in {"total", "used", "actualUsed"} :
              k \in DOMAIN AddEntry(memData, first) /\ AddEntry(memData, first)[k] = memData[k]
        BY <1>2, AddEntryKeeps
      <4>. QED BY <4>1, AddEntryKeeps
    <3>. QED BY <3>1, <3>2
  <2>. QED BY <2>1, <2>2
<1>4. memData # NoMemory
  BY <1>2 DEF NoMemory
<1>5. CachedInv'
  BY <1>1, <1>2, <1>3, <1>4 DEF MemoryInv, CachedInv, WithinMoves, FromPools
<1>6. PctInv'
  BY <1>1, <1>3 DEF MemoryInv, PctInv, HasPct
<1>. QED BY <1>1, <1>5, <1>6 DEF MemoryInv, PoolsInv, FreeInv, pools

LEMMA EndStep == ASSUME MemoryInv, Fail \/ Return  PROVE MemoryInv'
<1>1. memData' = NoMemory /\ pc' \in {"idle", "done"} /\ os' = os /\ units' = units
      /\ pools' = pools /\ moves' \in Nat
  BY DEF Fail, Return, MemoryInv, PoolsInv
<1>2. PctInv'
  BY <1>1, ValueOrDef DEF PctInv, HasPct, NoMemory
<1>. QED BY <1>1, <1>2 DEF MemoryInv, PoolsInv, FreeInv, CachedInv, pools

LEMMA SwapCtlStep == ASSUME MemoryInv, NEW d \in Swaps, SwapCtl(d)  PROVE MemoryInv'
BY DEF SwapCtl, MemoryInv, PoolsInv, FreeInv, CachedInv, PctInv, WithinMoves, FromPools, pools

LEMMA StutterStep == ASSUME MemoryInv, UNCHANGED vars  PROVE MemoryInv'
BY DEF vars, MemoryInv, PoolsInv, FreeInv, CachedInv, PctInv, WithinMoves, FromPools, pools

LEMMA NextStep == MemoryInv /\ [Next]_vars => MemoryInv'
<1>. SUFFICES ASSUME MemoryInv, [Next]_vars  PROVE MemoryInv'
  OBVIOUS
<1>1. CASE \E m \in PageMoves : MovePage(m[1], m[2])
  BY <1>1, MovePageStep
<1>2. CASE \E d \in Swaps : SwapCtl(d)
  BY <1>2, SwapCtlStep
<1>3. CASE GetLinux \/ GetAtOnce
  BY <1>3, GetLinuxStep, GetAtOnceStep
<1>4. CASE GetFree \/ GetCached
  BY <1>4, GetFreeStep, GetCachedStep
<1>5. CASE CountSwap \/ ReadSwap
  BY <1>5, SwapStep
<1>6. CASE Fail \/ Return
  BY <1>6, EndStep
<1>7. CASE UNCHANGED vars
  BY <1>7, StutterStep
<1>. QED BY <1>1, <1>2, <1>3, <1>4, <1>5, <1>6, <1>7 DEF Next

LEMMA MemoryInvariant == Spec => []MemoryInv
BY InitInv, NextStep, PTL DEF Spec

-----------------------------------------------------------------------------

(* What Get of FreeBSD, OpenBSD, AIX, old Linux, and macOS with pages of   *)
(* 4096 bytes reports as actually used is off by no more pages than moved  *)
(* between its calls.                                                      *)
THEOREM ActualUsedCorrect == Spec => []ActualUsedDrift
<1>1. MemoryInv => ActualUsedDrift
  BY DEF MemoryInv, CachedInv, ActualUsedDrift, WithinMoves
<1>. QED BY <1>1, MemoryInvariant, PTL

(* fillPercentages gives what is used of memory no percentage above 1; and *)
(* what is actually used none if no page moved between the calls.  If one  *)
(* did, actualUsed may have wrapped, and nothing is said.                  *)
THEOREM PctCorrect == Spec => []PctWithinBounds
<1>1. MemoryInv => PctWithinBounds
  BY DEF MemoryInv, PctInv, PctWithinBounds
<1>. QED BY <1>1, MemoryInvariant, PTL


-----------------------------------------------------------------------------
(* Types *)

Fields == {"total", "free", "used", "actualFree", "actualUsed", "swapTotal", "swapFree",
           "swapUsed"}

LEMMA NoMemoryType == NoMemory \in [Fields -> Sizes]
BY DEF NoMemory, Fields, Sizes

LEMMA TypeInit == Init => TypeOK
<1> SUFFICES ASSUME Init PROVE TypeOK
  OBVIOUS
<1>1. lacks \subseteq MeminfoKeys
  BY DEF Init
<1>2. 0 \in 0..Cardinality(Swaps) /\ 0 \in 0..MaxMoves /\ 0 \in 0..Pages
  BY FS_CardinalityType
<1> QED BY <1>1, <1>2, NoMemoryType DEF Init, TypeOK, Fields

(* Differences of sizes are sizes. *)
LEMMA MinusType ==
  ASSUME NEW a \in 0..(W - 1), NEW b \in 0..(W - 1)
  PROVE  /\ Minus(a, b) \in 0..(W - 1)
         /\ b <= a => Minus(a, b) <= a
BY DEF Minus

LEMMA ValueOrType ==
  ASSUME NEW x \in Sizes
  PROVE  ValueOr(x, 0) \in 0..(W - 1)
BY DEF Sizes, ValueOr

LEMMA BaseType ==
  ASSUME NEW t \in Sizes, NEW f \in Sizes
  PROVE  Base(t, f) \in [Fields -> Sizes]
<1>1. Minus(ValueOr(t, 0), ValueOr(f, 0)) \in Sizes
  BY ValueOrType, MinusType DEF Sizes
<1> QED BY <1>1, NoMemoryType DEF Base, Fields

LEMMA CachedType ==
  ASSUME NEW n \in Nat, Pages <= n, 2 * n < W, NEW f \in 0..Pages, NEW c \in 0..Pages
  PROVE  WithCached(Base(n, f), c) \in [Fields -> Sizes]
<1> DEFINE m == Base(n, f)
<1>1. m \in [Fields -> Sizes]
  BY BaseType DEF Sizes
<1>2. m.free = f /\ m.used = Minus(n, f)
  BY ValueOrDef DEF Base, NoMemory
<1>3. m.free + c \in Sizes
  BY <1>2 DEF Sizes
<1>4. Minus(m.used, c) \in Sizes
  <2>1. m.used \in 0..(W - 1)
    <3>1. n \in 0..(W - 1) /\ f \in 0..(W - 1)
      OBVIOUS
    <3> QED BY <1>2, <3>1, MinusType
  <2>2. c \in 0..(W - 1)
    OBVIOUS
  <2> HIDE DEF m
  <2>3. Minus(m.used, c) \in 0..(W - 1)
    BY <2>1, <2>2, MinusType
  <2> QED BY <2>3 DEF Sizes
<1> HIDE DEF m
<1>5. WithCached(m, c) \in [Fields -> Sizes]
  BY <1>1, <1>3, <1>4 DEF WithCached, Fields
<1> QED BY <1>5 DEF m

(* The space of all devices that are on. *)
LEMMA SwapTotalType ==
  ASSUME NEW S \in SUBSET Swaps
  PROVE  /\ IsFiniteSet(S) /\ Cardinality(S) \in 0..Cardinality(Swaps)
         /\ SwapSize * Cardinality(S) \in 0..(W - 1)
<1>1. IsFiniteSet(S) /\ Cardinality(S) \in Nat /\ Cardinality(Swaps) \in Nat
      /\ Cardinality(S) <= Cardinality(Swaps)
  BY FS_Subset, FS_CardinalityType
<1>2. \A n, m, c \in Nat : n <= m => c * n <= c * m /\ c * n \in Nat
  OBVIOUS
<1>3. SwapSize * Cardinality(S) <= SwapSize * Cardinality(Swaps)
      /\ SwapSize * Cardinality(S) \in Nat /\ SwapSize * Cardinality(Swaps) \in Nat
  BY <1>1, <1>2
<1> QED BY <1>1, <1>3

LEMMA WithSwapType ==
  ASSUME NEW m \in [Fields -> Sizes], NEW total \in Sizes, NEW unused \in Sizes
  PROVE  WithSwap(m, total, unused) \in [Fields -> Sizes]
<1> DEFINE u == IF None \in {total, unused} THEN None ELSE Minus(total, unused)
<1>1. u \in Sizes
  BY MinusType DEF Sizes
<1>2. WithSwap(m, total, unused) = [m EXCEPT !.swapTotal = total, !.swapFree = unused,
                                             !.swapUsed = u]
  BY DEF WithSwap
<1> HIDE DEF u
<1> QED BY <1>1, <1>2 DEF Fields

LEMMA TypeMove ==
  ASSUME TypeOK, NEW m \in PageMoves, MovePage(m[1], m[2])
  PROVE  TypeOK'
<1>1. m[1] \in -1..1 /\ m[2] \in -1..1
  BY DEF PageMoves
<1>2. /\ UNCHANGED <<swap, os, lacks, units, pc, memData, nswap, active>>
      /\ free' = free + m[1] /\ cache' = cache + m[2] /\ pc \in {"cached", "idle"}
      /\ free + m[1] >= 0 /\ cache + m[2] >= 0 /\ free + m[1] + cache + m[2] <= Pages
      /\ moves' = IF pc = "cached" THEN moves + 1 ELSE moves
      /\ pc = "cached" => moves < MaxMoves
  BY DEF MovePage
<1>3. free' \in 0..Pages /\ cache' \in 0..Pages /\ free' + cache' <= Pages
      /\ moves' \in 0..MaxMoves
  <2>1. free \in Nat /\ cache \in Nat /\ moves \in 0..MaxMoves
    BY DEF TypeOK
  <2> QED BY <1>1, <1>2, <2>1
<1> QED BY <1>2, <1>3 DEF TypeOK

LEMMA TypeSwapCtl == ASSUME TypeOK, NEW d \in Swaps, SwapCtl(d) PROVE TypeOK'
<1>1. /\ UNCHANGED <<pools, os, lacks, units, pc, memData, nswap, moves, active>>
      /\ pc \in {"idle", "swapstats"}
  BY DEF SwapCtl
<1>2. swap' \in [Swaps -> {"none", "on", "off"}]
  BY DEF SwapCtl, TypeOK
<1> QED BY <1>1, <1>2 DEF TypeOK, pools

(* The end of a call. *)
LEMMA TypeFinish ==
  ASSUME TypeOK, UNCHANGED <<pools, swap, os, lacks, units, nswap, moves>>,
         pc' = "done", active' \in 0..Pages, memData' \in [Fields -> Sizes]
  PROVE  TypeOK'
BY DEF TypeOK, pools, Fields

LEMMA SwapTotalSize == SwapTotal \in 0..(W - 1)
BY SwapTotalType DEF SwapTotal

LEMMA TypeGetLinux == ASSUME TypeOK, GetLinux PROVE TypeOK'
<1> DEFINE Table(k, v) == IF k \in lacks THEN None ELSE v
<1>1. PICK available \in 0..(free + cache), buffers \in 0..cache, swapFree \in 0..SwapTotal :
        LET f == Table("MemFree", free)
            total == Table("MemTotal", Pages)
            actual == IF "MemAvailable" \notin lacks THEN available
                      ELSE ValueOr(f, 0) + ValueOr(Table("Buffers", buffers), 0)
                             + ValueOr(Table("Cached", cache - buffers), 0)
            m == [Base(total, f) EXCEPT !.actualFree = actual,
                    !.actualUsed = Minus(ValueOr(total, 0), actual)]
        IN memData' = WithSwap(m, Table("SwapTotal", SwapTotal), Table("SwapFree", swapFree))
  BY DEF GetLinux, Finish
<1> DEFINE f == Table("MemFree", free)
           total == Table("MemTotal", Pages)
           actual == IF "MemAvailable" \notin lacks THEN available
                     ELSE ValueOr(f, 0) + ValueOr(Table("Buffers", buffers), 0)
                            + ValueOr(Table("Cached", cache - buffers), 0)
           m == [Base(total, f) EXCEPT !.actualFree = actual,
                   !.actualUsed = Minus(ValueOr(total, 0), actual)]
<1>2. free \in Nat /\ cache \in Nat /\ free + cache <= Pages
  BY DEF TypeOK
<1>3. \A k, v : Table(k, v) \in {v, None}
  OBVIOUS
<1>4. /\ ValueOr(f, 0) \in {0, free}
      /\ ValueOr(Table("Buffers", buffers), 0) \in {0, buffers}
      /\ ValueOr(Table("Cached", cache - buffers), 0) \in {0, cache - buffers}
      /\ f \in Sizes /\ total \in Sizes
  BY <1>2, <1>3, ValueOrDef DEF Sizes
<1>5. actual \in 0..(W - 1)
  BY <1>2, <1>4
<1> HIDE DEF actual, f, total
<1>6. Minus(ValueOr(total, 0), actual) \in Sizes /\ actual \in Sizes
  <2>1. ValueOr(total, 0) \in 0..(W - 1)
    BY <1>4, ValueOrType
  <2> QED BY <1>5, <2>1, MinusType DEF Sizes
<1>7. m \in [Fields -> Sizes]
  BY <1>4, <1>6, BaseType DEF Fields
<1>8. memData' = WithSwap(m, Table("SwapTotal", SwapTotal), Table("SwapFree", swapFree))
  BY <1>1 DEF m, f, total, actual
<1> HIDE DEF m
<1>9. Table("SwapTotal", SwapTotal) \in Sizes /\ Table("SwapFree", swapFree) \in Sizes
  <2>1. SwapTotal \in Sizes /\ swapFree \in Sizes
    BY SwapTotalSize DEF Sizes
  <2>2. None \in Sizes
    BY DEF Sizes
  <2> HIDE DEF Table
  <2> QED BY <1>3, <2>1, <2>2
<1> HIDE DEF Table
<1>10. memData' \in [Fields -> Sizes]
  BY <1>7, <1>8, <1>9, WithSwapType
<1>11. /\ UNCHANGED <<pools, swap, os, lacks, units, nswap, moves>>
       /\ pc' = "done" /\ os = "linux" /\ active' = Pages - free - cache
  BY DEF GetLinux, Finish
<1>12. active' \in 0..Pages
  BY <1>2, <1>11
<1> QED BY <1>10, <1>11, <1>12, TypeFinish

LEMMA TypeGetAtOnce == ASSUME TypeOK, MemoryInv, GetAtOnce PROVE TypeOK'
<1> DEFINE size == Pages * units
<1>1. /\ UNCHANGED <<pools, swap, os, lacks, units, nswap, moves>>
      /\ pc' = "done" /\ os \in {"aix", "windows", "darwin"} /\ active' = Pages - free - cache
  BY DEF GetAtOnce, Finish
<1>2. free \in 0..Pages /\ cache \in 0..Pages /\ active' \in 0..Pages
  BY <1>1 DEF TypeOK
<1>3. size \in Nat /\ Pages <= size /\ 2 * size < W
  BY TotalSize DEF MemoryInv
<1> DEFINE b == Base(size, free)
           c == WithCached(b, cache)
           w == [b EXCEPT !.actualFree = b.free, !.actualUsed = b.used]
<1>4. b \in [Fields -> Sizes] /\ c \in [Fields -> Sizes]
  <2> HIDE DEF size
  <2> QED BY <1>2, <1>3, BaseType, CachedType DEF Sizes
<1>5. w \in [Fields -> Sizes]
  <2> HIDE DEF b
  <2> QED BY <1>4 DEF Fields
<1>6. \/ memData' = c
      \/ \E swapFree \in 0..SwapTotal : memData' = WithSwap(w, SwapTotal, swapFree)
      \/ \E swapFree \in 0..SwapTotal : memData' = WithSwap(c, SwapTotal, swapFree)
  BY <1>1 DEF GetAtOnce, Finish
<1> HIDE DEF b, c, w
<1>7. SwapTotal \in Sizes /\ 0..SwapTotal \subseteq Sizes
  BY SwapTotalSize DEF Sizes
<1>8. memData' \in [Fields -> Sizes]
  <2>1. CASE memData' = c
    BY <1>4, <2>1
  <2>2. ASSUME NEW swapFree \in 0..SwapTotal, NEW m \in {w, c},
               memData' = WithSwap(m, SwapTotal, swapFree)
        PROVE  memData' \in [Fields -> Sizes]
    <3>1. m \in [Fields -> Sizes] /\ swapFree \in Sizes
      BY <1>4, <1>5, <1>7
    <3> QED BY <1>7, <2>2, <3>1, WithSwapType
  <2> QED BY <1>6, <2>1, <2>2
<1> QED BY <1>1, <1>2, <1>8, TypeFinish

LEMMA TypeGetFree == ASSUME TypeOK, GetFree PROVE TypeOK'
<1>1. /\ UNCHANGED <<pools, swap, os, lacks, units, nswap, active>>
      /\ memData' = Base(Pages, free) /\ pc' = "cached" /\ moves' = 0
  BY DEF GetFree
<1>2. Pages \in Sizes /\ free \in Sizes
  BY DEF TypeOK, Sizes
<1>3. memData' \in [Fields -> Sizes]
  BY <1>1, <1>2, BaseType
<1> QED BY <1>1, <1>3 DEF TypeOK, pools, Fields

LEMMA TypeGetCached == ASSUME TypeOK, MemoryInv, GetCached PROVE TypeOK'
<1>1. /\ UNCHANGED <<pools, swap, os, lacks, units, nswap, moves>>
      /\ pc = "cached" /\ pc' = IF os = "openbsd" THEN "swap" ELSE "done"
      /\ memData' = WithCached(memData, cache) /\ active' = Pages - free - cache
  BY DEF GetCached
<1>2. free \in 0..Pages /\ cache \in 0..Pages /\ active' \in 0..Pages
  BY <1>1 DEF TypeOK
<1>3. PICK f \in 0..Pages : memData = Base(Pages, f)
  BY <1>1 DEF MemoryInv, FreeInv
<1>4. memData' \in [Fields -> Sizes]
  BY <1>1, <1>2, <1>3, CachedType
<1> QED BY <1>1, <1>2, <1>4 DEF TypeOK, pools, Fields

LEMMA TypeCountSwap == ASSUME TypeOK, CountSwap PROVE TypeOK'
<1>1. /\ UNCHANGED <<pools, swap, os, lacks, units, memData, moves, active>>
      /\ pc' = IF nswap' = 0 THEN "done" ELSE "swapstats"
      /\ nswap' = Cardinality(SwapDevices)
  BY DEF CountSwap
<1>2. SwapDevices \in SUBSET Swaps
  BY DEF SwapDevices
<1>3. nswap' \in 0..Cardinality(Swaps)
  BY <1>1, <1>2, SwapTotalType
<1> QED BY <1>1, <1>3 DEF TypeOK, pools

(* Whatever stands where the code looks for an entry, sizes are added up   *)
(* as sizes.                                                               *)
LEMMA AddEntryType ==
  ASSUME NEW m \in [Fields -> Sizes],
         NEW e, e # None => e.nblks \in Nat /\ e.inuse \in Nat
  PROVE  AddEntry(m, e) \in [Fields -> Sizes]
<1>1. CASE e = None
  BY <1>1 DEF AddEntry
<1>2. CASE e # None
  <2> DEFINE t == (ValueOr(m.swapTotal, 0) + e.nblks) % W
             u == (ValueOr(m.swapUsed, 0) + e.inuse) % W
  <2>1. ValueOr(m.swapTotal, 0) \in Nat /\ ValueOr(m.swapUsed, 0) \in Nat
    <3>1. m.swapTotal \in Sizes /\ m.swapUsed \in Sizes
      BY DEF Fields
    <3> QED BY <3>1, ValueOrType
  <2>2. \A n \in Nat : n % W \in 0..(W - 1)
    OBVIOUS
  <2>3. t \in Sizes /\ u \in Sizes
    <3>1. ValueOr(m.swapTotal, 0) + e.nblks \in Nat /\ ValueOr(m.swapUsed, 0) + e.inuse \in Nat
      BY <1>2, <2>1
    <3> QED BY <2>2, <3>1 DEF Sizes
  <2>4. AddEntry(m, e) = [m EXCEPT !.swapTotal = t, !.swapUsed = u]
    BY <1>2 DEF AddEntry
  <2> HIDE DEF t, u
  <2> QED BY <2>3, <2>4 DEF Fields
<1> QED BY <1>1, <1>2

LEMMA TypeReadSwap == ASSUME TypeOK, ReadSwap PROVE TypeOK'
<1>1. PICK first \in FirstEntries, stray \in LaterEntries :
        memData' = [AddEntry(AddEntry(memData, first), stray) EXCEPT !.swapFree =
                      Minus(ValueOr(AddEntry(AddEntry(memData, first), stray).swapTotal, 0),
                            ValueOr(AddEntry(AddEntry(memData, first), stray).swapUsed, 0))]
  BY DEF ReadSwap, Finish
<1> DEFINE m == AddEntry(AddEntry(memData, first), stray)
           f == Minus(ValueOr(m.swapTotal, 0), ValueOr(m.swapUsed, 0))
<1>2. first # None => first.nblks \in Nat /\ first.inuse \in Nat
  <2>1. \A n \in 0..SwapSize : n \div 2 \in Nat
    OBVIOUS
  <2>2. SwapSize \in 0..SwapSize
    OBVIOUS
  <2>3. first # None => first \in [nblks : {SwapSize \div 2}, inuse : {n \div 2 : n \in 0..SwapSize}]
    BY DEF FirstEntries
  <2> QED BY <2>1, <2>2, <2>3
<1>3. stray # None => stray.nblks \in Nat /\ stray.inuse \in Nat
  <2>1. stray # None => stray \in [nblks : Strays, inuse : Strays]
    BY DEF LaterEntries
  <2>2. \A n \in Strays : n \in Nat
    OBVIOUS
  <2> QED BY <2>1, <2>2
<1>4. m \in [Fields -> Sizes]
  <2>1. memData \in [Fields -> Sizes]
    BY DEF TypeOK, Fields
  <2>2. AddEntry(memData, first) \in [Fields -> Sizes]
    BY <1>2, <2>1, AddEntryType
  <2> QED BY <1>3, <2>2, AddEntryType
<1>5. memData' = [m EXCEPT !.swapFree = f]
  BY <1>1
<1> HIDE DEF m
<1>6. f \in Sizes
  <2>1. m.swapTotal \in Sizes /\ m.swapUsed \in Sizes
    BY <1>4 DEF Fields
  <2> QED BY <2>1, ValueOrType, MinusType DEF Sizes
<1> HIDE DEF f
<1>7. memData' \in [Fields -> Sizes]
  BY <1>4, <1>5, <1>6 DEF Fields
<1>8. /\ UNCHANGED <<pools, swap, os, lacks, units, nswap, moves, active>>
      /\ pc' = "done"
  BY DEF ReadSwap, Finish
<1> QED BY <1>7, <1>8, TypeFinish DEF TypeOK

LEMMA TypeEnd == ASSUME TypeOK, Fail \/ Return PROVE TypeOK'
<1>1. CASE Fail
  BY <1>1, NoMemoryType DEF Fail, TypeOK, pools, Fields
<1>2. CASE Return
  <2>1. 0 \in 0..Cardinality(Swaps) /\ 0 \in 0..MaxMoves /\ 0 \in 0..Pages
    BY FS_CardinalityType
  <2> QED BY <1>2, <2>1, NoMemoryType DEF Return, TypeOK, pools, Fields
<1> QED BY <1>1, <1>2

LEMMA TypeStutter == ASSUME TypeOK, UNCHANGED vars PROVE TypeOK'
BY DEF vars, TypeOK, pools

LEMMA TypeStep == MemoryInv /\ TypeOK /\ [Next]_vars => TypeOK'
BY TypeMove, TypeSwapCtl, TypeGetLinux, TypeGetAtOnce, TypeGetFree, TypeGetCached,
   TypeCountSwap, TypeReadSwap, TypeEnd, TypeStutter DEF Next

(* Every variable of Memory keeps its type: no size leaves the range of a  *)
(* uint64, on any system, whatever keys /proc/meminfo lacks and whatever   *)
(* stands where OpenBSD's swap devices are looked for.                     *)
THEOREM TypeCorrect == Spec => []TypeOK
BY MemoryInvariant, TypeInit, TypeStep, PTL DEF Spec
=============================================================================
