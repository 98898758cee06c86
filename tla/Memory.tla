-------------------------------- MODULE Memory --------------------------------
(***************************************************************************)
(* metric/memory: Get of every operating system.  Linux, AIX, Windows and  *)
(* macOS read the page counts at once; FreeBSD and OpenBSD read the free   *)
(* pages first and the inactive or buffer pages with a second call, and    *)
(* OpenBSD counts the swap devices before it reads them.  Pages and        *)
(* devices change between any two calls.  Sizes are in pages; on macOS in  *)
(* units of 4096 bytes, to which the code shifts the counts of pages,      *)
(* whatever the size of a page is.                                         *)
(***************************************************************************)
EXTENDS Integers, FiniteSets

CONSTANTS
  Pages,     \* pages of the machine
  W,         \* 2^64: sizes wrap there
  Swaps,     \* devices that may become swap
  SwapSize,  \* blocks of each
  Strays,    \* what may stand where the code looks for a second swap device
  PageSizes, \* sizes of a page on macOS, in units of 4096 bytes
  Lacking,   \* the sets of keys that /proc/meminfo may lack
  MaxMoves,  \* bound: how many pages move while a call runs
  None       \* a value that is not set

Systems == {"linux", "aix", "windows", "darwin", "freebsd", "openbsd"}
MeminfoKeys == {"MemTotal", "MemFree", "MemAvailable", "Buffers", "Cached",
                "SwapTotal", "SwapFree"}

ASSUME MemoryAssumption ==
  /\ Pages \in Nat \ {0}
  /\ W \in Nat /\ W > 2 * Pages
  /\ Strays \subseteq 0..(W - 1)
  /\ IsFiniteSet(Swaps)
  /\ SwapSize \in Nat /\ SwapSize * Cardinality(Swaps) < W
  /\ Lacking \subseteq SUBSET MeminfoKeys
  /\ MaxMoves \in Nat
  /\ None \notin Int

ASSUME PageSizesAssumption ==
  /\ PageSizes \subseteq Nat \ {0} /\ PageSizes # {}
  /\ \A u \in PageSizes : W > 2 * (Pages * u)

VARIABLES
  free,       \* free pages
  cache,      \* inactive pages or file cache, which count as available
  swap,       \* of each device: "none", "on", or "off", that is being removed
  os,         \* what the code was built for
  lacks,      \* keys that /proc/meminfo lacks
  units,      \* size of a page on macOS, in units of 4096 bytes
  pc,         \* where the call is
  memData,    \* the Memory to return, see NoMemory
  nswap,      \* getSwap of OpenBSD: number of swap devices
  moves,      \* history: pages that moved since the call read the free ones
  active      \* history: the other pages when it read the cached ones

pools == <<free, cache>>
vars == <<free, cache, swap, os, lacks, units, pc, memData, nswap, moves, active>>

NoMemory == [total |-> None, free |-> None, used |-> None, actualFree |-> None,
             actualUsed |-> None, swapTotal |-> None, swapFree |-> None, swapUsed |-> None]

(* Mutant: a subtraction that does not wrap. *)
MinusSigned(a, b) == a - b

(* uint64 *)
Minus(a, b) == IF a >= b THEN a - b ELSE a - b + W
ValueOr(x, d) == IF x = None THEN d ELSE x

Init ==
  /\ free \in 0..Pages /\ cache \in 0..Pages /\ free + cache <= Pages
  /\ swap \in [Swaps -> {"none", "on"}]
  /\ os \in Systems
  /\ lacks \in IF os = "linux" THEN Lacking ELSE {{}}
  /\ units \in IF os = "darwin" THEN PageSizes ELSE {1}
  /\ pc = "idle"
  /\ memData = NoMemory
  /\ nswap = 0
  /\ moves = 0
  /\ active = 0

-----------------------------------------------------------------------------
(* The kernel *)

(* A page is allocated, freed, cached or taken from the cache; during a    *)
(* call, where the code reads pages twice.                                 *)
MovePage(df, dc) ==
  /\ pc \in {"cached", "idle"}
  /\ pc = "cached" => moves < MaxMoves
  /\ free + df >= 0 /\ cache + dc >= 0 /\ free + df + cache + dc <= Pages
  /\ free' = free + df
  /\ cache' = cache + dc
  /\ moves' = IF pc = "cached" THEN moves + 1 ELSE moves
  /\ UNCHANGED <<swap, os, lacks, units, pc, memData, nswap, active>>

PageMoves == {<<1, 0>>, <<-1, 0>>, <<0, 1>>, <<0, -1>>, <<1, -1>>, <<-1, 1>>}

(* swapon, and swapoff, which first drains the device; during a call,      *)
(* where the code has counted the devices and not read them yet.           *)
SwapCtl(d) ==
  /\ pc \in {"idle", "swapstats"}
  /\ swap' = [swap EXCEPT ![d] = CASE swap[d] = "none" -> "on"
                                   [] swap[d] = "on" -> "off"
                                   [] swap[d] = "off" -> "none"]
  /\ UNCHANGED <<pools, os, lacks, units, pc, memData, nswap, moves, active>>

-----------------------------------------------------------------------------
(* get *)

(* The size and the free pages, as every system reports them. *)
Base(total, f) == [NoMemory EXCEPT !.total = total, !.free = f,
  !.used = Minus(ValueOr(total, 0), ValueOr(f, 0))]

(* Mutant: the used and the cached pages are swapped. *)
WithCachedSwapped(m, kern) ==
  [m EXCEPT !.actualFree = m.free + kern, !.actualUsed = Minus(kern, m.used)]

(* What is actually free, where that is the free and the cached pages. *)
WithCached(m, kern) == [m EXCEPT !.actualFree = m.free + kern, !.actualUsed = Minus(m.used, kern)]

WithSwap(m, total, f) == [m EXCEPT !.swapTotal = total, !.swapFree = f,
  !.swapUsed = IF None \in {total, f} THEN None ELSE Minus(total, f)]

SwapDevices == {d \in Swaps : swap[d] # "none"}
SwapTotal == SwapSize * Cardinality({d \in Swaps : swap[d] = "on"})

Finish(m) == memData' = m /\ pc' = "done"

(* One read of /proc/meminfo: the kernel's own estimate of what is         *)
(* available, where it makes one, and a table that may lack any key.       *)
GetLinux ==
  /\ os = "linux" /\ pc = "idle"
  /\ \E available \in 0..(free + cache), buffers \in 0..cache, swapFree \in 0..SwapTotal :
       LET Table(k, v) == IF k \in lacks THEN None ELSE v
           total == Table("MemTotal", Pages)
           f == Table("MemFree", free)
           actual == IF "MemAvailable" \notin lacks THEN available
                     ELSE ValueOr(f, 0) + ValueOr(Table("Buffers", buffers), 0)
                            + ValueOr(Table("Cached", cache - buffers), 0)
           m == [Base(total, f) EXCEPT !.actualFree = actual,
                   !.actualUsed = Minus(ValueOr(total, 0), actual)]
       IN Finish(WithSwap(m, Table("SwapTotal", SwapTotal), Table("SwapFree", swapFree)))
  /\ active' = Pages - free - cache
  /\ UNCHANGED <<pools, swap, os, lacks, units, nswap, moves>>

(* One system call, or one for the pages and one for the swap space.  The  *)
(* total of macOS is in bytes, the counts of pages are shifted by 12.      *)
GetAtOnce ==
  /\ os \in {"aix", "windows", "darwin"} /\ pc = "idle"
  /\ LET m == Base(Pages * units, free) IN
       CASE os = "aix" -> Finish(WithCached(m, cache))
         [] os = "windows" -> \E swapFree \in 0..SwapTotal :
              Finish(WithSwap([m EXCEPT !.actualFree = m.free, !.actualUsed = m.used],
                              SwapTotal, swapFree))
         [] os = "darwin" -> \E swapFree \in 0..SwapTotal :
              Finish(WithSwap(WithCached(m, cache), SwapTotal, swapFree))
  /\ active' = Pages - free - cache
  /\ UNCHANGED <<pools, swap, os, lacks, units, nswap, moves>>

(* v_free_count, VM_UVMEXP *)
GetFree ==
  /\ os \in {"freebsd", "openbsd"} /\ pc = "idle"
  /\ memData' = Base(Pages, free)
  /\ pc' = "cached"
  /\ moves' = 0
  /\ UNCHANGED <<pools, swap, os, lacks, units, nswap, active>>

(* v_inactive_count, VFS_BCACHESTAT *)
GetCached ==
  /\ pc = "cached"
  /\ memData' = WithCached(memData, cache)
  /\ active' = Pages - free - cache
  /\ pc' = IF os = "openbsd" THEN "swap" ELSE "done"
  /\ UNCHANGED <<pools, swap, os, lacks, units, nswap, moves>>

(* SWAP_NSWAP *)
CountSwap ==
  /\ pc = "swap"
  /\ nswap' = Cardinality(SwapDevices)
  /\ pc' = IF nswap' = 0 THEN "done" ELSE "swapstats"
  /\ UNCHANGED <<pools, swap, os, lacks, units, memData, moves, active>>

(* An entry of SWAP_STATS that is enabled is added up; None is one that is *)
(* not.                                                                    *)
AddEntry(m, e) ==
  IF e = None THEN m
  ELSE [m EXCEPT !.swapTotal = (ValueOr(@, 0) + e.nblks) % W,
                 !.swapUsed = (ValueOr(@, 0) + e.inuse) % W]

(* A device's blocks are halved, which gives units of 1024 bytes.  None is *)
(* one that is not on, or what was not filled because the call failed with *)
(* -1, which is no error.                                                  *)
FirstEntries ==
  {None} \cup (IF \A d \in Swaps : swap[d] # "on" THEN {}
              ELSE [nblks : {SwapSize \div 2}, inuse : {n \div 2 : n \in 0..SwapSize}])

LaterEntries == {None} \cup (IF nswap > 1 THEN [nblks : Strays, inuse : Strays] ELSE {})

(* SWAP_STATS: Swapent is shorter than the kernel's entry, which holds the *)
(* path itself, so that only the first is where the code looks for it, and *)
(* whatever stands at the places of the others is added.  Total and Used   *)
(* stay unset when no entry is enabled, Free does not.                     *)
ReadSwap ==
  /\ pc = "swapstats"
  /\ \E first \in FirstEntries, stray \in LaterEntries :
       LET m == AddEntry(AddEntry(memData, first), stray)
       IN Finish([m EXCEPT !.swapFree = Minus(ValueOr(m.swapTotal, 0), ValueOr(m.swapUsed, 0))])
  /\ UNCHANGED <<pools, swap, os, lacks, units, nswap, moves, active>>

(* Any call may fail; an error drops what was read before. *)
Fail ==
  /\ pc \in {"idle", "cached", "swap", "swapstats"}
  /\ pc' = "done"
  /\ memData' = NoMemory
  /\ UNCHANGED <<pools, swap, os, lacks, units, nswap, moves, active>>

Return ==
  /\ pc = "done"
  /\ pc' = "idle"
  /\ memData' = NoMemory
  /\ nswap' = 0
  /\ moves' = 0
  /\ active' = 0
  /\ UNCHANGED <<pools, swap, os, lacks, units>>

Next ==
  \/ \E m \in PageMoves : MovePage(m[1], m[2])
  \/ \E d \in Swaps : SwapCtl(d)
  \/ GetLinux
  \/ GetAtOnce
  \/ GetFree
  \/ GetCached
  \/ CountSwap
  \/ ReadSwap
  \/ Fail
  \/ Return

Spec == Init /\ [][Next]_vars

-----------------------------------------------------------------------------
(* fillPercentages: which percentages there are. *)

(* Mutant: memory has percentages whether its size is known or not. *)
HasPctAlways(m) == m # NoMemory

HasPct(m) == ValueOr(m.total, 0) # 0

-----------------------------------------------------------------------------
(* Properties *)

Sizes == 0..(W - 1) \cup {None}

(* The type of every variable. *)
TypeOK ==
  /\ free \in 0..Pages /\ cache \in 0..Pages /\ free + cache <= Pages
  /\ swap \in [Swaps -> {"none", "on", "off"}]
  /\ os \in Systems
  /\ lacks \subseteq MeminfoKeys
  /\ units \in PageSizes \cup {1}
  /\ pc \in {"idle", "cached", "swap", "swapstats", "done"}
  /\ memData \in [{"total", "free", "used", "actualFree", "actualUsed", "swapTotal",
                   "swapFree", "swapUsed"} -> Sizes]
  /\ nswap \in 0..Cardinality(Swaps)
  /\ moves \in 0..MaxMoves
  /\ active \in 0..Pages

(* The percentages of memory are between 0 and 1, the actual one if no     *)
(* page moved while the call ran, whatever keys /proc/meminfo lacks.       *)
PctWithinBounds ==
  pc = "done" =>
    /\ HasPct(memData) => ValueOr(memData.used, 0) <= ValueOr(memData.total, 1)
    /\ HasPct(memData) /\ moves = 0 => ValueOr(memData.actualUsed, 0) <= ValueOr(memData.total, 0)

(* Where what is actually used is computed from the free and the cached    *)
(* pages, it is off by no more pages than moved between the two calls;     *)
(* off below zero, it wraps.  On macOS if pages have 4096 bytes.           *)
FromPools ==
  \/ os \in {"aix", "freebsd", "openbsd"}
  \/ os = "darwin" /\ units = 1
  \/ os = "linux" /\ lacks = {"MemAvailable"}
ActualUsedDrift ==
  pc = "done" /\ memData # NoMemory /\ FromPools =>
    \E d \in -moves..moves :
      memData.actualUsed = IF active + d >= 0 THEN active + d ELSE active + d + W
=============================================================================
