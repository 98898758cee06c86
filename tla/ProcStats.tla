------------------------------ MODULE ProcStats ------------------------------
(***************************************************************************)
(* One process.Stats shared by several goroutines (the callers).  Get      *)
(* walks every pid and replaces the tracked map; GetOne and GetSelf fill   *)
(* one pid and store it.  All three go through pidFill, which reads /proc  *)
(* in several steps and reads the tracked map twice on the way, so calls   *)
(* interleave with each other and with processes that start and exit.      *)
(***************************************************************************)
EXTENDS Integers

CONSTANTS
  Pids,           \* pid numbers
  Procs,          \* processes; each lives at most once
  PidOf,          \* the pid each process runs under
  Beat,           \* the process that runs this code: os.Getpid() is PidOf[Beat]
  KernelThreads,  \* processes whose /proc/[pid]/cmdline is empty
  Matched,        \* processes whose name matches one of Stats.Procs
  Callers,        \* goroutines that share the Stats
  Collectors,     \* callers that call Get
  Inspectors,     \* callers that call GetOne and GetSelf
  CacheCmdLine,   \* Stats.CacheCmdLine
  EnableCgroups,  \* Stats.EnableCgroups
  Cores,          \* CPU time one process can use in one unit of wall time
  MaxTime,        \* bound: the clock stops here
  None            \* no entry, or a nil field

ASSUME ProcsAssumption ==
  /\ PidOf \in [Procs -> Pids]
  /\ Beat \in Procs
  /\ KernelThreads \subseteq Procs
  /\ Matched \subseteq Procs
  /\ None \notin Procs

ASSUME CallersAssumption ==
  /\ Collectors \subseteq Callers
  /\ Inspectors \subseteq Callers
  /\ CacheCmdLine \in BOOLEAN
  /\ EnableCgroups \in BOOLEAN

ASSUME BoundsAssumption == Cores \in Nat /\ MaxTime \in Nat

VARIABLES
  phase,    \* of each process: "unborn", "running" or "gone"
  cpu,      \* CPU time each process has used: its user + system ticks
  now,      \* the wall clock
  pids,     \* ProcsTrack.pids: the last ProcState kept for each pid
  pc,       \* where each caller is
  op,       \* the call it is in: "Get" or "GetOne" (GetSelf is GetOne of Beat)
  todo,     \* Get: pids of the directory listing not looked at yet
  procMap,  \* Get: the map it builds, published at the end by SetMap
  pid,      \* pidFill: its argument
  status,   \* pidFill: the ProcState it builds
  last      \* pidFill: the previous ProcState, read before the percentages

environment == <<phase, cpu, now>>
locals == <<pc, op, todo, procMap, pid, status, last>>
vars == <<phase, cpu, now, pids, pc, op, todo, procMap, pid, status, last>>

(* A ProcState: every field that came from a /proc file names the process  *)
(* that file described when it was read.                                   *)
ProcState == [name : Procs \cup {None}, args : Procs \cup {None},
              env : Procs \cup {None}, cpu : Procs \cup {None},
              ticks : Nat, sample : Nat]
Empty == [name |-> None, args |-> None, env |-> None, cpu |-> None,
          ticks |-> 0, sample |-> 0]

ASSUME NoneAssumption == None \notin ProcState

NoEntries == [p \in Pids |-> None]

LiveAt(p) == {x \in Procs : phase[x] = "running" /\ PidOf[x] = p}

Init ==
  /\ phase = [x \in Procs |-> IF x = Beat THEN "running" ELSE "unborn"]
  /\ cpu = [x \in Procs |-> 0]
  /\ now = 0
  /\ pids = NoEntries
  /\ pc = [c \in Callers |-> "idle"]
  /\ op = [c \in Callers |-> "Get"]
  /\ todo = [c \in Callers |-> {}]
  /\ procMap = [c \in Callers |-> NoEntries]
  /\ pid = [c \in Callers |-> PidOf[Beat]]
  /\ status = [c \in Callers |-> Empty]
  /\ last = [c \in Callers |-> None]

-----------------------------------------------------------------------------
(* The operating system. *)

Start(x) ==
  /\ phase[x] = "unborn"
  /\ LiveAt(PidOf[x]) = {}
  /\ phase' = [phase EXCEPT ![x] = "running"]
  /\ UNCHANGED <<cpu, now, pids, locals>>

Exit(x) ==
  /\ phase[x] = "running"
  /\ x # Beat
  /\ phase' = [phase EXCEPT ![x] = "gone"]
  /\ UNCHANGED <<cpu, now, pids, locals>>

(* Time passes, and running processes use some of it. *)
Tick ==
  /\ now < MaxTime
  /\ now' = now + 1
  /\ \E used \in [Procs -> 0..Cores] :
       /\ \A x \in Procs : phase[x] # "running" => used[x] = 0
       /\ cpu' = [x \in Procs |-> cpu[x] + used[x]]
  /\ UNCHANGED <<phase, pids, locals>>

-----------------------------------------------------------------------------
(* Leaving a call: its locals die with it. *)
Return(c) ==
  /\ pc' = [pc EXCEPT ![c] = "idle"]
  /\ op' = [op EXCEPT ![c] = "Get"]
  /\ todo' = [todo EXCEPT ![c] = {}]
  /\ procMap' = [procMap EXCEPT ![c] = NoEntries]
  /\ pid' = [pid EXCEPT ![c] = PidOf[Beat]]
  /\ status' = [status EXCEPT ![c] = Empty]
  /\ last' = [last EXCEPT ![c] = None]

(* Back to pidIter and the loop of FetchPids, with the pid skipped or kept. *)
NextPid(c) ==
  /\ pc' = [pc EXCEPT ![c] = "list"]
  /\ pid' = [pid EXCEPT ![c] = PidOf[Beat]]
  /\ status' = [status EXCEPT ![c] = Empty]
  /\ last' = [last EXCEPT ![c] = None]
  /\ UNCHANGED <<op, todo>>

(* pidFill: GetInfoForPid found a process behind p. *)
EnterPidFill(c, p) ==
  \E x \in LiveAt(p) :
    /\ pc' = [pc EXCEPT ![c] = "cache"]
    /\ pid' = [pid EXCEPT ![c] = p]
    /\ status' = [status EXCEPT ![c] = [Empty EXCEPT !.name = x]]
    /\ last' = [last EXCEPT ![c] = None]
    /\ UNCHANGED procMap

(* Get, FetchPids: the names in /proc are read at once. *)
StartGet(c) ==
  /\ pc[c] = "idle"
  /\ pc' = [pc EXCEPT ![c] = "list"]
  /\ op' = [op EXCEPT ![c] = "Get"]
  /\ todo' = [todo EXCEPT ![c] = {p \in Pids : LiveAt(p) # {}}]
  /\ UNCHANGED <<environment, pids, procMap, pid, status, last>>

(* FetchPids, pidIter: take a listed pid; GetInfoForPid says ESRCH if it   *)
(* is gone by now.                                                         *)
GetListed(c) ==
  /\ pc[c] = "list"
  /\ \E p \in todo[c] :
       /\ todo' = [todo EXCEPT ![c] = @ \ {p}]
       /\ \/ EnterPidFill(c, p)
          \/ LiveAt(p) = {} /\ UNCHANGED <<pc, pid, status, last, procMap>>
  /\ UNCHANGED <<environment, pids, op>>

(* GetOne.  If the pid is gone the call returns an error and changes       *)
(* nothing.                                                                *)
GetOne(c, p) ==
  /\ pc[c] = "idle"
  /\ EnterPidFill(c, p)
  /\ op' = [op EXCEPT ![c] = "GetOne"]
  /\ UNCHANGED <<environment, pids, todo>>

GetSelf(c) == GetOne(c, PidOf[Beat])

(* pidFill: cacheCmdLine copies from the tracked map, then Get (and only   *)
(* Get) drops the pid if its name matches no pattern.                      *)
WithCache(ps, entry) ==
  IF entry = None
  THEN ps
  ELSE [ps EXCEPT !.args = IF CacheCmdLine THEN entry.args ELSE @,
                  !.env = entry.env]

FilterAndCache(c) ==
  /\ pc[c] = "cache"
  /\ \/ /\ op[c] = "GetOne" \/ status[c].name \in Matched
        /\ status' = [status EXCEPT ![c] = WithCache(@, pids[pid[c]])]
        /\ pc' = [pc EXCEPT ![c] = "cpu"]
        /\ UNCHANGED <<op, todo, pid, last>>
     \/ /\ op[c] = "Get" /\ status[c].name \notin Matched
        /\ NextPid(c)
  /\ UNCHANGED <<environment, pids, procMap>>

(* FillPidMetrics: getMemData and getCPUTime. *)
ReadCPU(c) ==
  /\ pc[c] = "cpu"
  /\ \E x \in LiveAt(pid[c]) :
       status' = [status EXCEPT ![c].cpu = x, ![c].ticks = cpu[x]]
  /\ pc' = [pc EXCEPT ![c] = "files"]
  /\ UNCHANGED <<environment, pids, op, todo, procMap, pid, last>>

(* FillPidMetrics: the rest.  Arguments and environment are read only if   *)
(* the cache gave none; an unreadable environment is left nil.             *)
ReadFiles(c) ==
  /\ pc[c] = "files"
  /\ \E x \in LiveAt(pid[c]), e \in {TRUE, FALSE} :
       status' = [status EXCEPT
         ![c].args = IF @ = None /\ x \notin KernelThreads THEN x ELSE @,
         ![c].env = IF @ = None /\ e THEN x ELSE @]
  /\ pc' = [pc EXCEPT ![c] = "last"]
  /\ UNCHANGED <<environment, pids, op, todo, procMap, pid, last>>

(* Mutant: the baseline is looked up under the beat's own pid. *)
GetLastOfSelf(c) ==
  /\ pc[c] = "last"
  /\ last' = [last EXCEPT ![c] = pids[PidOf[Beat]]]
  /\ pc' = [pc EXCEPT ![c] = "stamp"]
  /\ UNCHANGED <<environment, pids, op, todo, procMap, pid, status>>

(* pidFill: ProcsMap.GetPid, the baseline of every percentage. *)
GetLast(c) ==
  /\ pc[c] = "last"
  /\ last' = [last EXCEPT ![c] = pids[pid[c]]]
  /\ pc' = [pc EXCEPT ![c] = "stamp"]
  /\ UNCHANGED <<environment, pids, op, todo, procMap, pid, status>>

(* Mutant: SampleTime is set only for a pid that was not tracked before. *)
StampOnce(c) ==
  /\ pc[c] = "stamp"
  /\ status' = [status EXCEPT ![c].sample = IF last[c] = None THEN now ELSE @]
  /\ pc' = [pc EXCEPT ![c] = "filled"]
  /\ UNCHANGED <<environment, pids, op, todo, procMap, pid, last>>

(* pidFill: SampleTime, then the cgroup files, then the percentages (see   *)
(* Elapsed and Used below).                                                *)
Stamp(c) ==
  /\ pc[c] = "stamp"
  /\ EnableCgroups => LiveAt(pid[c]) # {}
  /\ status' = [status EXCEPT ![c].sample = now]
  /\ pc' = [pc EXCEPT ![c] = "filled"]
  /\ UNCHANGED <<environment, pids, op, todo, procMap, pid, last>>

(* pidFill returns an error: a file is gone, unreadable or does not parse. *)
(* Get skips the pid; GetOne and GetSelf return the error.                 *)
Fail(c) ==
  /\ pc[c] \in {"cpu", "files"} \/ (pc[c] = "stamp" /\ EnableCgroups)
  /\ \/ op[c] = "Get" /\ NextPid(c) /\ UNCHANGED procMap
     \/ op[c] = "GetOne" /\ Return(c)
  /\ UNCHANGED <<environment, pids>>

(* pidIter: procMap[pid] = status. *)
Collect(c) ==
  /\ pc[c] = "filled"
  /\ op[c] = "Get"
  /\ procMap' = [procMap EXCEPT ![c][pid[c]] = status[c]]
  /\ NextPid(c)
  /\ UNCHANGED <<environment, pids>>

(* Mutant: GetOne and GetSelf forget to store the new sample. *)
SetPidForgotten(c) ==
  /\ pc[c] = "filled"
  /\ op[c] = "GetOne"
  /\ Return(c)
  /\ UNCHANGED <<environment, pids>>

(* Mutant: a tracked entry is updated in place, all but its SampleTime. *)
SetPidInPlace(c) ==
  /\ pc[c] = "filled"
  /\ op[c] = "GetOne"
  /\ pids' = [pids EXCEPT ![pid[c]] =
                IF @ = None THEN status[c]
                ELSE [status[c] EXCEPT !.sample = pids[pid[c]].sample]]
  /\ Return(c)
  /\ UNCHANGED environment

(* GetOne, GetSelf: ProcsTrack.SetPid. *)
SetPid(c) ==
  /\ pc[c] = "filled"
  /\ op[c] = "GetOne"
  /\ pids' = [pids EXCEPT ![pid[c]] = status[c]]
  /\ Return(c)
  /\ UNCHANGED environment

(* Mutant: SetMap updates the tracked map and keeps what else it holds. *)
SetMapMerged(c) ==
  /\ pc[c] = "list"
  /\ todo[c] = {}
  /\ pids' = [p \in Pids |-> IF procMap[c][p] = None THEN pids[p]
                                                    ELSE procMap[c][p]]
  /\ Return(c)
  /\ UNCHANGED environment

(* Get: ProcsTrack.SetMap replaces the whole map. *)
SetMap(c) ==
  /\ pc[c] = "list"
  /\ todo[c] = {}
  /\ pids' = procMap[c]
  /\ Return(c)
  /\ UNCHANGED environment

(* Mutant: SampleTime is taken first, and the baseline is read after it. *)
StampFirst(c) ==
  /\ pc[c] = "last"
  /\ status' = [status EXCEPT ![c].sample = now]
  /\ pc' = [pc EXCEPT ![c] = "stamp"]
  /\ UNCHANGED <<environment, pids, op, todo, procMap, pid, last>>
BaselineSecond(c) ==
  /\ pc[c] = "stamp"
  /\ last' = [last EXCEPT ![c] = pids[pid[c]]]
  /\ pc' = [pc EXCEPT ![c] = "filled"]
  /\ UNCHANGED <<environment, pids, op, todo, procMap, pid, status>>
StepStampFirst(c) ==
  \/ GetListed(c) \/ FilterAndCache(c) \/ ReadCPU(c) \/ ReadFiles(c)
  \/ StampFirst(c) \/ BaselineSecond(c)
  \/ Fail(c) \/ Collect(c) \/ SetPid(c) \/ SetMap(c)

(* A step of a call that is under way. *)
Step(c) ==
  \/ GetListed(c)
  \/ FilterAndCache(c)
  \/ ReadCPU(c)
  \/ ReadFiles(c)
  \/ GetLast(c)
  \/ Stamp(c)
  \/ Fail(c)
  \/ Collect(c)
  \/ SetPid(c)
  \/ SetMap(c)

Next ==
  \/ \E x \in Procs : Start(x) \/ Exit(x)
  \/ Tick
  \/ \E c \in Collectors : StartGet(c)
  \/ \E c \in Inspectors : GetSelf(c) \/ \E p \in Pids : GetOne(c, p)
  \/ \E c \in Callers : Step(c)

Spec == Init /\ [][Next]_vars

(* Goroutines are scheduled, and Get is called again and again: its        *)
(* callers are periodic.  Nothing obliges a process to start or exit, time *)
(* to pass, or anybody to call GetOne.                                     *)
Fairness ==
  /\ \A c \in Callers : WF_vars(Step(c))
  /\ \A c \in Collectors : SF_vars(StartGet(c))

FairSpec == Spec /\ Fairness

-----------------------------------------------------------------------------
(* Properties *)

Stages == {"idle", "list", "cache", "cpu", "files", "last", "stamp", "filled"}

(* The type of every variable. *)
TypeOK ==
  /\ phase \in [Procs -> {"unborn", "running", "gone"}]
  /\ cpu \in [Procs -> Nat]
  /\ now \in Nat
  /\ pids \in [Pids -> ProcState \cup {None}]
  /\ pc \in [Callers -> Stages]
  /\ op \in [Callers -> {"Get", "GetOne"}]
  /\ todo \in [Callers -> SUBSET Pids]
  /\ procMap \in [Callers -> [Pids -> ProcState \cup {None}]]
  /\ pid \in [Callers -> Pids]
  /\ status \in [Callers -> ProcState]
  /\ last \in [Callers -> ProcState \cup {None}]

(* A caller has a baseline and is about to compute the percentages that    *)
(* GetProcCPUPercentage and FillPercentages divide.                        *)
HasBaseline(c) == pc[c] = "filled" /\ last[c] # None
Elapsed(c) == status[c].sample - last[c].sample
Used(c) == status[c].ticks - last[c].ticks

(* The interval a percentage is divided by is never negative, however the  *)
(* calls of several goroutines interleave: pidFill reads the baseline      *)
(* before it takes SampleTime.                                             *)
ElapsedNonNegative == \A c \in Callers : HasBaseline(c) => Elapsed(c) >= 0

(* The CPU percentage is not negative: the lower end of the range that     *)
(* GetProcCPUPercentage documents.                                         *)
UsageNonNegative == \A c \in Callers : HasBaseline(c) => Used(c) >= 0

(* No step puts an older sample of a pid in place of a newer one. *)
SamplesAdvance ==
  [][\A p \in Pids : pids[p] # None /\ pids'[p] # None
       => pids'[p].sample >= pids[p].sample]_vars

(* No entry of a map has been measured from x; and neither has anything    *)
(* that a caller has at hand.                                              *)
Without(map, x) == \A p \in Pids : map[p] # None => map[p].cpu # x
Clean(c, x) == Without(procMap[c], x) /\ status[c].cpu # x

(* Nothing that is tracked or at hand shows any field of x, those that     *)
(* cacheCmdLine took over for the next process of its pid included.        *)
Shows(ps, x) == x \in {ps.name, ps.args, ps.env, ps.cpu}
Unseen(map, x) == \A p \in Pids : map[p] # None => ~Shows(map[p], x)
Erased(x) == /\ Unseen(pids, x)
             /\ \A c \in Callers : Unseen(procMap[c], x) /\ ~Shows(status[c], x)

(* After a process exited, a call that has measured nothing of it measures *)
(* nothing of it, a Get that has nothing of it drops it from the tracked   *)
(* map, whoever has its pid now, and once all calls that had measured it   *)
(* are over it is never tracked again.  Its arguments and environment may  *)
(* outlive it, in the entry of the next process of its pid; but once they  *)
(* are gone too, no call brings them back.                                 *)
GoneIsDropped ==
  [][\A x \in Procs : phase[x] = "gone" =>
       /\ phase'[x] = "gone"
       /\ \A c \in Callers : Clean(c, x) =>
            Clean(c, x)' /\ (SetMap(c) => Without(pids', x))
       /\ Without(pids, x) /\ (\A c \in Callers : Clean(c, x)) =>
            Without(pids', x)
       /\ Erased(x) => Erased(x)']_vars

(* A process that exited is dropped from the tracked map, whatever GetOne  *)
(* calls were under way: each Get builds the map anew.                     *)
ExitedForgotten ==
  \A x \in Procs : (phase[x] = "gone") ~>
    [](\A p \in Pids : pids[p] # None => pids[p].cpu # x)
=============================================================================
