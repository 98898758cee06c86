------------------------------ MODULE PidReaders ------------------------------
(***************************************************************************)
(* The readers of metric/system/process for Windows, macOS and AIX: how    *)
(* FetchPids lists the pids, how GetInfoForPid and FillPidMetrics put one  *)
(* ProcState together from several system calls, and GetPIDState.  The     *)
(* kernel starts, ends and reaps processes between any two system calls,   *)
(* and gives a pid to another process.  The rest of pidFill is in          *)
(* ProcStats.                                                              *)
(***************************************************************************)
EXTENDS Integers, Sequences, FiniteSets

CONSTANTS
  Procs,      \* processes; each lives at most once
  PidOf,      \* the pid of each, a natural number
  Self,       \* the process that runs this code
  Protected,  \* processes whose details the kernel refuses to this process
  Slack,      \* macOS: entries that the size of the list is rounded up by
  None        \* a field that is not there

ASSUME ReadersAssumption ==
  /\ IsFiniteSet(Procs)
  /\ PidOf \in [Procs -> Nat]
  /\ Self \in Procs \ Protected /\ PidOf[Self] # 0
  /\ Slack \in Nat
  /\ None \notin Procs

Pids == {PidOf[p] : p \in Procs}
Fields == {"name", "state", "username", "ppid", "memory", "cpu", "args", "env"}

(* A ProcState: of each field, the process that it describes. *)
ProcState == [Fields -> Procs \cup {None}]
Empty == [f \in Fields |-> None]

VARIABLES
  os,            \* runtime.GOOS of this build
  skipExtended,  \* Stats.skipExtended, which ListStates sets
  phase,         \* of each process: "unborn", "running", "zombie" or "gone"
  pc,            \* where the call is: the field it reads next, or a control point
  op,            \* the call: "FetchPids", "GetOne" or "GetPIDState"
  todo,          \* Windows, macOS: listed pids not looked at yet
  room,          \* macOS: entries that the buffer of proc_listpids has
  index,         \* AIX: IndexPointer, the next pid that getprocs looks for
  pid,           \* the pid that is being filled
  state,         \* the ProcState that is being filled
  plist,         \* the list that FetchPids builds, each state with its pid
  result,        \* of GetPIDState and GetOne: "", "state", "ProcNotExist" or "error"
  began,         \* history: processes that ran when the call began
  started,       \* history: pids that a process has got since the call began
  whole          \* history: no listed pid was cut off

config == <<os, skipExtended>>
lists == <<todo, room, index, plist, whole>>
vars == <<os, skipExtended, phase, pc, op, todo, room, index, pid, state, plist,
          result, began, started, whole>>

(* The process table, and the entries of it that have the pid i. *)
Table == {p \in Procs : phase[p] \in {"running", "zombie"}}
Entries(i) == {p \in Table : PidOf[p] = i}

Init ==
  /\ os \in {"windows", "darwin", "aix"}
  /\ skipExtended \in BOOLEAN
  /\ phase \in [Procs -> {"unborn", "running"}]
  /\ \A p \in Procs : p = Self \/ PidOf[p] = 0 => phase[p] = "running"
  /\ \A p, q \in Table : PidOf[p] = PidOf[q] => p = q
  /\ pc = "idle"
  /\ op = "FetchPids"
  /\ todo = {}
  /\ room = 0
  /\ index = 0
  /\ pid = PidOf[Self]
  /\ state = Empty
  /\ plist = <<>>
  /\ result = ""
  /\ began = {}
  /\ started = {}
  /\ whole = TRUE

-----------------------------------------------------------------------------
(* The kernel. *)

Start(p) ==
  /\ phase[p] = "unborn"
  /\ Entries(PidOf[p]) = {}
  /\ phase' = [phase EXCEPT ![p] = "running"]
  /\ started' = started \cup {PidOf[p]}
  /\ UNCHANGED <<config, pc, op, lists, pid, state, result, began>>

(* A process that ended stays in the table until it is reaped. *)
Exit(p) ==
  /\ p # Self /\ PidOf[p] # 0
  /\ phase[p] = "running"
  /\ phase' = [phase EXCEPT ![p] = "zombie"]
  /\ UNCHANGED <<config, pc, op, lists, pid, state, result, began, started>>

Reap(p) ==
  /\ phase[p] = "zombie"
  /\ phase' = [phase EXCEPT ![p] = "gone"]
  /\ UNCHANGED <<config, pc, op, lists, pid, state, result, began, started>>

(* getprocs for one entry: that with the lowest pid from i on. *)
NextEntry(i) ==
  {p \in Table : PidOf[p] >= i /\ \A q \in Table : PidOf[q] >= i => PidOf[p] <= PidOf[q]}

-----------------------------------------------------------------------------
(* What every reader ends in. *)

(* Mutant: a pid that fails ends the listing. *)
FailsAndReturns ==
  /\ pc' = "returned"
  /\ result' = IF op = "FetchPids" THEN "" ELSE "error"
  /\ UNCHANGED <<plist, state>>

(* Mutant: a pid that fails is tried again. *)
FailsAndRetries ==
  /\ pc' = IF op = "FetchPids" THEN "name" ELSE "returned"
  /\ result' = IF op = "FetchPids" THEN "" ELSE "error"
  /\ UNCHANGED <<plist, state>>

(* pidFill failed: FetchPids goes on without this pid.  On AIX GetPIDState *)
(* knows the ESRCH that GetInfoForPid fails with.                          *)
Fails ==
  /\ pc' = IF op = "FetchPids" THEN "next" ELSE "returned"
  /\ result' = IF op = "FetchPids" THEN ""
               ELSE IF op = "GetPIDState" /\ os = "aix" THEN "ProcNotExist"
               ELSE "error"
  /\ UNCHANGED <<plist, state>>

(* pidIter: the state is added to what FetchPids returns. *)
Collect ==
  /\ pc' = IF op = "FetchPids" THEN "next" ELSE "returned"
  /\ result' = IF op = "FetchPids" THEN "" ELSE "state"
  /\ plist' = Append(plist, [pid |-> pid, of |-> state'])

(* The fields fs are read from p, and f is read next. *)
Reads(fs, p, f) ==
  /\ state' = [g \in Fields |-> IF g \in fs THEN p ELSE state[g]]
  /\ pc' = f
  /\ UNCHANGED <<plist, result>>

(* GetInfoForPid is done: FillPidMetrics reads f next, unless the state is *)
(* all that the caller wants.                                              *)
InfoReads(fs, p, f) ==
  IF skipExtended \/ op = "GetPIDState"
  THEN /\ state' = [g \in Fields |-> IF g \in fs THEN p ELSE state[g]]
       /\ Collect
  ELSE Reads(fs, p, f)

FillReads(fs, p) ==
  /\ state' = [g \in Fields |-> IF g \in fs THEN p ELSE state[g]]
  /\ Collect

reader == <<config, phase, op, todo, room, index, pid, began, started, whole>>

-----------------------------------------------------------------------------
(* Windows: every field is read through a handle of its own. *)

(* OpenProcess(pid) and a query of the process.  One that ended while      *)
(* others hold it open answers some queries and not others.                *)
Opens(p) == p \in Entries(pid) /\ PidOf[p] # 0
Missing == \A p \in Entries(pid) : phase[p] = "zombie" \/ PidOf[p] = 0
Denied == \A p \in Entries(pid) :
            phase[p] = "zombie" \/ PidOf[p] = 0 \/ p \in Protected

At(f) == os = "windows" /\ pc = f /\ UNCHANGED reader

getProcName ==
  /\ At("name")
  /\ \/ \E p \in Procs : Opens(p) /\ Reads({"name"}, p, "state")
     \/ Missing /\ Fails

getPidStatus ==
  /\ At("state")
  /\ \/ \E p \in Procs : Opens(p) /\ InfoReads({"state"}, p, "username")
     \/ Missing /\ Fails

getProcCredName ==
  /\ At("username")
  /\ \/ \E p \in Procs : Opens(p) /\ p \notin Protected /\ Reads({"username"}, p, "ppid")
     \/ Denied /\ Fails

(* FillPidMetrics drops the error. *)
getParentPid ==
  /\ At("ppid")
  /\ \/ \E p \in Procs : Opens(p) /\ Reads({"ppid"}, p, "memory")
     \/ Missing /\ Reads({}, None, "memory")

(* Mutant: FillPidMetrics drops the error of procMem too. *)
procMemSoft ==
  /\ At("memory")
  /\ \/ \E p \in Procs : Opens(p) /\ p \notin Protected /\ Reads({"memory"}, p, "cpu")
     \/ Denied /\ Reads({}, None, "cpu")

procMem ==
  /\ At("memory")
  /\ \/ \E p \in Procs : Opens(p) /\ p \notin Protected /\ Reads({"memory"}, p, "cpu")
     \/ Denied /\ Fails

getProcTimes ==
  /\ At("cpu")
  /\ \/ \E p \in Procs : Opens(p) /\ Reads({"cpu"}, p, "args")
     \/ Missing /\ Fails

getProcArgs ==
  /\ At("args")
  /\ \/ \E p \in Procs : Opens(p) /\ p \notin Protected /\ FillReads({"args"}, p)
     \/ Denied /\ Fails

-----------------------------------------------------------------------------
(* macOS: one system call has most fields, another the rest. *)

(* Neither tells anything of a protected process: proc_pidinfo returns no  *)
(* struct of the expected size for it.                                     *)
Refused(i) == \A p \in Entries(i) : phase[p] = "zombie" \/ p \in Protected

taskInfo ==
  /\ os = "darwin" /\ pc = "name" /\ UNCHANGED reader
  /\ \/ \E p \in Entries(pid) \ Protected :
          InfoReads({"name", "state", "username", "ppid", "memory", "cpu"}, p, "args")
     \/ Refused(pid) /\ Fails

sysctl ==
  /\ os = "darwin" /\ pc = "args" /\ UNCHANGED reader
  /\ \/ \E p \in Entries(pid) \ Protected : FillReads({"args", "env"}, p)
     \/ Refused(pid) /\ Fails

-----------------------------------------------------------------------------
(* AIX: the process table is read by IndexPointer. *)

OnAIX(f) == os = "aix" /\ pc = f /\ UNCHANGED reader

(* GetInfoForPid: the entry may be that of a later pid. *)
getprocs ==
  /\ OnAIX("name")
  /\ \/ \E p \in NextEntry(pid) : Reads({"name", "ppid", "state", "username"}, p, "exists")
     \/ NextEntry(pid) = {} /\ Fails

procExists ==
  /\ OnAIX("exists")
  /\ \/ Entries(pid) # {} /\ InfoReads({}, None, "memory")
     \/ Entries(pid) = {} /\ Fails

(* FillPidMetrics: the entry may be that of a later pid again. *)
getprocsAgain ==
  /\ OnAIX("memory")
  /\ \/ \E p \in NextEntry(pid) : Reads({"memory", "cpu"}, p, "args")
     \/ NextEntry(pid) = {} /\ Fails

(* Mutant: pi_pid is left as getprocs set it. *)
PiPidOfEntry == IF os = "aix" /\ state["memory"] # None THEN PidOf[state["memory"]] ELSE pid

(* info.pi_pid is set to pid before info goes to getargs and getevars. *)
PiPid == pid

getargs ==
  /\ OnAIX("args")
  /\ \/ \E p \in Entries(PiPid) \ Protected : Reads({"args"}, p, "env")
     \/ Refused(PiPid) /\ Fails

getevars ==
  /\ OnAIX("env")
  /\ \/ \E p \in Entries(PiPid) \ Protected : FillReads({"env"}, p)
     \/ Refused(PiPid) /\ Fails

-----------------------------------------------------------------------------
(* The calls. *)

Enter(call, first) ==
  /\ pc = "idle"
  /\ op' = call
  /\ pc' = first
  /\ began' = {p \in Procs : phase[p] = "running"}
  /\ started' = {}
  /\ whole' = TRUE
  /\ plist' = <<>>
  /\ state' = Empty
  /\ result' = ""
  /\ UNCHANGED <<config, phase>>

(* FetchPids.  Windows: EnumProcesses lists every pid at once. *)
EnumProcesses ==
  /\ os = "windows"
  /\ Enter("FetchPids", "next")
  /\ todo' = {PidOf[p] : p \in Table}
  /\ UNCHANGED <<room, index, pid>>

(* FetchPids.  macOS: proc_listpids says how large the list is. *)
proc_listpidsSize ==
  /\ os = "darwin"
  /\ Enter("FetchPids", "list")
  /\ room' = Cardinality(Table) + Slack
  /\ UNCHANGED <<todo, index, pid>>

(* proc_listpids fills a buffer of that size; pid 0 is skipped. *)
proc_listpids ==
  /\ os = "darwin" /\ pc = "list"
  /\ \E listed \in SUBSET {PidOf[p] : p \in Table} :
       /\ \/ listed = {PidOf[p] : p \in Table} /\ Cardinality(listed) <= room
          \/ Cardinality(listed) = room
       /\ todo' = listed \ {0}
       /\ whole' = (listed = {PidOf[p] : p \in Table})
  /\ pc' = "next"
  /\ UNCHANGED <<config, phase, op, room, index, pid, state, plist, result, began, started>>

(* The loop of FetchPids on Windows and macOS. *)
NextListed ==
  /\ os # "aix" /\ pc = "next"
  /\ \/ \E i \in todo : pid' = i /\ todo' = todo \ {i} /\ pc' = "name"
     \/ todo = {} /\ pc' = "returned" /\ UNCHANGED <<pid, todo>>
  /\ state' = Empty
  /\ UNCHANGED <<config, phase, op, room, index, plist, result, began, started, whole>>

(* FetchPids.  AIX: the table is walked entry by entry. *)
WalkTable ==
  /\ os = "aix"
  /\ Enter("FetchPids", "next")
  /\ index' = 0
  /\ todo' = {}
  /\ UNCHANGED <<room, pid>>

(* Mutant: IndexPointer stays where it is. *)
NextInTableStuck ==
  /\ os = "aix" /\ pc = "next"
  /\ \E p \in NextEntry(index) : pid' = PidOf[p] /\ index' = PidOf[p]
  /\ pc' = "name"
  /\ state' = Empty
  /\ UNCHANGED <<config, phase, op, todo, room, plist, result, began, started, whole>>

(* getprocs moves index past the entry.  When it finds none, the loop ends *)
(* after the pid that is still in info, filled once more.                  *)
NextInTable ==
  /\ os = "aix" /\ pc = "next"
  /\ \/ /\ index >= 0
        /\ \E p \in NextEntry(index) : pid' = PidOf[p] /\ index' = PidOf[p] + 1
        /\ pc' = "name"
     \/ index >= 0 /\ NextEntry(index) = {} /\ index' = -1 /\ pc' = "name" /\ UNCHANGED pid
     \/ index = -1 /\ pc' = "returned" /\ UNCHANGED <<pid, index>>
  /\ state' = Empty
  /\ UNCHANGED <<config, phase, op, todo, room, plist, result, began, started, whole>>

(* GetOne, and the AIX path of GetPIDState, go straight to GetInfoForPid. *)
GetOne(i) ==
  /\ Enter("GetOne", "name")
  /\ pid' = i
  /\ UNCHANGED <<todo, room, index>>

GetPIDState(i) ==
  /\ Enter("GetPIDState", IF os = "aix" THEN "name" ELSE "exists?")
  /\ pid' = i
  /\ UNCHANGED <<todo, room, index>>

(* GetPIDState asks psutil first whether there is such a process. *)
PidExists ==
  /\ pc = "exists?"
  /\ IF Entries(pid) = {} THEN pc' = "returned" /\ result' = "ProcNotExist"
                          ELSE pc' = "name" /\ UNCHANGED result
  /\ UNCHANGED <<config, phase, op, lists, pid, state, began, started>>

Return ==
  /\ pc = "returned"
  /\ pc' = "idle"
  /\ UNCHANGED <<config, phase, op, lists, pid, state, result, began, started>>

Windows == \/ getProcName \/ getPidStatus \/ getProcCredName \/ getParentPid
           \/ procMem \/ getProcTimes \/ getProcArgs
AIX == getprocs \/ procExists \/ getprocsAgain \/ getargs \/ getevars
Run == \/ Windows \/ taskInfo \/ sysctl \/ AIX
       \/ proc_listpids \/ NextListed \/ NextInTable \/ PidExists \/ Return
Call == \/ EnumProcesses \/ proc_listpidsSize \/ WalkTable
        \/ \E i \in Pids : GetOne(i) \/ GetPIDState(i)
Kernel == \E p \in Procs : Start(p) \/ Exit(p) \/ Reap(p)

Next == Kernel \/ Call \/ Run

(* A goroutine in a call is scheduled.  Nothing makes it call, and nothing *)
(* is asked of the kernel.                                                 *)
Spec == Init /\ [][Next]_vars /\ WF_vars(Run)

-----------------------------------------------------------------------------
(* Properties *)

(* The type of every variable. *)
TypeOK ==
  /\ os \in {"windows", "darwin", "aix"}
  /\ skipExtended \in BOOLEAN
  /\ phase \in [Procs -> {"unborn", "running", "zombie", "gone"}]
  /\ pc \in {"idle", "list", "next", "exists?", "exists", "returned"} \cup Fields
  /\ op \in {"FetchPids", "GetOne", "GetPIDState"}
  /\ todo \subseteq Pids
  /\ room \in Nat
  /\ index \in Nat \cup {-1}
  /\ pid \in Pids
  /\ state \in ProcState
  /\ plist \in Seq([pid : Pids, of : ProcState])
  /\ result \in {"", "state", "ProcNotExist", "error"}
  /\ began \subseteq Procs
  /\ started \subseteq Pids
  /\ whole \in BOOLEAN

(* The processes that a state describes. *)
Described(s) == {s[f] : f \in Fields} \ {None}

(* Every field of a returned state describes one and the same process, the *)
(* one with the pid that was asked for, although each was read by a system *)
(* call of its own and AIX may answer with the entry of a later pid.  Only *)
(* a pid that was taken during the call can mix two processes.             *)
StateOfOneProcess ==
  \A i \in DOMAIN plist :
    plist[i].pid \notin started =>
      \E p \in Procs : PidOf[p] = plist[i].pid /\ Described(plist[i].of) = {p}

(* A filled state lacks no field.  The error of getParentPid that          *)
(* FillPidMetrics drops shows only if the process had ended by then: one   *)
(* that is gone fails a later query.                                       *)
Has(s) == {f \in Fields : s[f] # None}
StateComplete ==
  \A i \in DOMAIN plist :
    LET s == plist[i].of IN
    s["args"] # None =>
      \/ Fields \ Has(s) \subseteq {"env"} /\ (os # "windows" => "env" \in Has(s))
      \/ /\ os = "windows" /\ Fields \ Has(s) = {"env", "ppid"}
         /\ plist[i].pid \in started \/ phase[s["args"]] # "running"

(* A process that ran when the call began and still runs. *)
Throughout(p) == p \in began /\ phase[p] = "running" /\ PidOf[p] # 0

Listed == {plist[i].pid : i \in DOMAIN plist}

(* What may be read of p: GetInfoForPid needs no right on Windows and AIX, *)
(* and on macOS the one that FillPidMetrics needs everywhere.              *)
MayInfo(p) == p \notin Protected \/ os # "darwin"
MayRead(p) == p \notin Protected \/ (skipExtended /\ MayInfo(p))

(* Every call finds a process that ran before and after it and that it may *)
(* read: FetchPids lists it, unless macOS listed more processes than it    *)
(* had room for, and GetPIDState finds one too whose details it may not    *)
(* read.                                                                   *)
RunningIsFound ==
  pc = "returned" =>
    \A p \in Procs : Throughout(p) =>
      /\ op = "FetchPids" /\ whole /\ MayRead(p) => PidOf[p] \in Listed
      /\ op = "GetOne" /\ PidOf[p] = pid /\ MayRead(p) => result = "state"
      /\ op = "GetPIDState" /\ PidOf[p] = pid /\ MayInfo(p) => result = "state"

(* FetchPids lists a pid once, except that AIX fills the last one twice.   *)
ListedOnce ==
  \A i, j \in DOMAIN plist :
    i < j /\ plist[i].pid = plist[j].pid =>
      os = "aix" /\ index = -1 /\ j = Len(plist) /\ i = j - 1

(* The pids that a listing has not come to yet; on AIX also the end of the *)
(* table, which index is still to find.                                    *)
Ahead == IF os # "aix" THEN todo
         ELSE IF index = -1 THEN {} ELSE {i \in Pids : i >= index} \cup {-1}

(* How far a call is with one pid, in the order in which its fields are    *)
(* read; less than Stages.                                                 *)
Stages == 12
Stage(f) == CASE f \in {"list", "exists?"} -> 0
              [] f = "name" -> 1
              [] f \in {"state", "exists"} -> 2
              [] f = "username" -> 3
              [] f = "ppid" -> 4
              [] f = "memory" -> 5
              [] f = "cpu" -> 6
              [] f = "args" -> 7
              [] f = "env" -> 8
              [] f = "next" -> 9
              [] f = "returned" -> 10
              [] f = "idle" -> 11

(* A bound on the steps that a call has left to take.                      *)
Rank == IF pc = "list" THEN Stages * (Cardinality(Pids) + 1)
        ELSE Stages * Cardinality(Ahead) + Stages - 1 - Stage(pc)

(* Each step of a call brings it nearer to its end, and no process that    *)
(* starts, exits or is reaped makes it longer: no pid is tried again, and  *)
(* none is added to those that a listing has yet to come to.               *)
CallShortens ==
  [][/\ Run => Rank' < Rank
     /\ pc # "idle" /\ ~Run => Rank' = Rank]_vars

(* FetchPids ends, whatever starts and exits while it walks the table.     *)
FetchEnds == pc # "idle" ~> pc = "idle"
=============================================================================
