--------------------------- MODULE PidReadersProofs ---------------------------
(* Proofs about PidReaders, for any processes, pids and operating system.  *)
EXTENDS PidReaders, FiniteSetTheorems, SequenceTheorems, WellFoundedInduction, TLAPS

(* What the helpers of the readers keep. *)
LEMMA ReadType ==
  ASSUME TypeOK, NEW fs, NEW p \in Procs \cup {None},
         state' = [g \in Fields |-> IF g \in fs THEN p ELSE state[g]]
  PROVE  state' \in ProcState
BY DEF TypeOK, ProcState

LEMMA FailsType == TypeOK /\ Fails /\ UNCHANGED reader => TypeOK'
BY DEF TypeOK, Fails, reader, config

LEMMA CollectType ==
  ASSUME TypeOK, state' \in ProcState, Collect, UNCHANGED reader
  PROVE  TypeOK'
<1>1. [pid |-> pid, of |-> state'] \in [pid : Pids, of : ProcState]
  BY DEF TypeOK
<1>2. plist' \in Seq([pid : Pids, of : ProcState])
  <2> DEFINE R == [pid : Pids, of : ProcState]
             r == [pid |-> pid, of |-> state']
  <2>1. plist' = Append(plist, r)
    BY DEF Collect
  <2>2. plist \in Seq(R) /\ r \in R
    BY <1>1 DEF TypeOK
  <2> HIDE DEF R, r
  <2>3. Append(plist, r) \in Seq(R)
    BY <2>2, AppendProperties
  <2> QED BY <2>1, <2>3 DEF R
<1> QED BY <1>2 DEF TypeOK, Collect, reader, config

LEMMA ReadsType ==
  ASSUME TypeOK, NEW fs, NEW p \in Procs \cup {None},
         NEW f \in Fields \cup {"exists"}, Reads(fs, p, f), UNCHANGED reader
  PROVE  TypeOK'
<1>1. state' \in ProcState
  BY ReadType DEF Reads
<1> QED BY <1>1 DEF TypeOK, Reads, reader, config

LEMMA FillReadsType ==
  ASSUME TypeOK, NEW fs, NEW p \in Procs \cup {None}, FillReads(fs, p), UNCHANGED reader
  PROVE  TypeOK'
BY ReadType, CollectType DEF FillReads

LEMMA InfoReadsType ==
  ASSUME TypeOK, NEW fs, NEW p \in Procs \cup {None}, NEW f \in Fields,
         InfoReads(fs, p, f), UNCHANGED reader
  PROVE  TypeOK'
<1>1. CASE skipExtended \/ op = "GetPIDState"
  BY <1>1, ReadType, CollectType DEF InfoReads
<1>2. CASE ~(skipExtended \/ op = "GetPIDState")
  BY <1>2, ReadsType DEF InfoReads
<1> QED BY <1>1, <1>2

LEMMA EntriesInProcs == \A i : Entries(i) \subseteq Procs /\ NextEntry(i) \subseteq Procs
BY DEF Entries, NextEntry, Table

LEMMA WindowsType == TypeOK /\ Windows => TypeOK'
<1> SUFFICES ASSUME TypeOK, Windows PROVE TypeOK'
  OBVIOUS
<1> USE DEF At, Fields
<1>1. CASE getProcName
  BY <1>1, ReadsType, FailsType DEF getProcName
<1>2. CASE getPidStatus
  BY <1>2, InfoReadsType, FailsType DEF getPidStatus
<1>3. CASE getProcCredName
  BY <1>3, ReadsType, FailsType DEF getProcCredName
<1>4. CASE getParentPid
  BY <1>4, ReadsType DEF getParentPid
<1>5. CASE procMem
  BY <1>5, ReadsType, FailsType DEF procMem
<1>6. CASE getProcTimes
  BY <1>6, ReadsType, FailsType DEF getProcTimes
<1>7. CASE getProcArgs
  BY <1>7, FillReadsType, FailsType DEF getProcArgs
<1> QED BY <1>1, <1>2, <1>3, <1>4, <1>5, <1>6, <1>7 DEF Windows

LEMMA OtherReadersType == TypeOK /\ (taskInfo \/ sysctl \/ AIX) => TypeOK'
<1> SUFFICES ASSUME TypeOK, taskInfo \/ sysctl \/ AIX PROVE TypeOK'
  OBVIOUS
<1> USE EntriesInProcs DEF OnAIX, Fields
<1>1. CASE taskInfo
  BY <1>1, InfoReadsType, FailsType DEF taskInfo
<1>2. CASE sysctl
  BY <1>2, FillReadsType, FailsType DEF sysctl
<1>3. CASE getprocs
  BY <1>3, ReadsType, FailsType DEF getprocs
<1>4. CASE procExists
  BY <1>4, InfoReadsType, FailsType DEF procExists
<1>5. CASE getprocsAgain
  BY <1>5, ReadsType, FailsType DEF getprocsAgain
<1>6. CASE getargs
  BY <1>6, ReadsType, FailsType DEF getargs
<1>7. CASE getevars
  BY <1>7, FillReadsType, FailsType DEF getevars
<1> QED BY <1>1, <1>2, <1>3, <1>4, <1>5, <1>6, <1>7 DEF AIX

LEMMA NoStates == <<>> \in Seq([pid : Pids, of : ProcState]) /\ Empty \in ProcState
<1>1. \A R : <<>> \in Seq(R)
  OBVIOUS
<1> QED BY <1>1, Zenon DEF Empty, ProcState

LEMMA TypeInit == Init => TypeOK
<1> SUFFICES ASSUME Init PROVE TypeOK
  OBVIOUS
<1>1. PidOf[Self] \in Pids
  BY ReadersAssumption DEF Pids
<1> QED BY <1>1, NoStates DEF Init, TypeOK

LEMMA CallType == TypeOK /\ Call => TypeOK'
<1> SUFFICES ASSUME TypeOK, Call PROVE TypeOK'
  OBVIOUS
<1>2. {PidOf[p] : p \in Table} \subseteq Pids /\ {p \in Procs : phase[p] = "running"} \subseteq Procs
  BY DEF Table, Pids
<1> USE NoStates, <1>2 DEF TypeOK, Enter, config
<1>3. CASE EnumProcesses
  BY <1>3 DEF EnumProcesses
<1>4. CASE proc_listpidsSize
  <2>1. Cardinality(Table) \in Nat
    BY FS_Subset, FS_CardinalityType, ReadersAssumption DEF Table
  <2>2. room' \in Nat
    <3>1. room' = Cardinality(Table) + Slack
      BY <1>4, Zenon DEF proc_listpidsSize
    <3> HIDE DEF TypeOK, Enter
    <3> QED BY <2>1, <3>1, ReadersAssumption
  <2> QED BY <1>4, <2>2 DEF proc_listpidsSize
<1>5. CASE WalkTable
  BY <1>5 DEF WalkTable
<1>6. ASSUME NEW i \in Pids, GetOne(i) PROVE TypeOK'
  BY <1>6 DEF GetOne, Fields
<1>7. ASSUME NEW i \in Pids, GetPIDState(i) PROVE TypeOK'
  BY <1>7 DEF GetPIDState, Fields
<1> QED BY <1>3, <1>4, <1>5, <1>6, <1>7 DEF Call

(* The kernel changes the process table only. *)
LEMMA TypeOfKernel ==
  ASSUME TypeOK, UNCHANGED <<config, pc, op, lists, pid, state, result, began>>,
         phase' \in [Procs -> {"unborn", "running", "zombie", "gone"}],
         started' \subseteq Pids
  PROVE  TypeOK'
<1>1. /\ os' = os /\ skipExtended' = skipExtended /\ pc' = pc /\ op' = op /\ todo' = todo
      /\ room' = room /\ index' = index /\ pid' = pid /\ state' = state
      /\ plist' = plist /\ result' = result /\ began' = began /\ whole' = whole
  BY Zenon DEF config, lists
<1> QED BY <1>1, Zenon DEF TypeOK

LEMMA TypeStep == TypeOK /\ [Next]_vars => TypeOK'
<1> SUFFICES ASSUME TypeOK, [Next]_vars PROVE TypeOK'
  OBVIOUS
<1>1. ASSUME NEW p \in Procs, Start(p) PROVE TypeOK'
  <2>1. phase' \in [Procs -> {"unborn", "running", "zombie", "gone"}]
        /\ started' \subseteq Pids
    BY <1>1 DEF Start, TypeOK, Pids
  <2> QED BY <1>1, <2>1, TypeOfKernel DEF Start
<1>2. ASSUME NEW p \in Procs, Exit(p) PROVE TypeOK'
  <2>1. phase' \in [Procs -> {"unborn", "running", "zombie", "gone"}]
        /\ started' \subseteq Pids
    BY <1>2 DEF Exit, TypeOK
  <2> QED BY <1>2, <2>1, TypeOfKernel DEF Exit
<1>3. ASSUME NEW p \in Procs, Reap(p) PROVE TypeOK'
  <2>1. phase' \in [Procs -> {"unborn", "running", "zombie", "gone"}]
        /\ started' \subseteq Pids
    BY <1>3 DEF Reap, TypeOK
  <2> QED BY <1>3, <2>1, TypeOfKernel DEF Reap
<1>5. CASE proc_listpids
  BY <1>5 DEF proc_listpids, TypeOK, config, Pids, Table
<1>6. CASE NextListed
  BY NoStates, <1>6 DEF NextListed, TypeOK, config, Fields
<1>7. CASE NextInTable
  <2>1. \A p \in NextEntry(index) : PidOf[p] \in Pids /\ PidOf[p] + 1 \in Nat
    BY EntriesInProcs, ReadersAssumption DEF Pids
  <2> QED BY NoStates, <1>7, <2>1 DEF NextInTable, TypeOK, config, Fields
<1>8. CASE PidExists
  BY <1>8 DEF PidExists, TypeOK, config, lists, Fields
<1>9. CASE Return
  BY <1>9 DEF Return, TypeOK, config, lists
<1>10. CASE UNCHANGED vars
  <2>1. /\ UNCHANGED <<config, pc, op, lists, pid, state, result, began>>
        /\ phase' = phase /\ started' = started
    BY <1>10, Zenon DEF vars, config, lists
  <2> QED BY <2>1, TypeOfKernel DEF TypeOK
<1> QED BY <1>1, <1>2, <1>3, <1>5, <1>6, <1>7, <1>8, <1>9, <1>10,
           CallType, WindowsType, OtherReadersType
        DEF Next, Kernel, Run

(* Every variable has its type. *)
THEOREM TypeCorrect == Spec => []TypeOK
BY TypeInit, TypeStep, PTL DEF Spec

-----------------------------------------------------------------------------
(* One process in a state *)

(* The fields that are known to describe the process with the pid: on AIX  *)
(* an entry is checked only after it was read, by procExists or getargs.   *)
Checked ==
  IF os = "aix" /\ pc = "exists" THEN {}
  ELSE IF os = "aix" /\ pc = "args" THEN Fields \ {"memory", "cpu"}
  ELSE Fields

Filling == pc \in Fields \cup {"exists", "exists?"}

(* While no other process takes the pid: an entry of the table with the    *)
(* pid is what every field describes, those of an entry of a later pid     *)
(* having been read when the table had none.  The fields that were checked *)
(* agree even when the process is gone.                                    *)
StateInv ==
  /\ \A f \in Fields : state[f] # None => \A q \in Entries(pid) : q = state[f]
  /\ Filling => \E p \in Procs : PidOf[p] = pid /\ \A f \in Checked : state[f] \in {None, p}
  /\ pc = "exists" => state["name"] # None

OneInv ==
  /\ \A p, q \in Table : PidOf[p] = PidOf[q] => p = q
  /\ pid \notin started => StateInv
  /\ StateOfOneProcess

LEMMA OneInit == Init => OneInv
<1> SUFFICES ASSUME Init PROVE OneInv
  OBVIOUS
<1>1. \A f \in Fields : state[f] = None
  BY DEF Init, Empty
<1>2. ~Filling
  BY DEF Init, Filling, Fields
<1>3. StateOfOneProcess
  <2>1. plist = <<>>
    BY DEF Init
  <2> QED BY <2>1 DEF StateOfOneProcess
<1>4. StateInv
  BY <1>1, <1>2 DEF Init, StateInv
<1>5. \A p, q \in Table : PidOf[p] = PidOf[q] => p = q
  BY DEF Init
<1> QED BY <1>3, <1>4, <1>5 DEF OneInv

(* A field read from the process with the pid agrees with all the others. *)
LEMMA ReadAgrees ==
  ASSUME TypeOK, OneInv, NEW p \in Entries(pid), NEW fs, pid \notin started,
         state' = [g \in Fields |-> IF g \in fs THEN p ELSE state[g]]
  PROVE  /\ \A f \in Fields : state'[f] \in {None, p}
         /\ \A q \in Entries(pid) : q = p
         /\ p \in Procs /\ PidOf[p] = pid
<1>1. p \in Table /\ PidOf[p] = pid
  BY DEF Entries
<1>2. \A q \in Entries(pid) : q = p
  BY <1>1 DEF OneInv, Entries
<1>3. \A f \in Fields : state[f] \in {None, p}
  BY DEF OneInv, StateInv
<1> QED BY <1>1, <1>2, <1>3 DEF Table

LEMMA SameTable ==
  ASSUME UNCHANGED phase
  PROVE  Table' = Table /\ \A i : Entries(i)' = Entries(i)
BY DEF Table, Entries

LEMMA FailsOne == OneInv /\ Fails /\ UNCHANGED reader => OneInv'
<1> SUFFICES ASSUME OneInv, Fails, UNCHANGED reader PROVE OneInv'
  OBVIOUS
<1>1. UNCHANGED <<phase, pid, started, state, plist>> /\ pc' \in {"next", "returned"}
  BY DEF Fails, reader
<1>2. Table' = Table /\ \A i : Entries(i)' = Entries(i)
  BY <1>1, SameTable
<1> QED BY <1>1, <1>2 DEF OneInv, StateInv, StateOfOneProcess, Described, Filling, Fields

(* pidIter adds one state to the end of the list. *)
LEMMA CollectAppends ==
  ASSUME TypeOK, Collect
  PROVE  /\ DOMAIN plist' = 1..(Len(plist) + 1) /\ DOMAIN plist = 1..Len(plist)
         /\ \A i \in DOMAIN plist : plist'[i] = plist[i]
         /\ plist'[Len(plist) + 1] = [pid |-> pid, of |-> state']
         /\ Len(plist') = Len(plist) + 1 /\ Len(plist) \in Nat
<1> DEFINE R == [pid : Pids, of : ProcState]
           r == [pid |-> pid, of |-> state']
<1>1. plist' = Append(plist, r) /\ plist \in Seq(R)
  BY DEF Collect, TypeOK
<1> HIDE DEF R, r
<1>2. /\ DOMAIN Append(plist, r) = 1..(Len(plist) + 1) /\ DOMAIN plist = 1..Len(plist)
      /\ \A i \in DOMAIN plist : Append(plist, r)[i] = plist[i]
      /\ Append(plist, r)[Len(plist) + 1] = r
      /\ Len(Append(plist, r)) = Len(plist) + 1 /\ Len(plist) \in Nat
  BY <1>1
<1> QED BY <1>1, <1>2 DEF r

(* A state that is returned was read from one process. *)
LEMMA CollectOne ==
  ASSUME TypeOK, OneInv, Collect, UNCHANGED reader,
         pid \notin started =>
           /\ \E p \in Procs : PidOf[p] = pid /\ Described(state') = {p}
           /\ \A f \in Fields : state'[f] # None => \A q \in Entries(pid) : q = state'[f]
  PROVE  OneInv'
<1>1. UNCHANGED <<phase, pid, started>> /\ pc' \in {"next", "returned"}
  BY DEF Collect, reader
<1>2. Table' = Table /\ \A i : Entries(i)' = Entries(i)
  BY <1>1, SameTable
<1>3. pid' \notin started' => StateInv'
  BY <1>1, <1>2 DEF StateInv, Filling, Fields
<1>4. /\ DOMAIN plist' = 1..(Len(plist) + 1) /\ DOMAIN plist = 1..Len(plist)
      /\ \A i \in DOMAIN plist : plist'[i] = plist[i]
      /\ plist'[Len(plist) + 1] = [pid |-> pid, of |-> state']
  BY CollectAppends
<1>5. StateOfOneProcess'
  <2> SUFFICES ASSUME NEW i \in DOMAIN plist', plist'[i].pid \notin started'
               PROVE  \E p \in Procs : PidOf[p] = plist'[i].pid
                                       /\ Described(plist'[i].of) = {p}
    BY DEF StateOfOneProcess, Described
  <2>1. CASE i \in DOMAIN plist
    BY <1>1, <1>4, <2>1 DEF OneInv, StateOfOneProcess
  <2>2. CASE i = Len(plist) + 1
    <3>1. plist'[i].pid = pid /\ plist'[i].of = state'
      BY <1>4, <2>2
    <3>2. pid \notin started
      BY <1>1, <3>1
    <3> QED BY <3>1, <3>2
  <2> QED BY <1>4, <2>1, <2>2
<1> QED BY <1>1, <1>2, <1>3, <1>5 DEF OneInv

LEMMA ReadsOne ==
  ASSUME TypeOK, OneInv, NEW p \in Entries(pid), NEW fs, NEW f \in Fields,
         Reads(fs, p, f), UNCHANGED reader
  PROVE  OneInv'
<1>1. UNCHANGED <<os, phase, pid, started, plist>> /\ pc' = f
  BY DEF Reads, reader, config
<1>2. Table' = Table /\ \A i : Entries(i)' = Entries(i)
  BY <1>1, SameTable
<1>3. ASSUME pid \notin started PROVE StateInv'
  <2>1. /\ \A g \in Fields : state'[g] \in {None, p}
        /\ \A q \in Entries(pid) : q = p
        /\ p \in Procs /\ PidOf[p] = pid
    BY <1>3, ReadAgrees DEF Reads
  <2>2. pc' # "exists" /\ Checked' \subseteq Fields
    BY <1>1 DEF Fields, Checked
  <2> QED BY <1>1, <1>2, <2>1, <2>2 DEF StateInv
<1> QED BY <1>1, <1>2, <1>3 DEF OneInv, StateOfOneProcess, Described

LEMMA FillReadsOne ==
  ASSUME TypeOK, OneInv, NEW p \in Entries(pid), NEW fs, fs \cap Fields # {},
         state' = [g \in Fields |-> IF g \in fs THEN p ELSE state[g]],
         Collect, UNCHANGED reader
  PROVE  OneInv'
<1>1. ASSUME pid \notin started
      PROVE  /\ \E q \in Procs : PidOf[q] = pid /\ Described(state') = {q}
             /\ \A f \in Fields : state'[f] # None => \A q \in Entries(pid) : q = state'[f]
  <2>1. /\ \A g \in Fields : state'[g] \in {None, p}
        /\ \A q \in Entries(pid) : q = p
        /\ p \in Procs /\ PidOf[p] = pid
    BY <1>1, ReadAgrees
  <2>2. PICK g \in Fields : g \in fs
    OBVIOUS
  <2>3. state'[g] = p /\ p # None
    BY <2>1, <2>2, ReadersAssumption
  <2>4. Described(state') = {p}
    BY <2>1, <2>3 DEF Described
  <2> QED BY <2>1, <2>4
<1> QED BY <1>1, CollectOne

LEMMA InfoReadsOne ==
  ASSUME TypeOK, OneInv, NEW p \in Entries(pid), NEW fs, fs \cap Fields # {},
         NEW f \in Fields, InfoReads(fs, p, f), UNCHANGED reader
  PROVE  OneInv'
<1>1. CASE skipExtended \/ op = "GetPIDState"
  BY <1>1, FillReadsOne DEF InfoReads
<1>2. CASE ~(skipExtended \/ op = "GetPIDState")
  BY <1>2, ReadsOne DEF InfoReads
<1> QED BY <1>1, <1>2

LEMMA WindowsOne == TypeOK /\ OneInv /\ Windows => OneInv'
<1> SUFFICES ASSUME TypeOK, OneInv, Windows PROVE OneInv'
  OBVIOUS
<1> USE FailsOne DEF At, Opens
<1>0. {"name", "state", "username", "ppid", "memory", "cpu", "args"} \subseteq Fields
  BY DEF Fields
<1>1. CASE getProcName
  BY <1>0, <1>1, ReadsOne DEF getProcName
<1>2. CASE getPidStatus
  BY <1>0, <1>2, InfoReadsOne DEF getPidStatus
<1>3. CASE getProcCredName
  BY <1>0, <1>3, ReadsOne DEF getProcCredName
<1>4. CASE getParentPid
  <2>1. CASE \E p \in Procs : Opens(p) /\ Reads({"ppid"}, p, "memory")
    BY <1>0, <1>4, <2>1, ReadsOne DEF getParentPid
  <2>2. CASE Reads({}, None, "memory")
    <3>1. /\ UNCHANGED <<os, phase, pid, started, plist>> /\ pc' = "memory" /\ pc = "ppid"
          /\ os = "windows"
      BY <1>4, <2>2 DEF getParentPid, Reads, reader, config
    <3>2. \A f \in Fields : state'[f] = state[f]
      BY <2>2 DEF Reads
    <3>3. Table' = Table /\ \A i : Entries(i)' = Entries(i)
      BY <3>1, SameTable
    <3>4. Filling /\ Checked = Fields /\ Checked' = Fields
      BY <3>1 DEF Filling, Checked, Fields
    <3> QED BY <3>1, <3>2, <3>3, <3>4 DEF OneInv, StateInv, StateOfOneProcess, Described
  <2> QED BY <1>4, <2>1, <2>2 DEF getParentPid
<1>5. CASE procMem
  BY <1>0, <1>5, ReadsOne DEF procMem
<1>6. CASE getProcTimes
  BY <1>0, <1>6, ReadsOne DEF getProcTimes
<1>7. CASE getProcArgs
  BY <1>0, <1>7, FillReadsOne DEF getProcArgs, FillReads
<1> QED BY <1>1, <1>2, <1>3, <1>4, <1>5, <1>6, <1>7 DEF Windows

(* An entry of AIX: of the pid, or of a later one when there is none. *)
LEMMA EntryAgrees ==
  ASSUME OneInv, NEW p \in NextEntry(pid)
  PROVE  p \in Procs /\ \A q \in Entries(pid) : q = p
<1> SUFFICES ASSUME NEW q \in Entries(pid) PROVE q = p
  BY EntriesInProcs
<1>1. p \in Table /\ q \in Table /\ PidOf[q] = pid /\ PidOf[p] >= pid
  BY DEF NextEntry, Entries
<1>2. PidOf[p] \in Nat /\ PidOf[q] \in Nat
  BY <1>1, ReadersAssumption DEF Table
<1>3. PidOf[p] <= PidOf[q]
  BY <1>1, <1>2 DEF NextEntry
<1> QED BY <1>1, <1>2, <1>3 DEF OneInv

LEMMA OtherReadersOne == TypeOK /\ OneInv /\ (taskInfo \/ sysctl \/ AIX) => OneInv'
<1> SUFFICES ASSUME TypeOK, OneInv, taskInfo \/ sysctl \/ AIX PROVE OneInv'
  OBVIOUS
<1> USE FailsOne DEF OnAIX
<1>0. {"name", "state", "username", "ppid", "memory", "cpu", "args", "env"} \subseteq Fields
  BY DEF Fields
<1>1. CASE taskInfo
  BY <1>0, <1>1, InfoReadsOne DEF taskInfo
<1>2. CASE sysctl
  BY <1>0, <1>2, FillReadsOne DEF sysctl, FillReads
<1>3. CASE getprocs
  <2>1. CASE \E p \in NextEntry(pid) : Reads({"name", "ppid", "state", "username"}, p, "exists")
    <3>1. PICK p \in NextEntry(pid) : Reads({"name", "ppid", "state", "username"}, p, "exists")
      BY <2>1
    <3>2. /\ UNCHANGED <<os, phase, pid, started, plist>>
          /\ pc = "name" /\ pc' = "exists" /\ os = "aix"
      BY <1>3, <3>1 DEF getprocs, Reads, reader, config
    <3>3. Table' = Table /\ \A i : Entries(i)' = Entries(i)
      BY <3>2, SameTable
    <3>4. p \in Procs /\ \A q \in Entries(pid) : q = p
      BY EntryAgrees
    <3>5. state'["name"] = p /\ \A f \in Fields : state'[f] \in {p, state[f]}
      BY <1>0, <3>1 DEF Reads
    <3>6. Filling /\ Checked' = {}
      BY <3>2 DEF Filling, Fields, Checked
    <3> QED BY <3>2, <3>3, <3>4, <3>5, <3>6, ReadersAssumption
            DEF OneInv, StateInv, StateOfOneProcess, Described
  <2> QED BY <1>3, <2>1 DEF getprocs
<1>4. CASE procExists
  <2>1. CASE Entries(pid) # {} /\ InfoReads({}, None, "memory")
    <3>1. /\ UNCHANGED <<os, phase, pid, started>>
          /\ pc = "exists" /\ os = "aix"
          /\ \A f \in Fields : state'[f] = state[f]
      BY <1>4, <2>1 DEF procExists, InfoReads, Reads, reader, config
    <3>2. Table' = Table /\ \A i : Entries(i)' = Entries(i)
      BY <3>1, SameTable
    <3>3. PICK p \in Entries(pid) : TRUE
      BY <2>1
    <3>4. p \in Procs /\ PidOf[p] = pid
      BY EntriesInProcs DEF Entries
    <3>5. ASSUME pid \notin started
          PROVE  /\ \A f \in Fields : state[f] \in {None, p}
                 /\ state["name"] = p
                 /\ \A f \in Fields : state[f] # None => \A q \in Entries(pid) : q = state[f]
      BY <1>0, <3>1, <3>3, <3>5 DEF OneInv, StateInv
    <3>6. CASE skipExtended \/ op = "GetPIDState"
      <4>1. ASSUME pid \notin started PROVE Described(state') = {p}
        BY <1>0, <3>1, <3>3, <3>4, <3>5, <4>1, ReadersAssumption DEF Described
      <4>2. Collect
        BY <2>1, <3>6 DEF InfoReads
      <4> QED BY <1>4, <3>1, <3>4, <3>5, <4>1, <4>2, CollectOne DEF procExists
    <3>7. CASE ~(skipExtended \/ op = "GetPIDState")
      <4>1. UNCHANGED plist /\ pc' = "memory"
        BY <2>1, <3>7 DEF InfoReads, Reads
      <4> QED BY <3>1, <3>2, <3>4, <3>5, <4>1
              DEF OneInv, StateInv, StateOfOneProcess, Described, Checked
    <3> QED BY <3>6, <3>7
  <2> QED BY <1>4, <2>1 DEF procExists
<1>5. CASE getprocsAgain
  <2>1. CASE \E p \in NextEntry(pid) : Reads({"memory", "cpu"}, p, "args")
    <3>1. PICK p \in NextEntry(pid) : Reads({"memory", "cpu"}, p, "args")
      BY <2>1
    <3>2. /\ UNCHANGED <<os, phase, pid, started, plist>>
          /\ pc = "memory" /\ pc' = "args" /\ os = "aix"
      BY <1>5, <3>1 DEF getprocsAgain, Reads, reader, config
    <3>3. Table' = Table /\ \A i : Entries(i)' = Entries(i)
      BY <3>2, SameTable
    <3>4. \A q \in Entries(pid) : q = p
      BY EntryAgrees
    <3>5. /\ \A f \in Fields : state'[f] \in {p, state[f]}
          /\ \A f \in Fields \ {"memory", "cpu"} : state'[f] = state[f]
      BY <3>1 DEF Reads
    <3>6. Filling /\ Checked = Fields /\ Checked' = Fields \ {"memory", "cpu"}
      BY <3>2 DEF Filling, Fields, Checked
    <3> QED BY <3>2, <3>3, <3>4, <3>5, <3>6
            DEF OneInv, StateInv, StateOfOneProcess, Described
  <2> QED BY <1>5, <2>1 DEF getprocsAgain
<1>6. CASE getargs
  BY <1>0, <1>6, ReadsOne DEF getargs, PiPid
<1>7. CASE getevars
  BY <1>0, <1>7, FillReadsOne DEF getevars, FillReads, PiPid
<1> QED BY <1>1, <1>2, <1>3, <1>4, <1>5, <1>6, <1>7 DEF AIX

(* A state that is filled anew describes nothing yet. *)
LEMMA EmptyOne ==
  ASSUME state' = Empty, pid' \in Pids, pc' # "exists"
  PROVE  StateInv'
<1>1. \A f \in Fields : state'[f] = None
  BY DEF Empty
<1>2. \E p \in Procs : PidOf[p] = pid'
  BY DEF Pids
<1>3. Checked' \subseteq Fields
  BY DEF Checked
<1> QED BY <1>1, <1>2, <1>3 DEF StateInv

LEMMA CallOne == TypeOK /\ OneInv /\ Call => OneInv'
<1> SUFFICES ASSUME TypeOK, OneInv, Call PROVE OneInv'
  OBVIOUS
<1>1. /\ UNCHANGED phase /\ plist' = <<>> /\ state' = Empty
      /\ pc' # "exists" /\ pid' \in Pids
  BY DEF Call, EnumProcesses, proc_listpidsSize, WalkTable, GetOne, GetPIDState,
         Enter, config, TypeOK
<1>2. Table' = Table
  BY <1>1, SameTable
<1>3. StateOfOneProcess'
  BY <1>1 DEF StateOfOneProcess
<1> QED BY <1>1, <1>2, <1>3, EmptyOne DEF OneInv

LEMMA OneStep == TypeOK /\ OneInv /\ [Next]_vars => OneInv'
<1> SUFFICES ASSUME TypeOK, OneInv, [Next]_vars PROVE OneInv'
  OBVIOUS
<1> USE DEF OneInv, StateInv, StateOfOneProcess, Described
<1>1. ASSUME NEW p \in Procs, Start(p) PROVE OneInv'
  <2>1. /\ Table' = Table \cup {p} /\ Entries(PidOf[p]) = {}
        /\ started' = started \cup {PidOf[p]}
        /\ UNCHANGED <<os, pc, pid, state, plist>>
    BY <1>1 DEF Start, Table, TypeOK, config, lists
  <2>2. \A q, r \in Table' : PidOf[q] = PidOf[r] => q = r
    BY <2>1 DEF Entries
  <2>3. \A i : i # PidOf[p] => Entries(i)' = Entries(i)
    BY <2>1 DEF Entries
  <2>4. StateOfOneProcess'
    BY <2>1
  <2>5. pid' \notin started' => StateInv'
    BY <2>1, <2>3 DEF Filling, Checked
  <2> QED BY <2>2, <2>4, <2>5
<1>2. ASSUME NEW p \in Procs, Exit(p) \/ Reap(p) PROVE OneInv'
  <2>1. Table' \subseteq Table /\ UNCHANGED <<os, pc, pid, state, plist, started>>
    BY <1>2 DEF Exit, Reap, Table, TypeOK, config, lists
  <2>2. \A i : Entries(i)' \subseteq Entries(i)
    BY <2>1 DEF Entries
  <2> QED BY <2>1, <2>2 DEF Filling, Checked
<1>3. CASE proc_listpids \/ Return
  <2>1. UNCHANGED <<os, phase, pid, state, plist, started>> /\ pc' \in {"next", "idle"}
    BY <1>3 DEF proc_listpids, Return, config, lists
  <2>2. Table' = Table /\ (\A i : Entries(i)' = Entries(i)) /\ ~Filling'
    BY <2>1, SameTable DEF Filling, Fields
  <2> QED BY <2>1, <2>2
<1>4. CASE NextListed \/ NextInTable
  <2>1. /\ UNCHANGED <<phase, plist, started>> /\ state' = Empty /\ pc' # "exists"
    BY <1>4 DEF NextListed, NextInTable
  <2>2. pid' \in Pids
    BY <1>4, EntriesInProcs, ReadersAssumption DEF NextListed, NextInTable, TypeOK, Pids
  <2>3. Table' = Table
    BY <2>1, SameTable
  <2> QED BY <2>1, <2>2, <2>3, EmptyOne
<1>5. CASE PidExists
  <2>1. /\ UNCHANGED <<os, phase, pid, state, plist, started>>
        /\ pc = "exists?" /\ pc' \in {"returned", "name"}
    BY <1>5 DEF PidExists, config, lists
  <2>2. Table' = Table /\ (\A i : Entries(i)' = Entries(i))
    BY <2>1, SameTable
  <2>3. Filling /\ Checked = Fields /\ Checked' = Fields
    BY <2>1 DEF Filling, Checked, Fields
  <2> QED BY <2>1, <2>2, <2>3
<1>6. CASE UNCHANGED vars
  BY <1>6 DEF vars, Table, Entries, Filling, Checked
<1> QED BY <1>1, <1>2, <1>3, <1>4, <1>5, <1>6, CallOne, WindowsOne, OtherReadersOne
        DEF Next, Kernel, Run

(* Whatever starts, ends and is reaped meanwhile, a returned state         *)
(* describes the one process with its pid, unless the pid was taken during *)
(* the call.                                                               *)
THEOREM OneProcessCorrect == Spec => []StateOfOneProcess
<1>1. OneInv => StateOfOneProcess
  BY DEF OneInv
<1> QED BY <1>1, TypeInit, TypeStep, OneInit, OneStep, PTL DEF Spec
-----------------------------------------------------------------------------
(* The listing *)

(* What FillPidMetrics reads after GetInfoForPid, and why a read may fail: *)
(* the process has ended, or may not be asked for what is read.            *)
Details == {"username", "ppid", "memory", "cpu", "args", "env"}
Unreadable(p) ==
  phase[p] = "zombie" \/ PidOf[p] = 0
  \/ (p \in Protected /\ (pc \in Details \/ os = "darwin"))

ReadFails ==
  /\ Fails
  /\ \/ \A p \in Entries(pid) : Unreadable(p)
     \/ os = "aix" /\ NextEntry(pid) = {}

ReadGoesOn ==
  /\ UNCHANGED <<plist, result>>
  /\ pc' \in Fields \cup {"exists"}
  /\ pc' \in Details => pc \in Details \/ ~(skipExtended \/ op = "GetPIDState")

Readers == Windows \/ taskInfo \/ sysctl \/ AIX

(* A step of a reader fails for a reason, ends the state, or reads on. *)
LEMMA ReaderSteps ==
  Readers => /\ UNCHANGED reader /\ pc \in Fields \cup {"exists"}
             /\ ReadFails \/ Collect \/ ReadGoesOn
<1> SUFFICES ASSUME Readers
             PROVE  /\ UNCHANGED reader /\ pc \in Fields \cup {"exists"}
                    /\ ReadFails \/ Collect \/ ReadGoesOn
  OBVIOUS
<1>0. UNCHANGED reader /\ pc \in Fields \cup {"exists"}
  BY DEF Readers, Windows, getProcName, getPidStatus, getProcCredName, getParentPid, procMem,
         getProcTimes, getProcArgs, taskInfo, sysctl, AIX, getprocs, procExists,
         getprocsAgain, getargs, getevars, At, OnAIX, Fields
<1> USE <1>0 DEF ReadGoesOn, Reads, InfoReads, FillReads, Details, Fields
<1>1. CASE getProcName
  BY <1>1 DEF getProcName, Missing, ReadFails, Unreadable
<1>2. CASE getPidStatus
  BY <1>2 DEF getPidStatus, Missing, ReadFails, Unreadable
<1>3. CASE getProcCredName
  BY <1>3 DEF getProcCredName, At, Denied, ReadFails, Unreadable
<1>4. CASE getParentPid
  BY <1>4 DEF getParentPid, At
<1>5. CASE procMem
  BY <1>5 DEF procMem, At, Denied, ReadFails, Unreadable
<1>6. CASE getProcTimes
  BY <1>6 DEF getProcTimes, At, Missing, ReadFails, Unreadable
<1>7. CASE getProcArgs
  BY <1>7 DEF getProcArgs, At, Denied, ReadFails, Unreadable
<1>8. CASE taskInfo
  BY <1>8 DEF taskInfo, Refused, ReadFails, Unreadable
<1>9. CASE sysctl
  BY <1>9 DEF sysctl, Refused, ReadFails, Unreadable
<1>10. CASE getprocs
  BY <1>10 DEF getprocs, OnAIX, ReadFails
<1>11. CASE procExists
  BY <1>11 DEF procExists, OnAIX, ReadFails
<1>12. CASE getprocsAgain
  BY <1>12 DEF getprocsAgain, OnAIX, ReadFails
<1>13. CASE getargs
  BY <1>13 DEF getargs, OnAIX, Refused, PiPid, ReadFails, Unreadable
<1>14. CASE getevars
  BY <1>14 DEF getevars, OnAIX, Refused, PiPid, ReadFails, Unreadable
<1> QED BY <1>0, <1>1, <1>2, <1>3, <1>4, <1>5, <1>6, <1>7, <1>8, <1>9, <1>10, <1>11,
           <1>12, <1>13, <1>14 DEF Readers, Windows, AIX

(* Where a listing is.  Windows and macOS: a pid is in todo, being filled  *)
(* or listed.  AIX: the pids come in order, and index is past them all;    *)
(* once index is -1 the last pid is filled again.                          *)
AtLast(i, j) == i = j - 1 /\ j = Len(plist)

OnceInv ==
  /\ pc \in {"list", "next"} => op = "FetchPids"
  /\ pc = "list" => plist = <<>>
  /\ op # "FetchPids" => Len(plist) <= 1 /\ (Filling => plist = <<>>)
  /\ op = "FetchPids" /\ os # "aix" =>
       /\ \A i, j \in DOMAIN plist : i < j => plist[i].pid # plist[j].pid
       /\ \A i \in DOMAIN plist : plist[i].pid \notin todo
       /\ Filling => pid \notin todo /\ \A i \in DOMAIN plist : plist[i].pid # pid
  /\ op = "FetchPids" /\ os = "aix" =>
       /\ \A i \in DOMAIN plist : plist[i].pid <= pid
       /\ index >= 0 => \A i \in DOMAIN plist : plist[i].pid < index
       /\ index >= 0 /\ Filling =>
            pid < index /\ \A i \in DOMAIN plist : plist[i].pid < pid
       /\ \A i, j \in DOMAIN plist : i < j =>
            plist[i].pid < plist[j].pid \/ (index = -1 /\ ~Filling /\ AtLast(i, j))

LEMMA PidsAreNumbers ==
  ASSUME TypeOK
  PROVE  /\ DOMAIN plist = 1..Len(plist) /\ Len(plist) \in Nat
         /\ \A i \in DOMAIN plist : plist[i] \in [pid : Pids, of : ProcState]
         /\ \A i \in DOMAIN plist : plist[i].pid \in Nat
         /\ pid \in Nat
         /\ Pids \subseteq Nat
<1>1. Pids \subseteq Nat
  BY ReadersAssumption DEF Pids
<1>2. /\ DOMAIN plist = 1..Len(plist) /\ Len(plist) \in Nat
      /\ \A i \in DOMAIN plist : plist[i] \in [pid : Pids, of : ProcState]
  <2> DEFINE R == [pid : Pids, of : ProcState]
  <2>1. plist \in Seq(R)
    BY DEF TypeOK
  <2> HIDE DEF R
  <2>2. DOMAIN plist = 1..Len(plist) /\ Len(plist) \in Nat /\ \A i \in DOMAIN plist : plist[i] \in R
    BY <2>1
  <2> QED BY <2>2 DEF R
<1>3. \A i \in DOMAIN plist : plist[i].pid \in Pids
  BY <1>2
<1> QED BY <1>1, <1>2, <1>3 DEF TypeOK

LEMMA OnceFrame ==
  ASSUME OnceInv, UNCHANGED <<os, pc, op, todo, index, pid, plist>>
  PROVE  OnceInv'
BY DEF OnceInv, AtLast, Filling

LEMMA NoList == Len(<<>>) = 0 /\ DOMAIN <<>> = {}
OBVIOUS

LEMMA OnceInit == Init => OnceInv
<1> SUFFICES ASSUME Init PROVE OnceInv
  OBVIOUS
<1>1. plist = <<>> /\ Len(plist) = 0 /\ DOMAIN plist = {}
  BY NoList DEF Init
<1>2. pc = "idle" /\ op = "FetchPids" /\ ~Filling
  BY DEF Init, Filling, Fields
<1> QED BY <1>1, <1>2 DEF OnceInv

LEMMA OnceCall == TypeOK /\ OnceInv /\ Call => OnceInv'
<1> SUFFICES ASSUME TypeOK, OnceInv, Call PROVE OnceInv'
  OBVIOUS
<1>1. plist' = <<>> /\ Len(plist') = 0 /\ DOMAIN plist' = {}
  BY NoList DEF Call, EnumProcesses, proc_listpidsSize, WalkTable, GetOne, GetPIDState, Enter
<1>2. CASE EnumProcesses \/ proc_listpidsSize \/ WalkTable
  <2>1. op' = "FetchPids" /\ pc' \in {"next", "list"}
    BY <1>2 DEF EnumProcesses, proc_listpidsSize, WalkTable, Enter
  <2>2. ~Filling'
    BY <2>1 DEF Filling, Fields
  <2> QED BY <1>1, <2>1, <2>2 DEF OnceInv
<1>3. ASSUME NEW i \in Pids, GetOne(i) \/ GetPIDState(i) PROVE OnceInv'
  <2>1. op' \in {"GetOne", "GetPIDState"} /\ pc' \in {"name", "exists?"}
    BY <1>3 DEF GetOne, GetPIDState, Enter
  <2> QED BY <1>1, <2>1 DEF OnceInv
<1> QED BY <1>2, <1>3 DEF Call

LEMMA OnceNext == TypeOK /\ OnceInv /\ (NextListed \/ NextInTable) => OnceInv'
<1> SUFFICES ASSUME TypeOK, OnceInv, NextListed \/ NextInTable PROVE OnceInv'
  OBVIOUS
<1>0. /\ UNCHANGED <<os, op, plist>> /\ pc = "next" /\ pc' \in {"name", "returned"}
      /\ op = "FetchPids" /\ ~Filling
  BY DEF NextListed, NextInTable, config, OnceInv, Filling, Fields
<1> USE <1>0, PidsAreNumbers
<1>1. CASE NextListed
  <2>1. CASE pc' = "name"
    <3>1. os # "aix" /\ pid' \in todo /\ todo' = todo \ {pid'}
      BY <1>1, <2>1 DEF NextListed
    <3> QED BY <2>1, <3>1 DEF OnceInv
  <2>2. CASE pc' = "returned"
    <3>1. os # "aix" /\ UNCHANGED todo /\ ~Filling'
      BY <1>1, <2>2 DEF NextListed, Filling, Fields
    <3> QED BY <2>2, <3>1 DEF OnceInv
  <2> QED BY <2>1, <2>2
<1>2. CASE NextInTable
  <2>1. ASSUME NEW p \in NextEntry(index), index >= 0, pid' = PidOf[p], index' = PidOf[p] + 1
        PROVE  OnceInv'
    <3>1. PidOf[p] >= index /\ PidOf[p] \in Nat /\ os = "aix"
      BY <1>2, <2>1, EntriesInProcs, ReadersAssumption DEF NextEntry, NextInTable
    <3>2. index \in Nat
      <4>1. index \in Nat \cup {-1}
        BY DEF TypeOK
      <4> QED BY <2>1, <4>1
    <3>3. \A i \in DOMAIN plist : plist[i].pid < PidOf[p]
      BY <2>1, <3>1, <3>2 DEF OnceInv
    <3>4. \A i, j \in DOMAIN plist : i < j => plist[i].pid < plist[j].pid
      BY <2>1, <3>1 DEF OnceInv
    <3> QED BY <2>1, <3>1, <3>3, <3>4 DEF OnceInv
  <2>2. CASE index' = -1 /\ pc' = "name" /\ index >= 0 /\ UNCHANGED pid
    <3>1. \A i, j \in DOMAIN plist : i < j => plist[i].pid < plist[j].pid
      BY <1>2, <2>2 DEF OnceInv, NextInTable
    <3> QED BY <1>2, <2>2, <3>1 DEF OnceInv, NextInTable
  <2>3. CASE UNCHANGED <<pid, index>> /\ index = -1 /\ pc' = "returned"
    <3>1. ~Filling'
      BY <2>3 DEF Filling, Fields
    <3>2. \A i, j \in DOMAIN plist : AtLast(i, j)' <=> AtLast(i, j)
      BY DEF AtLast
    <3> QED BY <1>2, <2>3, <3>1, <3>2 DEF OnceInv, NextInTable
  <2> QED BY <1>2, <2>1, <2>2, <2>3 DEF NextInTable
<1> QED BY <1>1, <1>2

(* Collect at the end of a fill. *)
LEMMA OnceCollect ==
  ASSUME TypeOK, OnceInv, Collect, UNCHANGED reader, Filling
  PROVE  OnceInv'
<1>0. /\ UNCHANGED <<os, op, todo, index, pid>>
      /\ pc' = IF op = "FetchPids" THEN "next" ELSE "returned"
  BY DEF Collect, reader, config
<1>1. ~Filling'
  BY <1>0 DEF Filling, Fields
<1>2. /\ DOMAIN plist' = 1..(Len(plist) + 1) /\ DOMAIN plist = 1..Len(plist)
      /\ \A i \in DOMAIN plist : plist'[i].pid = plist[i].pid
      /\ plist'[Len(plist) + 1].pid = pid
      /\ Len(plist') = Len(plist) + 1 /\ Len(plist) \in Nat
  BY CollectAppends
<1> DEFINE n == Len(plist) + 1
<1>3. \A i \in DOMAIN plist' : i \in DOMAIN plist \/ i = n
  BY <1>2
<1>4. \A i, j \in DOMAIN plist' :
        i < j => i \in DOMAIN plist /\ (j \in DOMAIN plist \/ j = n)
  BY <1>2
<1> USE PidsAreNumbers
<1>5. CASE op # "FetchPids"
  <2>1. plist = <<>> /\ Len(plist) = 0
    BY <1>5 DEF OnceInv
  <2> QED BY <1>0, <1>1, <1>2, <1>5, <2>1 DEF OnceInv
<1>6. CASE op = "FetchPids" /\ os # "aix"
  <2>1. \A i, j \in DOMAIN plist' : i < j => plist'[i].pid # plist'[j].pid
    BY <1>2, <1>4, <1>6 DEF OnceInv
  <2>2. \A i \in DOMAIN plist' : plist'[i].pid \notin todo'
    BY <1>0, <1>2, <1>3, <1>6 DEF OnceInv
  <2> QED BY <1>0, <1>1, <1>6, <2>1, <2>2 DEF OnceInv
<1>7. CASE op = "FetchPids" /\ os = "aix"
  <2>1. \A i \in DOMAIN plist' : plist'[i].pid <= pid'
    BY <1>0, <1>2, <1>3, <1>7 DEF OnceInv
  <2>2. index >= 0 => \A i \in DOMAIN plist' : plist'[i].pid < index'
    BY <1>0, <1>2, <1>3, <1>7 DEF OnceInv
  <2>3. ASSUME NEW i \in DOMAIN plist', NEW j \in DOMAIN plist', i < j
        PROVE  plist'[i].pid < plist'[j].pid \/ (index = -1 /\ AtLast(i, j)')
    <3>1. CASE j \in DOMAIN plist
      BY <1>2, <1>4, <1>7, <2>3, <3>1 DEF OnceInv
    <3>2. CASE j = n /\ index >= 0
      BY <1>2, <1>4, <1>7, <2>3, <3>2 DEF OnceInv
    <3>3. CASE j = n /\ index = -1 /\ i = Len(plist)
      BY <1>2, <3>3 DEF AtLast
    <3>4. CASE j = n /\ index = -1 /\ i # Len(plist)
      <4>1. i \in DOMAIN plist /\ Len(plist) \in DOMAIN plist /\ i < Len(plist)
        BY <1>2, <1>4, <2>3, <3>4
      <4>2. plist[i].pid < plist[Len(plist)].pid /\ plist[Len(plist)].pid <= pid
        BY <1>7, <4>1 DEF OnceInv
      <4>3. plist'[i].pid = plist[i].pid /\ plist'[j].pid = pid
        BY <1>2, <3>4, <4>1
      <4>4. plist[i].pid \in Nat /\ plist[Len(plist)].pid \in Nat /\ pid \in Nat
        BY <4>1
      <4>5. plist[i].pid < pid
        BY <4>2, <4>4
      <4> QED BY <4>3, <4>5
    <3>5. index >= 0 \/ index = -1
      <4>1. index \in Nat \cup {-1}
        BY DEF TypeOK
      <4> QED BY <4>1
    <3> QED BY <1>4, <2>3, <3>1, <3>2, <3>3, <3>4, <3>5
  <2> QED BY <1>0, <1>1, <1>7, <2>1, <2>2, <2>3 DEF OnceInv
<1> QED BY <1>5, <1>6, <1>7

LEMMA OnceStep == TypeOK /\ OnceInv /\ [Next]_vars => OnceInv'
<1> SUFFICES ASSUME TypeOK, OnceInv, [Next]_vars PROVE OnceInv'
  OBVIOUS
<1>1. ASSUME NEW p \in Procs, Start(p) \/ Exit(p) \/ Reap(p) PROVE OnceInv'
  BY <1>1, OnceFrame DEF Start, Exit, Reap, config, lists
<1>2. CASE Readers
  <2>1. UNCHANGED reader /\ pc \in Fields \cup {"exists"} /\ Filling
    BY <1>2, ReaderSteps DEF Filling
  <2>2. UNCHANGED <<os, op, todo, index, pid>>
    BY <2>1 DEF reader, config
  <2>3. CASE Fails
    <3>1. UNCHANGED plist /\ pc' = (IF op = "FetchPids" THEN "next" ELSE "returned")
      BY <2>3 DEF Fails
    <3>2. ~Filling'
      BY <3>1 DEF Filling, Fields
    <3> QED BY <2>1, <2>2, <3>1, <3>2, PidsAreNumbers DEF OnceInv
  <2>4. CASE Collect
    BY <2>1, <2>4, OnceCollect
  <2>5. CASE ReadGoesOn
    <3>1. UNCHANGED plist /\ Filling' /\ pc' \notin {"list", "next"}
      BY <2>5 DEF ReadGoesOn, Filling, Fields
    <3> QED BY <2>1, <2>2, <3>1 DEF OnceInv
  <2> QED BY <1>2, <2>3, <2>4, <2>5, ReaderSteps DEF ReadFails
<1>3. CASE proc_listpids
  <2>1. plist' = <<>> /\ Len(plist') = 0 /\ DOMAIN plist' = {} /\ op' = "FetchPids" /\ pc' = "next"
    BY <1>3 DEF proc_listpids, OnceInv
  <2>2. ~Filling'
    BY <2>1 DEF Filling, Fields
  <2> QED BY <2>1, <2>2 DEF OnceInv
<1>4. CASE PidExists \/ Return
  <2>1. UNCHANGED <<os, op, todo, index, pid, plist>> /\ pc' \in {"name", "returned", "idle"}
        /\ (Filling' => Filling) /\ (PidExists => Filling) /\ (Return => ~Filling /\ ~Filling')
    BY <1>4 DEF PidExists, Return, config, lists, Filling, Fields
  <2>2. CASE Filling => Filling'
    BY <2>1, <2>2 DEF OnceInv, AtLast
  <2>3. CASE Filling /\ ~Filling'
    BY <2>1, <2>3, PidsAreNumbers DEF OnceInv
  <2> QED BY <2>2, <2>3
<1>5. CASE UNCHANGED vars
  BY <1>5, OnceFrame DEF vars
<1> QED BY <1>1, <1>2, <1>3, <1>4, <1>5, OnceCall, OnceNext DEF Next, Kernel, Run, Readers

(* FetchPids lists a pid once, whatever starts and exits while it lists;   *)
(* AIX may list the last one twice, at the end of the list.                *)
THEOREM ListedOnceCorrect == Spec => []ListedOnce
<1>1. TypeOK /\ OnceInv => ListedOnce
  <2> SUFFICES ASSUME TypeOK, OnceInv, NEW i \in DOMAIN plist, NEW j \in DOMAIN plist,
                      i < j, plist[i].pid = plist[j].pid
               PROVE  os = "aix" /\ index = -1 /\ j = Len(plist) /\ i = j - 1
    BY DEF ListedOnce
  <2>1. op = "FetchPids"
    BY PidsAreNumbers DEF OnceInv
  <2> QED BY <2>1, PidsAreNumbers DEF OnceInv, AtLast
<1> QED BY <1>1, TypeInit, TypeStep, OnceInit, OnceStep, PTL DEF Spec

-----------------------------------------------------------------------------
(* The fields of a state *)

Holds(S) == \A f \in Fields : state[f] # None <=> f \in S

(* Why getParentPid failed and later queries do: no process has the pid,   *)
(* or one that took it meanwhile.                                          *)
Ended ==
  pid \in started \/ \A p \in Entries(pid) : phase[p] = "zombie" \/ PidOf[p] = 0
HoldsButPpid(S) == Holds(S \cup {"ppid"}) \/ (Holds(S) /\ Ended)

(* What has been read when a field is read next. *)
SoFar ==
  /\ pc \in {"name", "exists?"} => Holds({})
  /\ os = "windows" =>
       /\ pc \notin {"env", "exists"}
       /\ pc = "state" => Holds({"name"})
       /\ pc = "username" => Holds({"name", "state"})
       /\ pc = "ppid" => Holds({"name", "state", "username"})
       /\ pc = "memory" => HoldsButPpid({"name", "state", "username"})
       /\ pc = "cpu" => HoldsButPpid({"name", "state", "username", "memory"})
       /\ pc = "args" => HoldsButPpid({"name", "state", "username", "memory", "cpu"})
  /\ os = "darwin" =>
       /\ pc \notin (Fields \ {"name", "args"}) \cup {"exists"}
       /\ pc = "args" => Holds(Fields \ {"args", "env"})
  /\ os = "aix" =>
       /\ pc \notin {"state", "username", "ppid", "cpu"}
       /\ pc \in {"exists", "memory"} => Holds({"name", "state", "username", "ppid"})
       /\ pc = "args" => Holds(Fields \ {"args", "env"})
       /\ pc = "env" => Holds(Fields \ {"env"})

Complete(s, i) ==
  s["args"] # None =>
    \/ \A f \in Fields : s[f] = None => f = "env" /\ os = "windows"
    \/ /\ os = "windows" /\ \A f \in Fields : s[f] = None <=> f \in {"env", "ppid"}
       /\ i \in started \/ phase[s["args"]] \in {"zombie", "gone"}

CompleteInv ==
  /\ SoFar
  /\ \A i \in DOMAIN plist : Complete(plist[i].of, plist[i].pid)

(* Fields read from a process are there from then on. *)
LEMMA HoldsMore ==
  ASSUME NEW fs, NEW p \in Procs,
         state' = [g \in Fields |-> IF g \in fs THEN p ELSE state[g]]
  PROVE  \A f \in Fields : state'[f] # None <=> f \in fs \/ state[f] # None
BY ReadersAssumption

LEMMA CompleteCollect ==
  ASSUME TypeOK, CompleteInv, Collect, UNCHANGED reader, Complete(state, pid)'
  PROVE  CompleteInv'
<1>1. UNCHANGED <<os, phase, pid, started>> /\ pc' \in {"next", "returned"}
  BY DEF Collect, reader, config
<1>2. SoFar'
  BY <1>1 DEF SoFar, Fields
<1>3. /\ DOMAIN plist' = 1..(Len(plist) + 1) /\ DOMAIN plist = 1..Len(plist)
      /\ \A i \in DOMAIN plist : plist'[i] = plist[i]
      /\ plist'[Len(plist) + 1] = [pid |-> pid, of |-> state']
      /\ Len(plist) \in Nat
  BY CollectAppends
<1>4. ASSUME NEW i \in DOMAIN plist' PROVE Complete(plist[i].of, plist[i].pid)'
  <2>1. CASE i \in DOMAIN plist
    BY <1>1, <1>3, <2>1 DEF CompleteInv, Complete
  <2>2. CASE i = Len(plist) + 1
    <3>1. plist'[i].of = state' /\ plist'[i].pid = pid'
      BY <1>1, <1>3, <2>2
    <3> QED BY <3>1 DEF Complete
  <2> QED BY <1>3, <2>1, <2>2
<1> QED BY <1>2, <1>4 DEF CompleteInv

(* A reader that fails or reads on leaves the list as it is. *)
LEMMA CompleteFrame ==
  ASSUME CompleteInv, UNCHANGED reader, UNCHANGED plist, SoFar'
  PROVE  CompleteInv'
BY DEF CompleteInv, Complete, reader, config

LEMMA CompleteFails == CompleteInv /\ Fails /\ UNCHANGED reader => CompleteInv'
<1> SUFFICES ASSUME CompleteInv, Fails, UNCHANGED reader PROVE CompleteInv'
  OBVIOUS
<1>1. pc' \in {"next", "returned"} /\ UNCHANGED plist
  BY DEF Fails
<1>2. SoFar'
  BY <1>1 DEF SoFar, Fields
<1> QED BY <1>1, <1>2, CompleteFrame

LEMMA WindowsComplete == TypeOK /\ CompleteInv /\ Windows => CompleteInv'
<1> SUFFICES ASSUME TypeOK, CompleteInv, Windows PROVE CompleteInv'
  OBVIOUS
<1>0. os = "windows" /\ os' = os /\ UNCHANGED <<phase, pid, started>> /\ UNCHANGED reader
  BY DEF Windows, getProcName, getPidStatus, getProcCredName, getParentPid, procMem,
         getProcTimes, getProcArgs, At, reader, config
<1>a. Ended' <=> Ended
  BY <1>0 DEF Ended, Entries, Table
<1> USE <1>0, CompleteFails, CompleteFrame DEF Opens, At
<1>1. CASE getProcName
  <2>1. ASSUME NEW p \in Procs, Reads({"name"}, p, "state") PROVE CompleteInv'
    <3>1. Holds({})
      BY <1>1 DEF getProcName, CompleteInv, SoFar
    <3>2. Holds({"name"})'
      BY <2>1, <3>1, HoldsMore DEF Reads, Holds
    <3> QED BY <2>1, <3>2 DEF Reads, SoFar, Fields
  <2> QED BY <1>1, <2>1 DEF getProcName
<1>2. CASE getPidStatus
  <2>1. ASSUME NEW p \in Procs, InfoReads({"state"}, p, "username") PROVE CompleteInv'
    <3>1. Holds({"name"})
      BY <1>2 DEF getPidStatus, CompleteInv, SoFar
    <3>2. Holds({"name", "state"})'
      BY <2>1, <3>1, HoldsMore DEF InfoReads, Reads, Holds
    <3>3. CASE Collect
      <4>1. Complete(state, pid)'
        BY <3>2 DEF Holds, Complete, Fields
      <4> QED BY <3>3, <4>1, CompleteCollect
    <3>4. CASE Reads({"state"}, p, "username")
      BY <3>2, <3>4 DEF Reads, SoFar, Fields
    <3> QED BY <2>1, <3>3, <3>4 DEF InfoReads
  <2> QED BY <1>2, <2>1 DEF getPidStatus
<1>3. CASE getProcCredName
  <2>1. ASSUME NEW p \in Procs, Reads({"username"}, p, "ppid") PROVE CompleteInv'
    <3>1. Holds({"name", "state"})
      BY <1>3 DEF getProcCredName, CompleteInv, SoFar
    <3>2. Holds({"name", "state", "username"})'
      BY <2>1, <3>1, HoldsMore DEF Reads, Holds
    <3> QED BY <2>1, <3>2 DEF Reads, SoFar, Fields
  <2> QED BY <1>3, <2>1 DEF getProcCredName
<1>4. CASE getParentPid
  <2>1. Holds({"name", "state", "username"})
    BY <1>4 DEF getParentPid, CompleteInv, SoFar
  <2>2. ASSUME NEW p \in Procs, Reads({"ppid"}, p, "memory") PROVE CompleteInv'
    <3>1. Holds({"name", "state", "username"} \cup {"ppid"})'
      BY <2>1, <2>2, HoldsMore DEF Reads, Holds
    <3> QED BY <2>2, <3>1 DEF Reads, SoFar, HoldsButPpid, Fields
  <2>3. CASE Missing /\ Reads({}, None, "memory")
    <3>1. Ended /\ Holds({"name", "state", "username"})'
      BY <2>1, <2>3 DEF Missing, Ended, Reads, Holds
    <3> QED BY <1>a, <2>3, <3>1 DEF Reads, SoFar, HoldsButPpid, Fields
  <2> QED BY <1>4, <2>2, <2>3 DEF getParentPid
<1>5. CASE procMem
  <2>1. ASSUME NEW p \in Procs, Reads({"memory"}, p, "cpu") PROVE CompleteInv'
    <3>1. HoldsButPpid({"name", "state", "username"})
      BY <1>5 DEF procMem, CompleteInv, SoFar
    <3>2. HoldsButPpid({"name", "state", "username", "memory"})'
      BY <1>a, <2>1, <3>1, HoldsMore DEF Reads, Holds, HoldsButPpid
    <3> QED BY <2>1, <3>2 DEF Reads, SoFar, Fields
  <2> QED BY <1>5, <2>1 DEF procMem
<1>6. CASE getProcTimes
  <2>1. ASSUME NEW p \in Procs, Reads({"cpu"}, p, "args") PROVE CompleteInv'
    <3>1. HoldsButPpid({"name", "state", "username", "memory"})
      BY <1>6 DEF getProcTimes, CompleteInv, SoFar
    <3>2. HoldsButPpid({"name", "state", "username", "memory", "cpu"})'
      BY <1>a, <2>1, <3>1, HoldsMore DEF Reads, Holds, HoldsButPpid
    <3> QED BY <2>1, <3>2 DEF Reads, SoFar, Fields
  <2> QED BY <1>6, <2>1 DEF getProcTimes
<1>7. CASE getProcArgs
  <2> DEFINE S == {"name", "state", "username", "memory", "cpu"}
  <2>1. ASSUME NEW p \in Procs, Opens(p), FillReads({"args"}, p) PROVE CompleteInv'
    <3>1. HoldsButPpid(S)
      BY <1>7 DEF getProcArgs, CompleteInv, SoFar
    <3>2. state'["args"] = p /\ p \in Entries(pid) /\ PidOf[p] # 0
      BY <2>1 DEF FillReads, Fields
    <3>3. CASE Holds(S \cup {"ppid"})
      <4>1. Holds(Fields \ {"env"})'
        BY <2>1, <3>3, HoldsMore DEF FillReads, Holds, Fields
      <4>2. Complete(state, pid)'
        BY <4>1 DEF Holds, Complete
      <4> QED BY <2>1, <4>2, CompleteCollect DEF FillReads
    <3>4. CASE Holds(S) /\ Ended
      <4>1. Holds(Fields \ {"env", "ppid"})'
        BY <2>1, <3>4, HoldsMore DEF FillReads, Holds, Fields
      <4>2. pid \in started \/ phase[p] = "zombie"
        BY <3>2, <3>4 DEF Ended
      <4>3. Complete(state, pid)'
        BY <3>2, <4>1, <4>2 DEF Holds, Complete
      <4> QED BY <2>1, <4>3, CompleteCollect DEF FillReads
    <3> QED BY <3>1, <3>3, <3>4 DEF HoldsButPpid
  <2> QED BY <1>7, <2>1 DEF getProcArgs
<1> QED BY <1>1, <1>2, <1>3, <1>4, <1>5, <1>6, <1>7 DEF Windows

LEMMA OtherReadersComplete ==
  TypeOK /\ CompleteInv /\ (taskInfo \/ sysctl \/ AIX) => CompleteInv'
<1> SUFFICES ASSUME TypeOK, CompleteInv, taskInfo \/ sysctl \/ AIX PROVE CompleteInv'
  OBVIOUS
<1>0. os \in {"darwin", "aix"} /\ os' = os /\ UNCHANGED reader
  BY DEF taskInfo, sysctl, AIX, getprocs, procExists, getprocsAgain, getargs, getevars,
         OnAIX, reader, config
<1>a. ASSUME Collect, Holds(Fields)' PROVE CompleteInv'
  <2>1. Complete(state, pid)'
    BY <1>a DEF Holds, Complete
  <2> QED BY <1>0, <1>a, <2>1, CompleteCollect
<1>b. ASSUME Collect, NEW S, Holds(S)', "args" \notin S PROVE CompleteInv'
  <2>1. Complete(state, pid)'
    BY <1>b DEF Holds, Complete, Fields
  <2> QED BY <1>0, <1>b, <2>1, CompleteCollect
<1> USE <1>0, CompleteFails, CompleteFrame, EntriesInProcs DEF OnAIX
<1>1. CASE taskInfo
  <2> DEFINE fs == {"name", "state", "username", "ppid", "memory", "cpu"}
  <2>1. ASSUME NEW p \in Procs, InfoReads(fs, p, "args") PROVE CompleteInv'
    <3>1. Holds({})
      BY <1>1 DEF taskInfo, CompleteInv, SoFar
    <3>2. Holds(fs)'
      BY <2>1, <3>1, HoldsMore DEF InfoReads, Reads, Holds
    <3>3. CASE Collect
      BY <1>b, <3>2, <3>3
    <3>4. CASE Reads(fs, p, "args")
      <4>1. Holds(Fields \ {"args", "env"})'
        BY <3>2 DEF Holds, Fields
      <4> QED BY <1>1, <3>4, <4>1 DEF taskInfo, Reads, SoFar, Fields
    <3> QED BY <2>1, <3>3, <3>4 DEF InfoReads
  <2> QED BY <1>1, <2>1 DEF taskInfo
<1>2. CASE sysctl
  <2>1. ASSUME NEW p \in Procs, FillReads({"args", "env"}, p) PROVE CompleteInv'
    <3>1. Holds(Fields \ {"args", "env"})
      BY <1>2 DEF sysctl, CompleteInv, SoFar
    <3>2. Holds(Fields)'
      BY <2>1, <3>1, HoldsMore DEF FillReads, Holds
    <3> QED BY <1>a, <2>1, <3>2 DEF FillReads
  <2> QED BY <1>2, <2>1 DEF sysctl
<1>3. CASE getprocs
  <2>1. ASSUME NEW p \in Procs, Reads({"name", "ppid", "state", "username"}, p, "exists")
        PROVE  CompleteInv'
    <3>1. Holds({})
      BY <1>3 DEF getprocs, CompleteInv, SoFar
    <3>2. Holds({"name", "state", "username", "ppid"})'
      BY <2>1, <3>1, HoldsMore DEF Reads, Holds
    <3> QED BY <1>3, <2>1, <3>2 DEF getprocs, Reads, SoFar, Fields
  <2> QED BY <1>3, <2>1 DEF getprocs
<1>4. CASE procExists
  <2>1. CASE InfoReads({}, None, "memory")
    <3>1. Holds({"name", "state", "username", "ppid"})
      BY <1>4 DEF procExists, CompleteInv, SoFar
    <3>2. Holds({"name", "state", "username", "ppid"})'
      BY <2>1, <3>1 DEF InfoReads, Reads, Holds
    <3>3. CASE Collect
      BY <1>b, <3>2, <3>3
    <3>4. CASE Reads({}, None, "memory")
      BY <1>4, <3>2, <3>4 DEF procExists, Reads, SoFar, Fields
    <3> QED BY <2>1, <3>3, <3>4 DEF InfoReads
  <2> QED BY <1>4, <2>1 DEF procExists
<1>5. CASE getprocsAgain
  <2>1. ASSUME NEW p \in Procs, Reads({"memory", "cpu"}, p, "args") PROVE CompleteInv'
    <3>1. Holds({"name", "state", "username", "ppid"})
      BY <1>5 DEF getprocsAgain, CompleteInv, SoFar
    <3>2. Holds(Fields \ {"args", "env"})'
      BY <2>1, <3>1, HoldsMore DEF Reads, Holds, Fields
    <3> QED BY <1>5, <2>1, <3>2 DEF getprocsAgain, Reads, SoFar, Fields
  <2> QED BY <1>5, <2>1 DEF getprocsAgain
<1>6. CASE getargs
  <2>1. ASSUME NEW p \in Procs, Reads({"args"}, p, "env") PROVE CompleteInv'
    <3>1. Holds(Fields \ {"args", "env"})
      BY <1>6 DEF getargs, CompleteInv, SoFar
    <3>2. Holds(Fields \ {"env"})'
      BY <2>1, <3>1, HoldsMore DEF Reads, Holds
    <3> QED BY <1>6, <2>1, <3>2 DEF getargs, Reads, SoFar, Fields
  <2> QED BY <1>6, <2>1 DEF getargs
<1>7. CASE getevars
  <2>1. ASSUME NEW p \in Procs, FillReads({"env"}, p) PROVE CompleteInv'
    <3>1. Holds(Fields \ {"env"})
      BY <1>7 DEF getevars, CompleteInv, SoFar
    <3>2. Holds(Fields)'
      BY <2>1, <3>1, HoldsMore DEF FillReads, Holds
    <3> QED BY <1>a, <2>1, <3>2 DEF FillReads
  <2> QED BY <1>7, <2>1 DEF getevars
<1> QED BY <1>1, <1>2, <1>3, <1>4, <1>5, <1>6, <1>7 DEF AIX

LEMMA CompleteInit == Init => CompleteInv
BY NoList DEF Init, CompleteInv, SoFar, Fields

LEMMA CompleteStep == TypeOK /\ CompleteInv /\ [Next]_vars => CompleteInv'
<1> SUFFICES ASSUME TypeOK, CompleteInv, [Next]_vars PROVE CompleteInv'
  OBVIOUS
<1>1. ASSUME NEW p \in Procs, Start(p) \/ Exit(p) \/ Reap(p) PROVE CompleteInv'
  <2>1. /\ UNCHANGED <<os, pc, pid, state, plist>>
        /\ \A q \in Procs \ {p} : phase'[q] = phase[q]
        /\ started \subseteq started'
        /\ phase[p] \in {"zombie", "gone"} => phase'[p] \in {"zombie", "gone"}
    BY <1>1 DEF Start, Exit, Reap, config, lists, TypeOK
  <2>2. Ended => Ended'
    <3>1. CASE Start(p)
      BY <2>1, <3>1 DEF Start, Ended, Entries, Table
    <3>2. CASE Exit(p) \/ Reap(p)
      <4>1. phase'[p] \in {"zombie", "gone"} /\ p \in Table
        BY <3>2 DEF Exit, Reap, Table, TypeOK
      <4> QED BY <2>1, <4>1 DEF Ended, Entries, Table
    <3> QED BY <1>1, <3>1, <3>2
  <2>3. SoFar'
    BY <2>1, <2>2 DEF CompleteInv, SoFar, Holds, HoldsButPpid
  <2>4. \A s \in ProcState : \A i : Complete(s, i) => Complete(s, i)'
    <3>1. \A q \in Procs : phase[q] \in {"zombie", "gone"} => phase'[q] \in {"zombie", "gone"}
      BY <2>1
    <3>2. \A s \in ProcState : s["args"] \in Procs \cup {None}
      BY DEF ProcState, Fields
    <3> QED BY <2>1, <3>1, <3>2 DEF Complete
  <2>5. \A i \in DOMAIN plist : plist[i].of \in ProcState
    BY PidsAreNumbers
  <2> QED BY <2>1, <2>3, <2>4, <2>5 DEF CompleteInv
<1>2. CASE Call \/ NextListed \/ NextInTable
  <2>1. state' = Empty /\ (plist' = <<>> \/ UNCHANGED <<os, phase, plist, started>>)
    BY <1>2 DEF Call, EnumProcesses, proc_listpidsSize, WalkTable, GetOne, GetPIDState, Enter,
                NextListed, NextInTable, config
  <2>2. pc' \in {"next", "list", "name", "exists?", "returned"}
    BY <1>2 DEF Call, EnumProcesses, proc_listpidsSize, WalkTable, GetOne, GetPIDState, Enter,
                NextListed, NextInTable
  <2>3. SoFar'
    BY <2>1, <2>2 DEF SoFar, Holds, Empty, Fields
  <2>4. \A i \in DOMAIN plist' : Complete(plist[i].of, plist[i].pid)'
    BY <2>1, NoList DEF CompleteInv, Complete
  <2> QED BY <2>3, <2>4 DEF CompleteInv
<1>3. CASE proc_listpids \/ PidExists \/ Return
  <2>1. /\ UNCHANGED <<os, phase, pid, state, plist, started>>
        /\ pc' \in {"next", "idle", "returned"} \/ (pc = "exists?" /\ pc' = "name")
    BY <1>3 DEF proc_listpids, PidExists, Return, config, lists
  <2>2. SoFar'
    BY <2>1 DEF CompleteInv, SoFar, Holds, Fields
  <2> QED BY <2>1, <2>2 DEF CompleteInv, Complete
<1>4. CASE UNCHANGED vars
  BY <1>4 DEF vars, CompleteInv, SoFar, Holds, HoldsButPpid, Ended, Entries, Table, Complete
<1> QED BY <1>1, <1>2, <1>3, <1>4, WindowsComplete, OtherReadersComplete
        DEF Next, Kernel, Run

(* A filled state lacks no field, but for the parent of a process that has *)
(* ended, whose failing read FillPidMetrics passes over.                   *)
THEOREM StateCompleteCorrect == Spec => []StateComplete
<1>1. TypeOK /\ CompleteInv => StateComplete
  <2> SUFFICES ASSUME TypeOK, CompleteInv, NEW i \in DOMAIN plist,
                      plist[i].of["args"] # None
               PROVE  \/ /\ Fields \ Has(plist[i].of) \subseteq {"env"}
                         /\ os # "windows" => "env" \in Has(plist[i].of)
                      \/ /\ os = "windows" /\ Fields \ Has(plist[i].of) = {"env", "ppid"}
                         /\ plist[i].pid \in started \/ phase[plist[i].of["args"]] # "running"
    BY DEF StateComplete
  <2> DEFINE s == plist[i].of
  <2>1. Complete(s, plist[i].pid)
    BY DEF CompleteInv
  <2>2. CASE \A f \in Fields : s[f] = None => f = "env" /\ os = "windows"
    BY <2>2 DEF Has, Fields
  <2>3. CASE /\ os = "windows" /\ \A f \in Fields : s[f] = None <=> f \in {"env", "ppid"}
             /\ plist[i].pid \in started \/ phase[s["args"]] \in {"zombie", "gone"}
    <3>1. {"env", "ppid"} \subseteq Fields
      BY DEF Fields
    <3>2. Fields \ Has(s) = {"env", "ppid"}
      BY <2>3, <3>1 DEF Has
    <3> QED BY <2>3, <3>2
  <2> QED BY <2>1, <2>2, <2>3 DEF Complete
<1> QED BY <1>1, TypeInit, TypeStep, CompleteInit, CompleteStep, PTL DEF Spec

-----------------------------------------------------------------------------
(* A process that runs is found *)

(* The least of a set of numbers. *)
LEMMA LeastNumber ==
  ASSUME NEW T \in SUBSET Nat, T # {}
  PROVE  \E m \in T : \A n \in T : m <= n
<1> DEFINE R == OpToRel(<, Nat)
<1>1. PICK m \in T : \A n \in T : <<n, m>> \notin R
  <2>1. IsWellFoundedOn(R, Nat)
    BY NatLessThanWellFounded, Zenon
  <2> HIDE DEF R
  <2> QED BY <2>1, WFMin
<1>2. \A n \in T : n < m => <<n, m>> \in R
  BY DEF OpToRel
<1> HIDE DEF R
<1>3. \A n \in T : ~(n < m)
  BY <1>1, <1>2
<1> QED BY <1>3

(* getprocs finds an entry when the table has one. *)
LEMMA EntryIsFound ==
  ASSUME NEW i, NEW p \in Table, PidOf[p] >= i
  PROVE  NextEntry(i) # {}
<1> DEFINE S == {q \in Table : PidOf[q] >= i}
           T == {PidOf[q] : q \in S}
<1>1. Table \subseteq Procs
  BY DEF Table
<1>2. T \in SUBSET Nat /\ PidOf[p] \in T
  BY <1>1, ReadersAssumption
<1>3. PICK m \in T : \A n \in T : m <= n
  <2> HIDE DEF T
  <2> QED BY <1>2, LeastNumber
<1>4. PICK q \in S : PidOf[q] = m
  BY <1>3
<1>5. \A r \in Table : PidOf[r] >= i => PidOf[q] <= PidOf[r]
  BY <1>3, <1>4
<1>6. q \in NextEntry(i)
  BY <1>4, <1>5 DEF NextEntry
<1> QED BY <1>6

(* Where FetchPids has the pid i: listed, being filled, or still to come. *)
Coming(i) ==
  \/ Filling /\ pid = i
  \/ os # "aix" /\ pc # "returned" /\ (pc = "list" \/ i \in todo)
  \/ os = "aix" /\ pc # "returned" /\ index >= 0 /\ i >= index

FoundOf(p) ==
  /\ op = "FetchPids" /\ whole /\ MayRead(p) => PidOf[p] \in Listed \/ Coming(PidOf[p])
  /\ op = "GetOne" /\ PidOf[p] = pid /\ MayRead(p) => Filling \/ result = "state"
  /\ op = "GetPIDState" /\ PidOf[p] = pid /\ MayInfo(p) => Filling \/ result = "state"

FoundInv ==
  /\ \A p \in began : phase[p] # "unborn"
  /\ pc \in {"list", "next"} => op = "FetchPids"
  /\ pc = "list" => os = "darwin"
  /\ pc = "exists?" => op = "GetPIDState"
  /\ skipExtended \/ op = "GetPIDState" => pc \notin Details
  /\ pc # "idle" => \A p \in Procs : Throughout(p) => FoundOf(p)

(* No read of a process that runs and may be read fails. *)
LEMMA RunningIsRead ==
  ASSUME TypeOK, FoundInv, NEW p \in Procs, Throughout(p), PidOf[p] = pid,
         MayRead(p) \/ (op = "GetPIDState" /\ MayInfo(p))
  PROVE  ~ReadFails
<1>1. p \in Entries(pid)
  BY DEF Throughout, Entries, Table
<1>2. ~Unreadable(p)
  BY DEF Throughout, Unreadable, FoundInv, MayRead, MayInfo
<1>3. NextEntry(pid) # {}
  <2>1. p \in Table /\ PidOf[p] >= pid
    BY <1>1, PidsAreNumbers DEF Entries
  <2> QED BY <2>1, EntryIsFound
<1> QED BY <1>1, <1>2, <1>3 DEF ReadFails

LEMMA FoundInit == Init => FoundInv
BY DEF Init, FoundInv, Details

(* The kernel adds no process to those that run throughout the call. *)
LEMMA FoundKernel ==
  ASSUME TypeOK, FoundInv, NEW p \in Procs, Start(p) \/ Exit(p) \/ Reap(p)
  PROVE  FoundInv'
<1>1. /\ UNCHANGED <<os, skipExtended, pc, op, todo, index, pid, plist, result, began, whole>>
      /\ \A q \in Procs \ {p} : phase'[q] = phase[q]
      /\ phase'[p] # "unborn"
      /\ phase'[p] = "running" => phase[p] = "unborn"
  BY DEF Start, Exit, Reap, config, lists, TypeOK
<1>2. \A q \in Procs : Throughout(q)' => Throughout(q)
  BY <1>1 DEF Throughout, FoundInv
<1>3. \A q \in began : q \in Procs
  BY DEF TypeOK
<1>4. Listed' = Listed
  BY <1>1 DEF Listed
<1>5. \A q \in Procs : FoundOf(q)' <=> FoundOf(q)
  BY <1>1, <1>4 DEF FoundOf, MayRead, MayInfo, Coming, Filling
<1> QED BY <1>1, <1>2, <1>3, <1>5 DEF FoundInv

LEMMA FoundCall == TypeOK /\ FoundInv /\ Call => FoundInv'
<1> SUFFICES ASSUME TypeOK, FoundInv, Call PROVE FoundInv'
  OBVIOUS
<1>1. /\ UNCHANGED config /\ UNCHANGED phase
      /\ began' = {p \in Procs : phase[p] = "running"}
  BY DEF Call, EnumProcesses, proc_listpidsSize, WalkTable, GetOne, GetPIDState, Enter
<1>2. \A p \in Procs : Throughout(p)' => p \in Table
  BY <1>1 DEF Throughout, Table
<1>3. \A p \in began' : phase'[p] # "unborn"
  BY <1>1
<1>4. CASE EnumProcesses
  <2>1. op' = "FetchPids" /\ pc' = "next" /\ os' = "windows" /\ todo' = {PidOf[p] : p \in Table}
    BY <1>1, <1>4 DEF EnumProcesses, Enter, config
  <2> QED BY <1>2, <1>3, <2>1 DEF FoundInv, FoundOf, Coming, Details
<1>5. CASE proc_listpidsSize
  <2>1. op' = "FetchPids" /\ pc' = "list" /\ os' = "darwin"
    BY <1>1, <1>5 DEF proc_listpidsSize, Enter, config
  <2> QED BY <1>3, <2>1 DEF FoundInv, FoundOf, Coming, Details
<1>6. CASE WalkTable
  <2>1. op' = "FetchPids" /\ pc' = "next" /\ os' = "aix" /\ index' = 0
    BY <1>1, <1>6 DEF WalkTable, Enter, config
  <2>2. \A p \in Procs : PidOf[p] >= 0
    BY ReadersAssumption
  <2> QED BY <1>3, <2>1, <2>2 DEF FoundInv, FoundOf, Coming, Details
<1>7. ASSUME NEW i \in Pids, GetOne(i) \/ GetPIDState(i) PROVE FoundInv'
  <2>1. /\ op' \in {"GetOne", "GetPIDState"} /\ pc' \in {"name", "exists?"}
        /\ pc' = "exists?" => op' = "GetPIDState"
    BY <1>7 DEF GetOne, GetPIDState, Enter
  <2>2. Filling' /\ pc' \notin Details
    BY <2>1 DEF Filling, Fields, Details
  <2> QED BY <1>3, <2>1, <2>2 DEF FoundInv, FoundOf
<1> QED BY <1>4, <1>5, <1>6, <1>7 DEF Call

LEMMA FoundNext == TypeOK /\ FoundInv /\ (NextListed \/ NextInTable) => FoundInv'
<1> SUFFICES ASSUME TypeOK, FoundInv, NextListed \/ NextInTable PROVE FoundInv'
  OBVIOUS
<1>1. /\ UNCHANGED <<os, skipExtended, phase, op, plist, result, began, whole>>
      /\ pc = "next" /\ pc' \in {"name", "returned"} /\ op = "FetchPids" /\ ~Filling
      /\ Filling' <=> pc' = "name"
  BY DEF NextListed, NextInTable, config, FoundInv, Filling, Fields
<1>2. \A p \in Procs : /\ Throughout(p)' <=> Throughout(p)
                       /\ MayRead(p)' <=> MayRead(p)
                       /\ MayInfo(p)' <=> MayInfo(p)
  BY <1>1 DEF Throughout, MayRead, MayInfo
<1>3. Listed' = Listed
  BY <1>1 DEF Listed
<1>4. ASSUME NEW p \in Procs, Throughout(p), whole, MayRead(p), PidOf[p] \notin Listed
      PROVE  Coming(PidOf[p])'
  <2>1. Coming(PidOf[p])
    BY <1>1, <1>4 DEF FoundInv, FoundOf
  <2>2. CASE NextListed
    BY <1>1, <2>1, <2>2 DEF NextListed, Coming
  <2>3. CASE NextInTable
    <3>1. index >= 0 /\ PidOf[p] >= index /\ os = "aix"
      BY <1>1, <2>1, <2>3 DEF NextInTable, Coming
    <3>2. p \in Table
      BY <1>4 DEF Throughout, Table
    <3>3. PICK q \in NextEntry(index) : pid' = PidOf[q] /\ index' = PidOf[q] + 1 /\ pc' = "name"
      BY <2>3, <3>1, <3>2, EntryIsFound DEF NextInTable
    <3>4. PidOf[q] <= PidOf[p] /\ PidOf[p] \in Nat /\ PidOf[q] \in Nat
      BY <3>1, <3>2, EntriesInProcs, ReadersAssumption DEF NextEntry
    <3> QED BY <1>1, <3>1, <3>3, <3>4 DEF Coming
  <2> QED BY <2>2, <2>3
<1> QED BY <1>1, <1>2, <1>3, <1>4 DEF FoundInv, FoundOf, Details

LEMMA FoundRead == TypeOK /\ FoundInv /\ Readers => FoundInv'
<1> SUFFICES ASSUME TypeOK, FoundInv, Readers PROVE FoundInv'
  OBVIOUS
<1>1. UNCHANGED reader /\ pc \in Fields \cup {"exists"} /\ (ReadFails \/ Collect \/ ReadGoesOn)
  BY ReaderSteps
<1>2. /\ UNCHANGED <<os, skipExtended, phase, op, todo, index, pid, began, whole>>
      /\ Filling /\ pc # "idle" /\ pc # "list"
  BY <1>1 DEF reader, config, Filling, Fields
<1>3. \A p \in Procs : /\ Throughout(p)' <=> Throughout(p)
                       /\ MayRead(p)' <=> MayRead(p)
                       /\ MayInfo(p)' <=> MayInfo(p)
  BY <1>2 DEF Throughout, MayRead, MayInfo
<1>4. CASE ReadGoesOn
  <2>1. UNCHANGED <<plist, result>> /\ Filling' /\ pc' \notin {"list", "next", "returned", "exists?"}
    BY <1>4 DEF ReadGoesOn, Filling, Fields
  <2>2. Listed' = Listed
    BY <2>1 DEF Listed
  <2>3. \A p \in Procs : FoundOf(p) => FoundOf(p)'
    BY <1>2, <1>3, <2>1, <2>2 DEF FoundOf, Coming
  <2>4. skipExtended' \/ op' = "GetPIDState" => pc' \notin Details
    BY <1>2, <1>4 DEF ReadGoesOn, FoundInv
  <2> QED BY <1>2, <1>3, <2>1, <2>3, <2>4 DEF FoundInv
<1>5. CASE ReadFails \/ Collect
  <2>1. pc' = IF op = "FetchPids" THEN "next" ELSE "returned"
    BY <1>5 DEF ReadFails, Fails, Collect
  <2>2. Listed \subseteq Listed'
    <3>1. CASE ReadFails
      BY <3>1 DEF ReadFails, Fails, Listed
    <3>2. CASE Collect
      BY <3>2, CollectAppends DEF Listed
    <3> QED BY <1>5, <3>1, <3>2
  <2>3. ASSUME NEW p \in Procs, Throughout(p), PidOf[p] = pid,
               MayRead(p) \/ (op = "GetPIDState" /\ MayInfo(p))
        PROVE  (op = "FetchPids" => pid \in Listed') /\ (op # "FetchPids" => result' = "state")
    <3>1. Collect
      BY <1>5, <2>3, RunningIsRead
    <3>2. Len(plist) + 1 \in DOMAIN plist' /\ plist'[Len(plist) + 1].pid = pid
      BY <3>1, CollectAppends
    <3> QED BY <3>1, <3>2 DEF Collect, Listed
  <2>4. ASSUME NEW p \in Procs, Throughout(p) PROVE FoundOf(p)'
    <3>1. FoundOf(p)
      BY <1>2, <2>4 DEF FoundInv
    <3>2. ASSUME op = "FetchPids", whole, MayRead(p) PROVE (PidOf[p] \in Listed \/ Coming(PidOf[p]))'
      <4>1. CASE PidOf[p] = pid
        BY <2>3, <2>4, <3>2, <4>1
      <4>2. CASE PidOf[p] # pid
        BY <1>2, <2>1, <2>2, <3>1, <3>2, <4>2 DEF FoundOf, Coming
      <4> QED BY <4>1, <4>2
    <3> QED BY <1>2, <1>3, <2>3, <2>4, <3>2 DEF FoundOf
  <2> QED BY <1>2, <1>3, <2>1, <2>4 DEF FoundInv, Details
<1> QED BY <1>1, <1>4, <1>5

LEMMA FoundStep == TypeOK /\ FoundInv /\ [Next]_vars => FoundInv'
<1> SUFFICES ASSUME TypeOK, FoundInv, [Next]_vars PROVE FoundInv'
  OBVIOUS
<1>1. CASE proc_listpids
  <2>1. /\ UNCHANGED <<os, skipExtended, phase, op, began>>
        /\ op = "FetchPids" /\ os = "darwin" /\ pc' = "next"
        /\ whole' => todo' = {PidOf[p] : p \in Table} \ {0}
    BY <1>1 DEF proc_listpids, config, FoundInv
  <2>2. \A p \in Procs : Throughout(p)' => p \in Table /\ PidOf[p] # 0
    BY <2>1 DEF Throughout, Table
  <2> QED BY <2>1, <2>2 DEF FoundInv, FoundOf, Coming, Details
<1>2. CASE PidExists
  <2>1. /\ UNCHANGED <<os, skipExtended, phase, op, todo, index, pid, plist, began, whole>>
        /\ pc = "exists?" /\ op = "GetPIDState" /\ pc' \in {"name", "returned"}
        /\ Entries(pid) # {} => pc' = "name"
        /\ pc' = "name" => UNCHANGED result
    BY <1>2 DEF PidExists, config, lists, FoundInv
  <2>2. \A p \in Procs : Throughout(p)' => Throughout(p)
    BY <2>1 DEF Throughout
  <2>3. ASSUME NEW p \in Procs, Throughout(p), PidOf[p] = pid PROVE pc' = "name"
    BY <2>1, <2>3 DEF Throughout, Entries, Table
  <2>4. Listed' = Listed /\ (Filling' <=> pc' = "name")
    BY <2>1 DEF Listed, Filling, Fields
  <2>5. ASSUME NEW p \in Procs, Throughout(p) PROVE FoundOf(p)'
    <3>1. FoundOf(p)
      BY <2>1, <2>5 DEF FoundInv
    <3> QED BY <2>1, <2>3, <2>4, <2>5, <3>1 DEF FoundOf, MayRead, MayInfo, Coming
  <2> QED BY <2>1, <2>2, <2>5 DEF FoundInv, Details
<1>3. CASE Return
  BY <1>3 DEF Return, config, lists, FoundInv, Details
<1>4. CASE UNCHANGED vars
  <2>1. Listed' = Listed
    BY <1>4 DEF vars, Listed
  <2> QED BY <1>4, <2>1 DEF vars, FoundInv, FoundOf, Throughout, MayRead, MayInfo, Coming, Filling
<1> QED BY <1>1, <1>2, <1>3, <1>4, FoundKernel, FoundCall, FoundNext, FoundRead
        DEF Next, Kernel, Run, Readers

(* Every call finds a process that runs throughout it and that it may      *)
(* read, on macOS none of another user, whatever starts, exits and is      *)
(* reaped meanwhile.                                                       *)
THEOREM RunningIsFoundCorrect == Spec => []RunningIsFound
<1>1. FoundInv => RunningIsFound
  <2> SUFFICES ASSUME FoundInv, pc = "returned", NEW p \in Procs, Throughout(p)
               PROVE  /\ op = "FetchPids" /\ whole /\ MayRead(p) => PidOf[p] \in Listed
                      /\ op = "GetOne" /\ PidOf[p] = pid /\ MayRead(p) => result = "state"
                      /\ op = "GetPIDState" /\ PidOf[p] = pid /\ MayInfo(p) => result = "state"
    BY DEF RunningIsFound
  <2>1. ~Filling /\ FoundOf(p)
    BY DEF Filling, Fields, FoundInv
  <2> QED BY <2>1 DEF FoundOf, Coming
<1> QED BY <1>1, TypeInit, TypeStep, FoundInit, FoundStep, PTL DEF Spec

-----------------------------------------------------------------------------
(* Every call gets nearer to its end.  A step within a pid goes on to a    *)
(* later stage; a step to another pid takes it from those that are ahead.  *)

LEMMA StageValues ==
  /\ Stage("list") = 0 /\ Stage("exists?") = 0 /\ Stage("name") = 1
  /\ Stage("state") = 2 /\ Stage("exists") = 2 /\ Stage("username") = 3
  /\ Stage("ppid") = 4 /\ Stage("memory") = 5 /\ Stage("cpu") = 6
  /\ Stage("args") = 7 /\ Stage("env") = 8 /\ Stage("next") = 9
  /\ Stage("returned") = 10 /\ Stage("idle") = 11
BY DEF Stage

LEMMA PidsFinite == IsFiniteSet(Pids) /\ Cardinality(Pids) \in Nat /\ -1 \notin Pids
<1>1. IsFiniteSet(Pids)
  <2>1. IsFiniteSet(Procs)
    BY ReadersAssumption
  <2>2. PidOf \in [Procs -> Nat]
    BY ReadersAssumption
  <2> DEFINE Q == {PidOf[p] : p \in Procs}
  <2>3. PidOf \in Surjection(Procs, Q)
    BY <2>2 DEF Surjection
  <2>4. IsFiniteSet(Q)
    BY <2>1, <2>3, FS_Surjection
  <2> QED BY <2>4 DEF Pids
<1>2. -1 \notin Pids
  BY ReadersAssumption DEF Pids
<1> QED BY <1>1, <1>2, FS_CardinalityType

LEMMA AheadFinite ==
  ASSUME TypeOK
  PROVE  /\ IsFiniteSet(Ahead) /\ Cardinality(Ahead) \in Nat
         /\ os # "aix" => Cardinality(Ahead) <= Cardinality(Pids)
<1>1. Ahead \subseteq Pids \cup {-1} /\ (os # "aix" => Ahead \subseteq Pids)
  BY DEF Ahead, TypeOK
<1>2. IsFiniteSet(Pids \cup {-1})
  BY PidsFinite, FS_AddElement
<1> QED BY <1>1, <1>2, PidsFinite, FS_Subset, FS_CardinalityType

(* A field that is read is followed by a later one. *)
Successors(f) == CASE f = "name" -> {"state", "exists", "args"}
                   [] f = "state" -> {"username"}
                   [] f = "exists" -> {"memory"}
                   [] f = "username" -> {"ppid"}
                   [] f = "ppid" -> {"memory"}
                   [] f = "memory" -> {"cpu", "args"}
                   [] f = "cpu" -> {"args"}
                   [] f = "args" -> {"env"}
                   [] f = "env" -> {}

LEMMA SuccessorsAreLater ==
  ASSUME NEW f \in Fields \cup {"exists"},
         NEW g \in Successors(f) \cup {"next", "returned"}
  PROVE  Stage(g) > Stage(f) /\ g # "list"
BY StageValues DEF Fields, Successors

LEMMA ReadersAdvance ==
  Readers => pc' \in Successors(pc) \cup {"next", "returned"}
<1> SUFFICES ASSUME Readers PROVE pc' \in Successors(pc) \cup {"next", "returned"}
  OBVIOUS
<1> USE DEF Successors, Reads, InfoReads, FillReads, Fails, Collect
<1>1. CASE getProcName
  BY <1>1 DEF getProcName, At
<1>2. CASE getPidStatus
  BY <1>2 DEF getPidStatus, At
<1>3. CASE getProcCredName
  BY <1>3 DEF getProcCredName, At
<1>4. CASE getParentPid
  BY <1>4 DEF getParentPid, At
<1>5. CASE procMem
  BY <1>5 DEF procMem, At
<1>6. CASE getProcTimes
  BY <1>6 DEF getProcTimes, At
<1>7. CASE getProcArgs
  BY <1>7 DEF getProcArgs, At
<1>8. CASE taskInfo
  BY <1>8 DEF taskInfo
<1>9. CASE sysctl
  BY <1>9 DEF sysctl
<1>10. CASE getprocs
  BY <1>10 DEF getprocs, OnAIX
<1>11. CASE procExists
  BY <1>11 DEF procExists, OnAIX
<1>12. CASE getprocsAgain
  BY <1>12 DEF getprocsAgain, OnAIX
<1>13. CASE getargs
  BY <1>13 DEF getargs, OnAIX
<1>14. CASE getevars
  BY <1>14 DEF getevars, OnAIX
<1> QED BY <1>1, <1>2, <1>3, <1>4, <1>5, <1>6, <1>7, <1>8, <1>9, <1>10, <1>11, <1>12,
           <1>13, <1>14 DEF Readers, Windows, AIX

LEMMA RankRead ==
  ASSUME TypeOK, TypeOK', pc # "list", pc' # "list", Ahead' = Ahead, Stage(pc') > Stage(pc),
         Stage(pc) \in Nat, Stage(pc') \in Nat
  PROVE  Rank' < Rank
BY AheadFinite DEF Rank, Stages

LEMMA StageNat == TypeOK => Stage(pc) \in 0..11
<1> SUFFICES ASSUME TypeOK PROVE Stage(pc) \in 0..11
  OBVIOUS
<1>1. \/ pc \in {"idle", "list", "next", "exists?", "exists", "returned"}
      \/ pc \in {"name", "state", "username", "ppid", "memory", "cpu", "args", "env"}
  BY DEF TypeOK, Fields
<1>2. CASE pc \in {"idle", "list", "next", "exists?", "exists", "returned"}
  BY <1>2, StageValues
<1>3. CASE pc \in {"name", "state", "username", "ppid", "memory", "cpu", "args", "env"}
  BY <1>3, StageValues
<1> QED BY <1>1, <1>2, <1>3

(* The next pid is taken from those ahead. *)
LEMMA NextAdvances ==
  ASSUME TypeOK, NextListed \/ NextInTable
  PROVE  \/ pc' = "returned" /\ Ahead' = Ahead
         \/ pc' = "name" /\ Ahead' \subseteq Ahead /\ Ahead' # Ahead
<1>1. CASE NextListed
  <2>1. os # "aix" /\ Ahead = todo /\ Ahead' = todo'
    BY <1>1 DEF NextListed, config, Ahead
  <2> QED BY <1>1, <2>1 DEF NextListed
<1>2. CASE NextInTable
  <2>1. os = "aix" /\ os' = os
    BY <1>2 DEF NextInTable, config
  <2>2. ASSUME index >= 0, NEW p \in NextEntry(index), index' = PidOf[p] + 1
        PROVE  Ahead' \subseteq Ahead /\ Ahead' # Ahead
    <3>1. p \in Procs /\ PidOf[p] \in Nat /\ PidOf[p] >= index /\ PidOf[p] \in Pids
      BY <2>2, EntriesInProcs, ReadersAssumption DEF NextEntry, Pids
    <3>2. Ahead = {i \in Pids : i >= index} \cup {-1}
      BY <2>1, <2>2 DEF Ahead
    <3>3. Ahead' = {i \in Pids : i >= PidOf[p] + 1} \cup {-1}
      BY <2>1, <2>2, <3>1 DEF Ahead
    <3>4. Pids \subseteq Nat
      BY PidsAreNumbers
    <3>5. index \in Nat
      <4>1. index \in Nat \cup {-1}
        BY DEF TypeOK
      <4> QED BY <2>2, <4>1
    <3>6. \A i \in Pids : i >= PidOf[p] + 1 => i >= index
      BY <3>1, <3>4, <3>5
    <3>7. Ahead' \subseteq Ahead
      BY <3>2, <3>3, <3>6
    <3>8. PidOf[p] \in Ahead /\ PidOf[p] \notin Ahead'
      BY <3>1, <3>2, <3>3
    <3> QED BY <3>7, <3>8
  <2>3. ASSUME index >= 0, index' = -1 PROVE Ahead' \subseteq Ahead /\ Ahead' # Ahead
    <3>1. Ahead' = {}
      BY <2>1, <2>3 DEF Ahead
    <3>2. -1 \in Ahead
      BY <2>1, <2>3 DEF Ahead
    <3> QED BY <3>1, <3>2
  <2>4. ASSUME index = -1, index' = index PROVE Ahead' = Ahead
    BY <2>1, <2>4 DEF Ahead
  <2> QED BY <1>2, <2>2, <2>3, <2>4 DEF NextInTable
<1> QED BY <1>1, <1>2

LEMMA RunShortens ==
  ASSUME TypeOK, TypeOK', Run
  PROVE  Rank' < Rank
<1>0. Stage(pc) \in 0..11 /\ Stage(pc') \in 0..11
  <2>1. (TypeOK => Stage(pc) \in 0..11)'
    BY StageNat, PTL
  <2> QED BY <2>1, StageNat
<1>1. CASE Readers
  <2>1. UNCHANGED reader /\ pc \in Fields \cup {"exists"}
    BY <1>1, ReaderSteps
  <2>2. Ahead' = Ahead /\ pc # "list"
    BY <2>1 DEF reader, config, Ahead, Fields
  <2>3. Stage(pc') > Stage(pc) /\ pc' # "list"
    BY <1>1, <2>1, ReadersAdvance, SuccessorsAreLater
  <2> QED BY <1>0, <2>2, <2>3, RankRead
<1>2. CASE proc_listpids
  <2>1. pc = "list" /\ pc' = "next" /\ os' # "aix"
    BY <1>2 DEF proc_listpids, config
  <2>2. Rank = 12 * (Cardinality(Pids) + 1) /\ Rank' = 12 * Cardinality(Ahead)' + 2
    BY <2>1, StageValues DEF Rank, Stages
  <2>3. Cardinality(Ahead)' \in Nat /\ Cardinality(Ahead)' <= Cardinality(Pids)
    <3>1. (TypeOK => /\ Cardinality(Ahead) \in Nat
                     /\ os # "aix" => Cardinality(Ahead) <= Cardinality(Pids))'
      BY AheadFinite, PTL
    <3> QED BY <2>1, <3>1
  <2> QED BY <2>2, <2>3, PidsFinite
<1>3. CASE NextListed \/ NextInTable
  <2>1. pc = "next"
    BY <1>3 DEF NextListed, NextInTable
  <2>2. CASE pc' = "returned" /\ Ahead' = Ahead
    BY <1>0, <2>1, <2>2, RankRead, StageValues
  <2>3. CASE pc' = "name" /\ Ahead' \subseteq Ahead /\ Ahead' # Ahead
    <3>1. /\ IsFiniteSet(Ahead) /\ Cardinality(Ahead) \in Nat
          /\ Cardinality(Ahead') \in Nat /\ Cardinality(Ahead') < Cardinality(Ahead)
      BY <2>3, AheadFinite, FS_Subset, FS_CardinalityType
    <3>2. Rank = 12 * Cardinality(Ahead) + 2 /\ Rank' = 12 * Cardinality(Ahead') + 10
      BY <2>1, <2>3, StageValues DEF Rank, Stages
    <3> QED BY <3>1, <3>2
  <2> QED BY <1>3, <2>2, <2>3, NextAdvances
<1>4. CASE PidExists \/ Return
  <2>1. UNCHANGED <<os, todo, index>>
    BY <1>4 DEF PidExists, Return, config, lists
  <2>2. Ahead' = Ahead
    BY <2>1 DEF Ahead
  <2>3. pc # "list" /\ pc' # "list" /\ Stage(pc') > Stage(pc)
    BY <1>4, StageValues DEF PidExists, Return
  <2> QED BY <1>0, <2>2, <2>3, RankRead
<1> QED BY <1>1, <1>2, <1>3, <1>4 DEF Run, Readers

(* Each step of a call brings it nearer to its end, and what the kernel    *)
(* does meanwhile makes it no longer: for any processes, a call takes at   *)
(* most Rank steps.                                                        *)
THEOREM ShortensCorrect == Spec => CallShortens
<1>1. ASSUME TypeOK, TypeOK', [Next]_vars
      PROVE  [ /\ Run => Rank' < Rank
               /\ pc # "idle" /\ ~Run => Rank' = Rank ]_vars
  <2>1. CASE Run
    BY <1>1, <2>1, RunShortens
  <2>2. CASE Kernel
    <3>1. UNCHANGED <<pc, os, todo, index>>
      BY <2>2 DEF Kernel, Start, Exit, Reap, config, lists
    <3>2. Ahead' = Ahead
      BY <3>1 DEF Ahead
    <3>3. Rank' = Rank
      BY <3>1, <3>2 DEF Rank
    <3> QED BY <1>1, <3>3, RunShortens
  <2>3. CASE Call
    <3>1. pc = "idle"
      BY <2>3 DEF Call, EnumProcesses, proc_listpidsSize, WalkTable, GetOne, GetPIDState, Enter
    <3> QED BY <1>1, <3>1, RunShortens
  <2> QED BY <1>1, <2>1, <2>2, <2>3 DEF Next
<1> QED BY <1>1, TypeCorrect, PTL DEF Spec, CallShortens
=============================================================================
