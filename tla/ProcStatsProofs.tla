--------------------------- MODULE ProcStatsProofs ---------------------------
(* Proofs about ProcStats, ProcStatsAccounting and ProcStatsSampler, for   *)
(* any processes, callers and bounds.                                      *)
EXTENDS ProcStatsSampler, TLAPS

-----------------------------------------------------------------------------
(* Type correctness *)

LEMMA EmptyType == Empty \in ProcState
BY DEF Empty, ProcState

(* Every variable of ProcStats keeps its type. *)
LEMMA TypeInit == Init => TypeOK
BY EmptyType, ProcsAssumption DEF Init, TypeOK, NoEntries, Stages

LEMMA EnvironmentType ==
  ASSUME TypeOK, (\E x \in Procs : Start(x) \/ Exit(x)) \/ Tick
  PROVE  TypeOK'
<1>1. ASSUME NEW x \in Procs, Start(x) PROVE TypeOK'
  BY <1>1 DEF TypeOK, Start, locals
<1>2. ASSUME NEW x \in Procs, Exit(x) PROVE TypeOK'
  BY <1>2 DEF TypeOK, Exit, locals
<1>3. CASE Tick
  BY <1>3, BoundsAssumption DEF TypeOK, Tick, locals
<1> QED BY <1>1, <1>2, <1>3

LEMMA ReturnType ==
  ASSUME TypeOK, NEW c \in Callers, Return(c),
         pids' \in [Pids -> ProcState \cup {None}], UNCHANGED environment
  PROVE  TypeOK'
BY EmptyType, ProcsAssumption DEF TypeOK, Return, NoEntries, Stages, environment

LEMMA NextPidType ==
  ASSUME TypeOK, NEW c \in Callers, NextPid(c), UNCHANGED <<environment, pids>>,
         procMap' \in [Callers -> [Pids -> ProcState \cup {None}]]
  PROVE  TypeOK'
BY EmptyType, ProcsAssumption DEF TypeOK, NextPid, Stages, environment

LEMMA EnterType ==
  ASSUME TypeOK, NEW c \in Callers, NEW p \in Pids, EnterPidFill(c, p)
  PROVE  /\ pc' \in [Callers -> Stages]
         /\ pid' \in [Callers -> Pids]
         /\ status' \in [Callers -> ProcState]
         /\ last' \in [Callers -> ProcState \cup {None}]
         /\ procMap' = procMap
<1>1. PICK x \in LiveAt(p) :
        /\ pc' = [pc EXCEPT ![c] = "cache"]
        /\ pid' = [pid EXCEPT ![c] = p]
        /\ status' = [status EXCEPT ![c] = [Empty EXCEPT !.name = x]]
        /\ last' = [last EXCEPT ![c] = None]
        /\ procMap' = procMap
  BY DEF EnterPidFill
<1>2. [Empty EXCEPT !.name = x] \in ProcState
  BY DEF Empty, ProcState, LiveAt
<1> QED BY <1>1, <1>2 DEF TypeOK, Stages

LEMMA StepType ==
  ASSUME TypeOK, NEW c \in Callers, Step(c)
  PROVE  TypeOK'
<1>1. CASE GetListed(c)
  <2>1. PICK p \in todo[c] :
          /\ todo' = [todo EXCEPT ![c] = @ \ {p}]
          /\ \/ EnterPidFill(c, p)
             \/ LiveAt(p) = {} /\ UNCHANGED <<pc, pid, status, last, procMap>>
    BY <1>1 DEF GetListed
  <2>2. p \in Pids
    BY DEF TypeOK
  <2>3. todo' \in [Callers -> SUBSET Pids]
    BY <2>1 DEF TypeOK
  <2> QED BY <1>1, <2>1, <2>2, <2>3, EnterType DEF GetListed, TypeOK, environment
<1>2. CASE FilterAndCache(c)
  <2>1. ASSUME status' = [status EXCEPT ![c] = WithCache(@, pids[pid[c]])]
        PROVE  status' \in [Callers -> ProcState]
    <3>1. pids[pid[c]] \in ProcState \cup {None} /\ status[c] \in ProcState
      BY DEF TypeOK
    <3>2. WithCache(status[c], pids[pid[c]]) \in ProcState
      BY <3>1 DEF WithCache, ProcState
    <3> QED BY <2>1, <3>2 DEF TypeOK
  <2>2. CASE op[c] = "Get" /\ status[c].name \notin Matched /\ NextPid(c)
    BY <1>2, <2>2, NextPidType DEF FilterAndCache, TypeOK
  <2> QED BY <1>2, <2>1, <2>2 DEF FilterAndCache, TypeOK, environment, Stages
<1>3. CASE ReadCPU(c)
  <2>1. PICK x \in LiveAt(pid[c]) :
          status' = [status EXCEPT ![c].cpu = x, ![c].ticks = cpu[x]]
    BY <1>3 DEF ReadCPU
  <2>2. x \in Procs /\ cpu[x] \in Nat /\ status[c] \in ProcState
    BY DEF LiveAt, TypeOK
  <2>3. status' \in [Callers -> ProcState]
    BY <2>1, <2>2 DEF TypeOK, ProcState
  <2> QED BY <1>3, <2>3 DEF ReadCPU, TypeOK, Stages, environment
<1>4. CASE ReadFiles(c)
  <2>1. PICK x \in LiveAt(pid[c]), e \in {TRUE, FALSE} :
          status' = [status EXCEPT
            ![c].args = IF @ = None /\ x \notin KernelThreads THEN x ELSE @,
            ![c].env = IF @ = None /\ e THEN x ELSE @]
    BY <1>4 DEF ReadFiles
  <2>2. x \in Procs /\ status[c] \in ProcState
    BY DEF LiveAt, TypeOK
  <2>3. status' \in [Callers -> ProcState]
    BY <2>1, <2>2 DEF TypeOK, ProcState
  <2> QED BY <1>4, <2>3 DEF ReadFiles, TypeOK, Stages, environment
<1>5. CASE GetLast(c)
  BY <1>5 DEF GetLast, TypeOK, Stages, environment
<1>6. CASE Stamp(c)
  <2>1. status' = [status EXCEPT ![c] = [@ EXCEPT !.sample = now]]
    BY <1>6 DEF Stamp
  <2>2. [status[c] EXCEPT !.sample = now] \in ProcState
    <3>1. status[c] \in ProcState /\ now \in Nat
      BY DEF TypeOK
    <3> QED BY <3>1 DEF ProcState
  <2>3. status' \in [Callers -> ProcState]
    BY <2>1, <2>2 DEF TypeOK
  <2> QED BY <1>6, <2>3 DEF Stamp, TypeOK, Stages, environment
<1>7. CASE Fail(c)
  BY <1>7, ReturnType, NextPidType DEF Fail, TypeOK
<1>8. CASE Collect(c)
  BY <1>8, NextPidType DEF Collect, TypeOK
<1>9. CASE SetPid(c)
  BY <1>9, ReturnType DEF SetPid, TypeOK
<1>10. CASE SetMap(c)
  BY <1>10, ReturnType DEF SetMap, TypeOK
<1> QED BY <1>1, <1>2, <1>3, <1>4, <1>5, <1>6, <1>7, <1>8, <1>9, <1>10 DEF Step

LEMMA TypeStep == TypeOK /\ [Next]_vars => TypeOK'
<1> SUFFICES ASSUME TypeOK, [Next]_vars PROVE TypeOK'
  OBVIOUS
<1>1. ASSUME NEW c \in Callers, StartGet(c) PROVE TypeOK'
  BY <1>1 DEF StartGet, TypeOK, Stages, environment
<1>2. ASSUME NEW c \in Callers, NEW p \in Pids, GetOne(c, p) PROVE TypeOK'
  BY <1>2, EnterType DEF GetOne, TypeOK, environment
<1>3. ASSUME NEW c \in Callers, GetSelf(c) PROVE TypeOK'
  BY <1>2, <1>3, ProcsAssumption DEF GetSelf
<1>4. CASE UNCHANGED vars
  BY <1>4 DEF TypeOK, vars
<1> QED BY <1>1, <1>2, <1>3, <1>4, StepType, EnvironmentType, CallersAssumption DEF Next

(* Every behaviour of ProcStats is type correct. *)
THEOREM TypeCorrect == Spec => []TypeOK
BY TypeInit, TypeStep, PTL DEF Spec

-----------------------------------------------------------------------------
(* Sample times *)

(* No sample is from the future, and a baseline that was read is no newer  *)
(* than the SampleTime that is taken after it.                             *)
SampleInv ==
  /\ \A p \in Pids : pids[p] # None => pids[p].sample <= now
  /\ \A c \in Callers :
       /\ \A p \in Pids : procMap[c][p] # None => procMap[c][p].sample <= now
       /\ last[c] # None => last[c].sample <= now
       /\ status[c].sample <= now
       /\ HasBaseline(c) => last[c].sample <= status[c].sample

LEMMA SampleInit == Init => SampleInv
BY BoundsAssumption DEF Init, SampleInv, NoEntries, Empty, HasBaseline

LEMMA SampleEnvironment ==
  ASSUME TypeOK, SampleInv, (\E x \in Procs : Start(x) \/ Exit(x)) \/ Tick
  PROVE  SampleInv'
<1>1. now' \in Nat /\ now \in Nat /\ now <= now' /\ UNCHANGED <<pids, locals>>
  BY BoundsAssumption DEF TypeOK, Start, Exit, Tick
<1>2. ASSUME NEW s \in ProcState PROVE s.sample \in Nat
  BY DEF ProcState
<1> QED BY <1>1, <1>2 DEF TypeOK, SampleInv, HasBaseline, locals

LEMMA EnterSample ==
  ASSUME TypeOK, SampleInv, NEW c \in Callers, NEW p \in Pids,
         EnterPidFill(c, p), UNCHANGED <<environment, pids>>
  PROVE  SampleInv'
<1>1. PICK x \in LiveAt(p) :
        /\ pc' = [pc EXCEPT ![c] = "cache"]
        /\ status' = [status EXCEPT ![c] = [Empty EXCEPT !.name = x]]
        /\ last' = [last EXCEPT ![c] = None]
        /\ procMap' = procMap
  BY DEF EnterPidFill
<1>2. [Empty EXCEPT !.name = x].sample = 0
  BY DEF Empty
<1> QED BY <1>1, <1>2 DEF TypeOK, SampleInv, HasBaseline, environment

LEMMA NextPidSample ==
  ASSUME TypeOK, SampleInv, NEW c \in Callers, NextPid(c),
         UNCHANGED <<environment, pids>>,
         \A d \in Callers, p \in Pids :
           procMap'[d][p] # None => procMap'[d][p].sample <= now
  PROVE  SampleInv'
<1>1. Empty.sample = 0
  BY DEF Empty
<1> QED BY <1>1 DEF NextPid, TypeOK, SampleInv, HasBaseline, environment

LEMMA ReturnSample ==
  ASSUME TypeOK, SampleInv, NEW c \in Callers, Return(c), UNCHANGED environment,
         \A p \in Pids : pids'[p] # None => pids'[p].sample <= now
  PROVE  SampleInv'
<1>1. Empty.sample = 0
  BY DEF Empty
<1> QED BY <1>1 DEF Return, NoEntries, TypeOK, SampleInv, HasBaseline, environment

LEMMA SampleStep ==
  ASSUME TypeOK, SampleInv, NEW c \in Callers, Step(c)
  PROVE  SampleInv'
<1>1. CASE GetListed(c)
  <2>1. ASSUME NEW p \in todo[c], EnterPidFill(c, p) PROVE SampleInv'
    BY <1>1, <2>1, EnterSample DEF GetListed, TypeOK
  <2>2. CASE UNCHANGED <<pc, pid, status, last, procMap>>
    BY <1>1, <2>2 DEF GetListed, SampleInv, HasBaseline, environment
  <2> QED BY <1>1, <2>1, <2>2 DEF GetListed
<1>2. CASE FilterAndCache(c)
  <2>1. CASE NextPid(c)
    BY <1>2, <2>1, NextPidSample DEF FilterAndCache, SampleInv
  <2>2. CASE status' = [status EXCEPT ![c] = WithCache(@, pids[pid[c]])]
    <3>1. WithCache(status[c], pids[pid[c]]).sample = status[c].sample
      BY DEF WithCache, TypeOK, ProcState
    <3> QED BY <1>2, <2>1, <2>2, <3>1 DEF FilterAndCache, TypeOK, SampleInv,
              HasBaseline, environment
  <2> QED BY <1>2, <2>1, <2>2 DEF FilterAndCache
<1>3. CASE ReadCPU(c)
  BY <1>3 DEF ReadCPU, TypeOK, SampleInv, HasBaseline, environment, ProcState
<1>4. CASE ReadFiles(c)
  BY <1>4 DEF ReadFiles, TypeOK, SampleInv, HasBaseline, environment, ProcState
<1>5. CASE GetLast(c)
  BY <1>5 DEF GetLast, TypeOK, SampleInv, HasBaseline, environment
<1>6. CASE Stamp(c)
  <2>1. status'[c].sample = now /\ \A d \in Callers : d # c => status'[d] = status[d]
    BY <1>6 DEF Stamp, TypeOK, ProcState
  <2> QED BY <1>6, <2>1 DEF Stamp, TypeOK, SampleInv, HasBaseline, environment
<1>7. CASE Fail(c)
  BY <1>7, NextPidSample, ReturnSample DEF Fail, SampleInv
<1>8. CASE Collect(c)
  <2>1. \A d \in Callers, p \in Pids :
          procMap'[d][p] # None => procMap'[d][p].sample <= now
    BY <1>8 DEF Collect, TypeOK, SampleInv
  <2> QED BY <1>8, <2>1, NextPidSample DEF Collect
<1>9. CASE SetPid(c)
  BY <1>9, ReturnSample DEF SetPid, TypeOK, SampleInv
<1>10. CASE SetMap(c)
  BY <1>10, ReturnSample DEF SetMap, SampleInv
<1> QED BY <1>1, <1>2, <1>3, <1>4, <1>5, <1>6, <1>7, <1>8, <1>9, <1>10 DEF Step

LEMMA SampleNext == TypeOK /\ SampleInv /\ [Next]_vars => SampleInv'
<1> SUFFICES ASSUME TypeOK, SampleInv, [Next]_vars PROVE SampleInv'
  OBVIOUS
<1>1. ASSUME NEW c \in Callers, StartGet(c) PROVE SampleInv'
  BY <1>1 DEF StartGet, TypeOK, SampleInv, HasBaseline, environment
<1>2. ASSUME NEW c \in Callers, NEW p \in Pids, GetOne(c, p) PROVE SampleInv'
  BY <1>2, EnterSample DEF GetOne
<1>3. ASSUME NEW c \in Callers, GetSelf(c) PROVE SampleInv'
  BY <1>2, <1>3, ProcsAssumption DEF GetSelf
<1>4. CASE UNCHANGED vars
  BY <1>4 DEF SampleInv, HasBaseline, vars
<1> QED BY <1>1, <1>2, <1>3, <1>4, SampleStep, SampleEnvironment,
          CallersAssumption DEF Next

(* However many callers there are and however they interleave, no          *)
(* percentage is divided by a negative interval.                           *)
THEOREM ElapsedCorrect == Spec => []ElapsedNonNegative
<1>1. TypeOK /\ SampleInv => ElapsedNonNegative
  BY DEF TypeOK, SampleInv, ElapsedNonNegative, HasBaseline, Elapsed, ProcState
<1> QED BY <1>1, SampleInit, SampleNext, TypeCorrect, PTL DEF Spec

-----------------------------------------------------------------------------
(* What exited is dropped.  The lemmas are about a process that is gone:   *)
(* no step of a caller reads anything of it.                               *)

LEMMA EmptyClean == \A x \in Procs : Empty.cpu # x /\ Without(NoEntries, x)
BY ProcsAssumption DEF Empty, NoEntries, Without

LEMMA ReturnClean ==
  ASSUME TypeOK, NEW c \in Callers, Return(c), NEW x \in Procs
  PROVE  Clean(c, x)'
<1>1. status'[c] = Empty /\ procMap'[c] = NoEntries
  BY DEF Return, TypeOK
<1> QED BY <1>1, EmptyClean DEF Clean

LEMMA NextPidClean ==
  ASSUME TypeOK, NEW c \in Callers, NextPid(c), NEW x \in Procs, Without(procMap'[c], x)
  PROVE  Clean(c, x)'
<1>1. status'[c] = Empty
  BY DEF NextPid, TypeOK
<1> QED BY <1>1, EmptyClean DEF Clean

(* A reading step changes no map, and measures no process that is gone. *)
LEMMA ReadClean ==
  ASSUME NEW c \in Callers, NEW x \in Procs, Clean(c, x),
         UNCHANGED procMap, status'[c].cpu # x
  PROVE  Clean(c, x)'
BY DEF Clean

LEMMA StepClean ==
  ASSUME TypeOK, NEW c \in Callers, Step(c),
         NEW x \in Procs, phase[x] = "gone", Clean(c, x)
  PROVE  Clean(c, x)'
<1>1. CASE GetListed(c)
  <2>1. PICK p \in todo[c] :
          EnterPidFill(c, p) \/ UNCHANGED <<pc, pid, status, last, procMap>>
    BY <1>1 DEF GetListed
  <2>2. CASE EnterPidFill(c, p)
    <3>1. PICK y \in LiveAt(p) : status' = [status EXCEPT ![c] = [Empty EXCEPT !.name = y]]
      BY <2>2 DEF EnterPidFill
    <3>2. status'[c] = [Empty EXCEPT !.name = y]
      BY <3>1 DEF TypeOK
    <3>3. status'[c].cpu # x
      BY <3>2, ProcsAssumption DEF Empty
    <3> QED BY <2>2, <3>3, ReadClean DEF EnterPidFill
  <2>3. CASE UNCHANGED <<pc, pid, status, last, procMap>>
    BY <2>3 DEF Clean
  <2> QED BY <2>1, <2>2, <2>3
<1>2. CASE FilterAndCache(c)
  <2>1. CASE status' = [status EXCEPT ![c] = WithCache(@, pids[pid[c]])]
    <3>1. status[c] \in ProcState
      BY DEF TypeOK
    <3>2. WithCache(status[c], pids[pid[c]]).cpu = status[c].cpu
      BY <3>1 DEF WithCache, ProcState
    <3>3. status'[c].cpu # x
      BY <2>1, <3>2 DEF TypeOK, Clean
    <3> QED BY <1>2, <3>3, ReadClean DEF FilterAndCache
  <2>2. CASE NextPid(c)
    BY <1>2, <2>2, NextPidClean DEF FilterAndCache, Clean
  <2> QED BY <1>2, <2>1, <2>2 DEF FilterAndCache
<1>3. CASE ReadCPU(c)
  <2>1. PICK y \in LiveAt(pid[c]) :
          status' = [status EXCEPT ![c].cpu = y, ![c].ticks = cpu[y]]
    BY <1>3 DEF ReadCPU
  <2>2. status[c] \in ProcState
    BY DEF TypeOK
  <2>3. status'[c].cpu = y
    BY <2>1, <2>2 DEF TypeOK, ProcState
  <2>4. y # x
    BY DEF LiveAt
  <2> QED BY <1>3, <2>3, <2>4, ReadClean DEF ReadCPU
<1>4. CASE ReadFiles(c) \/ GetLast(c) \/ Stamp(c)
  <2>1. status \in [Callers -> ProcState] /\ status[c] \in ProcState
    BY DEF TypeOK
  <2>2. ASSUME ReadFiles(c) PROVE status'[c].cpu = status[c].cpu
    BY <2>1, <2>2 DEF ReadFiles, ProcState
  <2>3. ASSUME GetLast(c) \/ Stamp(c) PROVE status'[c].cpu = status[c].cpu
    BY <2>1, <2>3 DEF GetLast, Stamp, ProcState
  <2>4. status'[c].cpu = status[c].cpu
    BY <1>4, <2>2, <2>3
  <2> QED BY <1>4, <2>4, ReadClean DEF ReadFiles, GetLast, Stamp, Clean
<1>5. CASE Fail(c)
  BY <1>5, NextPidClean, ReturnClean DEF Fail, Clean
<1>6. CASE Collect(c)
  <2>1. pid[c] \in Pids /\ procMap'[c] = [procMap[c] EXCEPT ![pid[c]] = status[c]]
    BY <1>6 DEF Collect, TypeOK
  <2>2. procMap[c] \in [Pids -> ProcState \cup {None}]
    BY DEF TypeOK
  <2>3. Without(procMap'[c], x)
    BY <2>1, <2>2 DEF Without, Clean
  <2> QED BY <1>6, <2>3, NextPidClean DEF Collect
<1>7. CASE SetPid(c) \/ SetMap(c)
  BY <1>7, ReturnClean DEF SetPid, SetMap
<1> QED BY <1>1, <1>2, <1>3, <1>4, <1>5, <1>6, <1>7 DEF Step

(* A caller changes no locals but its own. *)
LEMMA OthersUnchanged ==
  ASSUME TypeOK, NEW c \in Callers, Step(c), NEW d \in Callers, d # c
  PROVE  procMap'[d] = procMap[d] /\ status'[d] = status[d]
BY DEF TypeOK, Step, GetListed, EnterPidFill, FilterAndCache, ReadCPU, ReadFiles, GetLast,
       Stamp, Fail, Collect, SetPid, SetMap, NextPid, Return

LEMMA StepTracks ==
  ASSUME TypeOK, NEW c \in Callers, Step(c), NEW x \in Procs, Clean(c, x)
  PROVE  /\ Without(pids, x) => Without(pids', x)
         /\ SetMap(c) => Without(pids', x)
<1>1. CASE SetPid(c)
  <2>1. pids' = [pids EXCEPT ![pid[c]] = status[c]]
    BY <1>1 DEF SetPid
  <2>2. Without(pids, x) => Without(pids', x)
    BY <2>1 DEF Without, Clean, TypeOK
  <2> QED BY <1>1, <2>2 DEF SetPid, SetMap
<1>2. CASE SetMap(c)
  BY <1>2 DEF SetMap, Clean
<1>3. CASE ~SetPid(c) /\ ~SetMap(c)
  <2>1. pids' = pids
    BY <1>3 DEF Step, GetListed, FilterAndCache, ReadCPU, ReadFiles, GetLast, Stamp, Fail,
                Collect
  <2> QED BY <1>3, <2>1
<1> QED BY <1>1, <1>2, <1>3

LEMMA GoneStep ==
  ASSUME TypeOK, [Next]_vars, NEW x \in Procs, phase[x] = "gone"
  PROVE  /\ phase'[x] = "gone"
         /\ \A c \in Callers : Clean(c, x) =>
              Clean(c, x)' /\ (SetMap(c) => Without(pids', x))
         /\ Without(pids, x) /\ (\A c \in Callers : Clean(c, x)) => Without(pids', x)
<1>1. ASSUME NEW d \in Callers, Step(d)
      PROVE  /\ phase' = phase
             /\ \A c \in Callers : Clean(c, x) => Clean(c, x)'
             /\ Without(pids, x) /\ Clean(d, x) => Without(pids', x)
  <2>1. phase' = phase
    BY <1>1 DEF Step, GetListed, FilterAndCache, ReadCPU, ReadFiles, GetLast, Stamp, Fail,
                Collect, SetPid, SetMap, environment
  <2>2. ASSUME NEW c \in Callers, Clean(c, x) PROVE Clean(c, x)'
    <3>1. CASE c = d
      BY <1>1, <2>2, <3>1, StepClean
    <3>2. CASE c # d
      BY <1>1, <2>2, <3>2, OthersUnchanged DEF Clean
    <3> QED BY <3>1, <3>2
  <2> QED BY <1>1, <2>1, <2>2, StepTracks
<1>2. ASSUME UNCHANGED <<pids, status, procMap>>, phase'[x] = "gone"
      PROVE  /\ phase'[x] = "gone"
             /\ \A c \in Callers : Clean(c, x) => Clean(c, x)'
             /\ Without(pids, x) => Without(pids', x)
  BY <1>2 DEF Clean
<1>3. ASSUME NEW c \in Callers, SetMap(c), Clean(c, x) PROVE Without(pids', x)
  BY <1>3 DEF SetMap, Clean
<1>4. ASSUME NEW y \in Procs, Start(y) \/ Exit(y)
      PROVE  UNCHANGED <<pids, status, procMap>> /\ phase'[x] = "gone"
  BY <1>4 DEF Start, Exit, locals, TypeOK
<1>5. CASE Tick \/ (\E c \in Collectors : StartGet(c)) \/ UNCHANGED vars
  <2>1. UNCHANGED <<pids, status, procMap>> /\ phase'[x] = "gone"
    BY <1>5 DEF Tick, StartGet, vars, locals, environment
  <2> QED BY <1>2, <1>3, <2>1
<1>6. ASSUME NEW d \in Callers, NEW p \in Pids, GetOne(d, p)
      PROVE  /\ phase'[x] = "gone" /\ pids' = pids
             /\ \A c \in Callers : Clean(c, x) => Clean(c, x)'
  <2>1. UNCHANGED <<phase, pids, procMap>>
    BY <1>6 DEF GetOne, EnterPidFill, environment
  <2>2. \A c \in Callers : status'[c] = status[c] \/ status'[c].cpu = None
    BY <1>6 DEF GetOne, EnterPidFill, TypeOK, Empty
  <2> QED BY <2>1, <2>2, ProcsAssumption DEF Clean
<1> QED BY <1>1, <1>2, <1>3, <1>4, <1>5, <1>6, CallersAssumption, ProcsAssumption
        DEF Next, GetSelf

(* What a caller has at hand shows nothing of x. *)
Blind(c, x) == Unseen(procMap[c], x) /\ ~Shows(status[c], x)

LEMMA EmptyBlind == \A x \in Procs : ~Shows(Empty, x) /\ Unseen(NoEntries, x)
BY ProcsAssumption DEF Empty, NoEntries, Shows, Unseen

LEMMA ReturnBlind ==
  ASSUME TypeOK, NEW c \in Callers, Return(c), NEW x \in Procs
  PROVE  Blind(c, x)'
<1>1. status'[c] = Empty /\ procMap'[c] = NoEntries
  BY DEF Return, TypeOK
<1> QED BY <1>1, EmptyBlind DEF Blind

LEMMA NextPidBlind ==
  ASSUME TypeOK, NEW c \in Callers, NextPid(c), NEW x \in Procs, Unseen(procMap'[c], x)
  PROVE  Blind(c, x)'
<1>1. status'[c] = Empty
  BY DEF NextPid, TypeOK
<1> QED BY <1>1, EmptyBlind DEF Blind

(* A step of a caller reads no file of a process that is gone, and takes   *)
(* nothing from a tracked map that shows nothing of it.                    *)
LEMMA StepBlind ==
  ASSUME TypeOK, NEW c \in Callers, Step(c), NEW x \in Procs, phase[x] = "gone",
         Unseen(pids, x), Blind(c, x)
  PROVE  Blind(c, x)'
<1>0. status[c] \in ProcState /\ pids[pid[c]] \in ProcState \cup {None}
  BY DEF TypeOK
<1>1. CASE GetListed(c)
  <2>1. PICK p \in todo[c] :
          EnterPidFill(c, p) \/ UNCHANGED <<pc, pid, status, last, procMap>>
    BY <1>1 DEF GetListed
  <2>2. CASE EnterPidFill(c, p)
    <3>1. PICK y \in LiveAt(p) : status' = [status EXCEPT ![c] = [Empty EXCEPT !.name = y]]
      BY <2>2 DEF EnterPidFill
    <3>2. status'[c] = [Empty EXCEPT !.name = y] /\ y # x /\ x # None
      BY <3>1, ProcsAssumption DEF TypeOK, LiveAt
    <3>3. ~Shows(status'[c], x)
      BY <3>2 DEF Empty, Shows
    <3> QED BY <2>2, <3>3 DEF EnterPidFill, Blind
  <2>3. CASE UNCHANGED <<pc, pid, status, last, procMap>>
    BY <2>3 DEF Blind
  <2> QED BY <2>1, <2>2, <2>3
<1>2. CASE FilterAndCache(c)
  <2>1. CASE status' = [status EXCEPT ![c] = WithCache(@, pids[pid[c]])]
    <3>1. pids[pid[c]] # None => ~Shows(pids[pid[c]], x)
      BY DEF Unseen, TypeOK
    <3>2. ~Shows(WithCache(status[c], pids[pid[c]]), x)
      BY <1>0, <3>1 DEF WithCache, Shows, Blind, ProcState
    <3>3. status'[c] = WithCache(status[c], pids[pid[c]])
      BY <2>1 DEF TypeOK
    <3> QED BY <1>2, <3>2, <3>3 DEF FilterAndCache, Blind
  <2>2. CASE NextPid(c)
    BY <1>2, <2>2, NextPidBlind DEF FilterAndCache, Blind
  <2> QED BY <1>2, <2>1, <2>2 DEF FilterAndCache
<1>3. CASE ReadCPU(c)
  <2>1. PICK y \in LiveAt(pid[c]) :
          status' = [status EXCEPT ![c].cpu = y, ![c].ticks = cpu[y]]
    BY <1>3 DEF ReadCPU
  <2>2. y # x
    BY DEF LiveAt
  <2>3. status'[c] = [status[c] EXCEPT !.cpu = y, !.ticks = cpu[y]]
    BY <2>1 DEF TypeOK
  <2>4. ~Shows(status'[c], x)
    BY <1>0, <2>2, <2>3 DEF Shows, Blind, ProcState
  <2> QED BY <1>3, <2>4 DEF ReadCPU, Blind
<1>4. CASE ReadFiles(c)
  <2>1. PICK y \in LiveAt(pid[c]), e \in {TRUE, FALSE} :
          status' = [status EXCEPT
            ![c].args = IF @ = None /\ y \notin KernelThreads THEN y ELSE @,
            ![c].env = IF @ = None /\ e THEN y ELSE @]
    BY <1>4 DEF ReadFiles
  <2>2. y # x
    BY DEF LiveAt
  <2>3. status'[c] \in [name : {status[c].name}, args : {status[c].args, y},
                        env : {status[c].env, y}, cpu : {status[c].cpu},
                        ticks : Nat, sample : Nat]
    BY <1>0, <2>1 DEF TypeOK, ProcState
  <2>4. ~Shows(status'[c], x)
    BY <2>2, <2>3 DEF Shows, Blind
  <2> QED BY <1>4, <2>4 DEF ReadFiles, Blind
<1>5. CASE GetLast(c)
  BY <1>5 DEF GetLast, Blind
<1>6. CASE Stamp(c)
  <2>1. status'[c] = [status[c] EXCEPT !.sample = now]
    BY <1>6 DEF Stamp, TypeOK
  <2>2. ~Shows(status'[c], x)
    BY <1>0, <2>1 DEF Shows, Blind, ProcState
  <2> QED BY <1>6, <2>2 DEF Stamp, Blind
<1>7. CASE Fail(c)
  BY <1>7, NextPidBlind, ReturnBlind DEF Fail, Blind
<1>8. CASE Collect(c)
  <2>1. pid[c] \in Pids /\ procMap'[c] = [procMap[c] EXCEPT ![pid[c]] = status[c]]
    BY <1>8 DEF Collect, TypeOK
  <2>2. procMap[c] \in [Pids -> ProcState \cup {None}]
    BY DEF TypeOK
  <2>3. Unseen(procMap'[c], x)
    BY <2>1, <2>2 DEF Unseen, Blind
  <2> QED BY <1>8, <2>3, NextPidBlind DEF Collect
<1>9. CASE SetPid(c) \/ SetMap(c)
  BY <1>9, ReturnBlind DEF SetPid, SetMap
<1> QED BY <1>1, <1>2, <1>3, <1>4, <1>5, <1>6, <1>7, <1>8, <1>9 DEF Step

LEMMA StepUnseen ==
  ASSUME TypeOK, NEW c \in Callers, Step(c), NEW x \in Procs, Blind(c, x), Unseen(pids, x)
  PROVE  Unseen(pids', x)
<1>1. CASE SetPid(c)
  <2>1. pids' = [pids EXCEPT ![pid[c]] = status[c]]
    BY <1>1 DEF SetPid
  <2> QED BY <2>1 DEF Unseen, Blind, TypeOK
<1>2. CASE SetMap(c)
  BY <1>2 DEF SetMap, Blind
<1>3. CASE ~SetPid(c) /\ ~SetMap(c)
  <2>1. pids' = pids
    BY <1>3 DEF Step, GetListed, FilterAndCache, ReadCPU, ReadFiles, GetLast, Stamp, Fail,
                Collect
  <2> QED BY <2>1
<1> QED BY <1>1, <1>2, <1>3

LEMMA ErasedStep ==
  ASSUME TypeOK, [Next]_vars, NEW x \in Procs, phase[x] = "gone", Erased(x)
  PROVE  Erased(x)'
<1>0. Unseen(pids, x) /\ \A c \in Callers : Blind(c, x)
  BY DEF Erased, Blind
<1> SUFFICES Unseen(pids', x) /\ \A c \in Callers : Blind(c, x)'
  BY DEF Erased, Blind
<1>1. ASSUME NEW d \in Callers, Step(d)
      PROVE  Unseen(pids', x) /\ \A c \in Callers : Blind(c, x)'
  <2>1. ASSUME NEW c \in Callers, c # d PROVE Blind(c, x)'
    BY <1>0, <1>1, <2>1, OthersUnchanged DEF Blind
  <2>2. Blind(d, x)'
    BY <1>0, <1>1, StepBlind
  <2>3. Unseen(pids', x)
    BY <1>0, <1>1, StepUnseen
  <2> QED BY <2>1, <2>2, <2>3
<1>2. ASSUME UNCHANGED <<pids, status, procMap>>
      PROVE  Unseen(pids', x) /\ \A c \in Callers : Blind(c, x)'
  BY <1>0, <1>2 DEF Blind
<1>3. ASSUME NEW y \in Procs, Start(y) \/ Exit(y)
      PROVE  UNCHANGED <<pids, status, procMap>>
  BY <1>3 DEF Start, Exit, locals
<1>4. CASE Tick \/ (\E c \in Collectors : StartGet(c)) \/ UNCHANGED vars
  <2>1. UNCHANGED <<pids, status, procMap>>
    BY <1>4 DEF Tick, StartGet, vars, locals
  <2> QED BY <1>2, <2>1
<1>5. ASSUME NEW d \in Callers, NEW p \in Pids, GetOne(d, p)
      PROVE  Unseen(pids', x) /\ \A c \in Callers : Blind(c, x)'
  <2>1. PICK y \in LiveAt(p) :
          /\ status' = [status EXCEPT ![d] = [Empty EXCEPT !.name = y]]
          /\ UNCHANGED <<pids, procMap>>
    BY <1>5 DEF GetOne, EnterPidFill
  <2>2. y # x /\ x # None
    BY ProcsAssumption DEF LiveAt
  <2>3. ~Shows([Empty EXCEPT !.name = y], x)
    BY <2>2 DEF Empty, Shows
  <2>4. \A c \in Callers : ~Shows(status'[c], x)
    BY <1>0, <2>1, <2>3 DEF TypeOK, Blind
  <2> QED BY <1>0, <2>1, <2>4 DEF Blind
<1> QED BY <1>1, <1>2, <1>3, <1>4, <1>5, CallersAssumption, ProcsAssumption
        DEF Next, GetSelf

(* With any number of callers and any reuse of pids, a Get that has        *)
(* measured nothing of a process that exited drops it, and no call brings  *)
(* back what neither the map nor a call has.                               *)
THEOREM DroppedCorrect == Spec => GoneIsDropped
<1>1. TypeOK /\ [Next]_vars =>
        [\A x \in Procs : phase[x] = "gone" =>
           /\ phase'[x] = "gone"
           /\ \A c \in Callers : Clean(c, x) =>
                Clean(c, x)' /\ (SetMap(c) => Without(pids', x))
           /\ Without(pids, x) /\ (\A c \in Callers : Clean(c, x)) =>
                Without(pids', x)
           /\ Erased(x) => Erased(x)']_vars
  BY GoneStep, ErasedStep
<1> QED BY <1>1, TypeCorrect, PTL DEF Spec, GoneIsDropped

(* A process that exited, and of which no tracked entry and no call shows  *)
(* anything, its arguments and environment included, stays forgotten, also *)
(* when its pid is reused.                                                 *)
Forgotten(x) == phase[x] = "gone" /\ Erased(x)

THEOREM ForgottenForGood ==
  ASSUME NEW x \in Procs
  PROVE  Spec => [](Forgotten(x) => []Forgotten(x))
<1>1. TypeOK /\ Forgotten(x) /\ [Next]_vars => Forgotten(x)'
  BY GoneStep, ErasedStep DEF Forgotten
<1> QED BY <1>1, TypeCorrect, PTL DEF Spec

-----------------------------------------------------------------------------
(* Whose data it is *)

NoPidReuse == \A x, y \in Procs : PidOf[x] = PidOf[y] => x = y

Measured == {"files", "last", "stamp", "filled"}

(* Whatever ps holds was read from the files of p. *)
ReadFrom(ps, p) ==
  \A x \in {ps.name, ps.args, ps.env, ps.cpu} : x # None => PidOf[x] = p

Complete(ps, p) == ReadFrom(ps, p) /\ ps.cpu # None

(* Entries are kept under the pid that they were read for. *)
OwnerInv ==
  /\ \A p \in Pids : pids[p] # None => Complete(pids[p], p)
  /\ \A c \in Callers :
       /\ \A p \in Pids : procMap[c][p] # None => Complete(procMap[c][p], p)
       /\ last[c] # None => Complete(last[c], pid[c])
       /\ ReadFrom(status[c], pid[c])
       /\ pc[c] \in Measured => status[c].cpu # None

LEMMA EmptyRead == \A p \in Pids : ReadFrom(Empty, p)
BY DEF Empty, ReadFrom

LEMMA OwnerInit == Init => OwnerInv
BY EmptyRead, ProcsAssumption DEF Init, OwnerInv, NoEntries, Measured

LEMMA EnterOwner ==
  ASSUME TypeOK, OwnerInv, NEW c \in Callers, NEW p \in Pids,
         EnterPidFill(c, p), UNCHANGED <<environment, pids>>
  PROVE  OwnerInv'
<1>1. PICK x \in LiveAt(p) :
        /\ pc' = [pc EXCEPT ![c] = "cache"]
        /\ pid' = [pid EXCEPT ![c] = p]
        /\ status' = [status EXCEPT ![c] = [Empty EXCEPT !.name = x]]
        /\ last' = [last EXCEPT ![c] = None]
        /\ procMap' = procMap
  BY DEF EnterPidFill
<1>2. ReadFrom([Empty EXCEPT !.name = x], p)
  BY <1>1 DEF Empty, ReadFrom, LiveAt
<1> QED BY <1>1, <1>2 DEF TypeOK, OwnerInv, Measured, environment

LEMMA NextPidOwner ==
  ASSUME TypeOK, OwnerInv, NEW c \in Callers, NextPid(c),
         UNCHANGED <<environment, pids>>,
         \A d \in Callers, p \in Pids :
           procMap'[d][p] # None => Complete(procMap'[d][p], p)
  PROVE  OwnerInv'
BY EmptyRead, ProcsAssumption DEF NextPid, TypeOK, OwnerInv, Measured, environment

LEMMA ReturnOwner ==
  ASSUME TypeOK, OwnerInv, NEW c \in Callers, Return(c), UNCHANGED environment,
         \A p \in Pids : pids'[p] # None => Complete(pids'[p], p)
  PROVE  OwnerInv'
BY EmptyRead, ProcsAssumption
   DEF Return, NoEntries, TypeOK, OwnerInv, Measured, environment

LEMMA OwnerStep ==
  ASSUME TypeOK, OwnerInv, NEW c \in Callers, Step(c)
  PROVE  OwnerInv'
<1>0. pids[pid[c]] \in ProcState \cup {None} /\ status[c] \in ProcState
  BY DEF TypeOK
<1>1. CASE GetListed(c)
  <2>1. ASSUME NEW p \in todo[c], EnterPidFill(c, p) PROVE OwnerInv'
    BY <1>1, <2>1, EnterOwner DEF GetListed, TypeOK
  <2>2. CASE UNCHANGED <<pc, pid, status, last, procMap>>
    BY <1>1, <2>2 DEF GetListed, OwnerInv, environment
  <2> QED BY <1>1, <2>1, <2>2 DEF GetListed
<1>2. CASE FilterAndCache(c)
  <2>1. CASE NextPid(c)
    BY <1>2, <2>1, NextPidOwner DEF FilterAndCache, OwnerInv
  <2>2. CASE /\ status' = [status EXCEPT ![c] = WithCache(@, pids[pid[c]])]
             /\ pc' = [pc EXCEPT ![c] = "cpu"]
             /\ UNCHANGED <<op, todo, pid, last>>
    <3>1. ReadFrom(status[c], pid[c])
      BY DEF OwnerInv
    <3>2. pids[pid[c]] # None => ReadFrom(pids[pid[c]], pid[c])
      BY DEF OwnerInv, TypeOK, Complete
    <3>3. ReadFrom(WithCache(status[c], pids[pid[c]]), pid[c])
      BY <1>0, <3>1, <3>2 DEF WithCache, ReadFrom, ProcState
    <3> QED BY <1>2, <2>2, <3>3
            DEF FilterAndCache, TypeOK, OwnerInv, Measured, environment
  <2> QED BY <1>2, <2>1, <2>2 DEF FilterAndCache
<1>3. CASE ReadCPU(c)
  <2>1. PICK x \in LiveAt(pid[c]) :
          status' = [status EXCEPT ![c].cpu = x, ![c].ticks = cpu[x]]
    BY <1>3 DEF ReadCPU
  <2>2. x # None /\ PidOf[x] = pid[c]
    BY ProcsAssumption DEF LiveAt
  <2>3. ReadFrom(status'[c], pid[c]) /\ status'[c].cpu # None
    <3>1. status'[c] = [status[c] EXCEPT !.cpu = x, !.ticks = cpu[x]]
      BY <2>1 DEF TypeOK
    <3>2. ReadFrom(status[c], pid[c])
      BY DEF OwnerInv
    <3> QED BY <1>0, <2>2, <3>1, <3>2 DEF ReadFrom, ProcState
  <2> QED BY <1>3, <2>1, <2>3 DEF ReadCPU, TypeOK, OwnerInv, Measured, environment
<1>4. CASE ReadFiles(c)
  <2>1. PICK x \in LiveAt(pid[c]), e \in {TRUE, FALSE} :
          status' = [status EXCEPT
            ![c].args = IF @ = None /\ x \notin KernelThreads THEN x ELSE @,
            ![c].env = IF @ = None /\ e THEN x ELSE @]
    BY <1>4 DEF ReadFiles
  <2>2. PidOf[x] = pid[c]
    BY DEF LiveAt
  <2>3. ReadFrom(status'[c], pid[c]) /\ status'[c].cpu = status[c].cpu
    <3>1. /\ status'[c].args \in {status[c].args, x}
          /\ status'[c].env \in {status[c].env, x}
          /\ status'[c].name = status[c].name
          /\ status'[c].cpu = status[c].cpu
      BY <1>0, <2>1 DEF TypeOK, ProcState
    <3>2. ReadFrom(status[c], pid[c])
      BY DEF OwnerInv
    <3> QED BY <2>2, <3>1, <3>2 DEF ReadFrom
  <2> QED BY <1>4, <2>1, <2>3 DEF ReadFiles, TypeOK, OwnerInv, Measured, environment
<1>5. CASE GetLast(c)
  BY <1>5 DEF GetLast, TypeOK, OwnerInv, Measured, environment
<1>6. CASE Stamp(c)
  <2>1. ReadFrom(status'[c], pid[c]) /\ status'[c].cpu = status[c].cpu
    BY <1>0, <1>6 DEF Stamp, TypeOK, OwnerInv, ReadFrom, ProcState
  <2> QED BY <1>6, <2>1 DEF Stamp, TypeOK, OwnerInv, Measured, environment
<1>7. CASE Fail(c)
  BY <1>7, NextPidOwner, ReturnOwner DEF Fail, OwnerInv
<1>8. CASE Collect(c)
  <2>1. Complete(status[c], pid[c])
    BY <1>8 DEF Collect, OwnerInv, Complete, Measured
  <2>2. \A d \in Callers, p \in Pids :
          procMap'[d][p] # None => Complete(procMap'[d][p], p)
    BY <1>8, <2>1 DEF Collect, TypeOK, OwnerInv
  <2> QED BY <1>8, <2>2, NextPidOwner DEF Collect
<1>9. CASE SetPid(c)
  <2>1. Complete(status[c], pid[c])
    BY <1>9 DEF SetPid, OwnerInv, Complete, Measured
  <2> QED BY <1>9, <2>1, ReturnOwner DEF SetPid, TypeOK, OwnerInv
<1>10. CASE SetMap(c)
  BY <1>10, ReturnOwner DEF SetMap, OwnerInv
<1> QED BY <1>1, <1>2, <1>3, <1>4, <1>5, <1>6, <1>7, <1>8, <1>9, <1>10 DEF Step

LEMMA OwnerNext == TypeOK /\ OwnerInv /\ [Next]_vars => OwnerInv'
<1> SUFFICES ASSUME TypeOK, OwnerInv, [Next]_vars PROVE OwnerInv'
  OBVIOUS
<1>1. ASSUME NEW c \in Callers, StartGet(c) PROVE OwnerInv'
  BY <1>1 DEF StartGet, TypeOK, OwnerInv, Measured, environment
<1>2. ASSUME NEW c \in Callers, NEW p \in Pids, GetOne(c, p) PROVE OwnerInv'
  BY <1>2, EnterOwner DEF GetOne
<1>3. ASSUME NEW c \in Callers, GetSelf(c) PROVE OwnerInv'
  BY <1>2, <1>3, ProcsAssumption DEF GetSelf
<1>4. CASE UNCHANGED <<pids, locals>>
  BY <1>4 DEF OwnerInv, locals
<1> QED BY <1>1, <1>2, <1>3, <1>4, OwnerStep, CallersAssumption
        DEF Next, Start, Exit, Tick, vars, locals

-----------------------------------------------------------------------------
(* The loop of FetchPids looks at each listed pid once *)

Filling == Measured \cup {"cache", "cpu"}

LoopInv ==
  \A c \in Callers :
    /\ pc[c] \in Filling => pid[c] \notin todo[c] /\ procMap[c][pid[c]] = None
    /\ \A p \in todo[c] : procMap[c][p] = None
    /\ pc[c] = "idle" => procMap[c] = NoEntries /\ todo[c] = {}
    /\ op[c] = "GetOne" => procMap[c] = NoEntries

LEMMA LoopInit == Init => LoopInv
BY DEF Init, LoopInv, NoEntries, Filling, Measured

LEMMA NoEntriesAt == \A p \in Pids : NoEntries[p] = None
BY DEF NoEntries

LEMMA LoopStep ==
  ASSUME TypeOK, LoopInv, NEW c \in Callers, Step(c)
  PROVE  LoopInv'
<1>1. CASE GetListed(c)
  <2>1. PICK p \in todo[c] :
          /\ todo' = [todo EXCEPT ![c] = @ \ {p}]
          /\ \/ EnterPidFill(c, p)
             \/ LiveAt(p) = {} /\ UNCHANGED <<pc, pid, status, last, procMap>>
    BY <1>1 DEF GetListed
  <2>2. CASE EnterPidFill(c, p)
    BY <1>1, <2>1, <2>2
       DEF GetListed, EnterPidFill, TypeOK, LoopInv, Filling, Measured
  <2>3. CASE UNCHANGED <<pc, pid, status, last, procMap>>
    BY <1>1, <2>1, <2>3
       DEF GetListed, TypeOK, LoopInv, Filling, Measured
  <2> QED BY <2>1, <2>2, <2>3
<1>2. CASE FilterAndCache(c)
  BY <1>2 DEF FilterAndCache, NextPid, TypeOK, LoopInv, Filling, Measured
<1>3. CASE ReadCPU(c)
  BY <1>3 DEF ReadCPU, TypeOK, LoopInv, Filling, Measured
<1>4. CASE ReadFiles(c)
  BY <1>4 DEF ReadFiles, TypeOK, LoopInv, Filling, Measured
<1>5. CASE GetLast(c)
  BY <1>5 DEF GetLast, TypeOK, LoopInv, Filling, Measured
<1>6. CASE Stamp(c)
  BY <1>6 DEF Stamp, TypeOK, LoopInv, Filling, Measured
<1>7. CASE Fail(c)
  <2>1. CASE NextPid(c) /\ UNCHANGED procMap
    BY <1>7, <2>1 DEF Fail, NextPid, TypeOK, LoopInv, Filling, Measured
  <2>2. CASE Return(c)
    BY <1>7, <2>2, NoEntriesAt DEF Return, TypeOK, LoopInv, Filling, Measured
  <2> QED BY <1>7, <2>1, <2>2 DEF Fail
<1>8. CASE Collect(c)
  BY <1>8 DEF Collect, NextPid, TypeOK, LoopInv, Filling, Measured
<1>9. CASE SetPid(c)
  BY <1>9, NoEntriesAt DEF SetPid, Return, TypeOK, LoopInv, Filling, Measured
<1>10. CASE SetMap(c)
  BY <1>10, NoEntriesAt DEF SetMap, Return, TypeOK, LoopInv, Filling, Measured
<1> QED BY <1>1, <1>2, <1>3, <1>4, <1>5, <1>6, <1>7, <1>8, <1>9, <1>10 DEF Step

LEMMA LoopNext == TypeOK /\ LoopInv /\ [Next]_vars => LoopInv'
<1> SUFFICES ASSUME TypeOK, LoopInv, [Next]_vars PROVE LoopInv'
  OBVIOUS
<1>1. ASSUME NEW c \in Callers, StartGet(c) PROVE LoopInv'
  BY <1>1, NoEntriesAt DEF StartGet, TypeOK, LoopInv, Filling, Measured
<1>2. ASSUME NEW c \in Callers, NEW p \in Pids, GetOne(c, p) PROVE LoopInv'
  BY <1>2, NoEntriesAt
     DEF GetOne, EnterPidFill, TypeOK, LoopInv, Filling, Measured
<1>3. ASSUME NEW c \in Callers, GetSelf(c) PROVE LoopInv'
  BY <1>2, <1>3, ProcsAssumption DEF GetSelf
<1>4. CASE UNCHANGED locals
  BY <1>4 DEF LoopInv, locals
<1> QED BY <1>1, <1>2, <1>3, <1>4, LoopStep, CallersAssumption
        DEF Next, Start, Exit, Tick, vars, locals

-----------------------------------------------------------------------------
(* CPU time that was read is never more than what has been used *)

Past(ps) == ps.cpu # None => ps.ticks <= cpu[ps.cpu]

TicksInv ==
  /\ \A p \in Pids : pids[p] # None => Past(pids[p])
  /\ \A c \in Callers :
       /\ \A p \in Pids : procMap[c][p] # None => Past(procMap[c][p])
       /\ Past(status[c])

LEMMA TicksInit == Init => TicksInv
BY DEF Init, TicksInv, Past, NoEntries, Empty

LEMMA TicksEnvironment ==
  ASSUME TypeOK, TicksInv, UNCHANGED <<pids, locals>>,
         cpu' \in [Procs -> Nat], \A x \in Procs : cpu[x] <= cpu'[x]
  PROVE  TicksInv'
<1>1. ASSUME NEW ps \in ProcState, Past(ps)
      PROVE  ps.cpu # None => ps.ticks <= cpu'[ps.cpu]
  BY <1>1 DEF Past, ProcState, TypeOK
<1>2. /\ pids' = pids /\ procMap' = procMap /\ status' = status
      /\ pids \in [Pids -> ProcState \cup {None}]
      /\ procMap \in [Callers -> [Pids -> ProcState \cup {None}]]
      /\ status \in [Callers -> ProcState]
  BY DEF TypeOK, locals
<1>3. /\ \A p \in Pids : (pids[p] # None => Past(pids[p]))'
      /\ \A c \in Callers : \A p \in Pids : (procMap[c][p] # None => Past(procMap[c][p]))'
      /\ \A c \in Callers : Past(status[c])'
  BY <1>1, <1>2 DEF TicksInv, Past
<1> QED BY <1>3 DEF TicksInv

LEMMA TicksStep ==
  ASSUME TypeOK, TicksInv, NEW c \in Callers, Step(c)
  PROVE  TicksInv'
<1>0. status[c] \in ProcState /\ Past(status[c]) /\ Past(Empty)
  BY DEF TypeOK, TicksInv, Past, Empty
<1>. DEFINE Keeps(ps) == ps.ticks = status[c].ticks /\ ps.cpu = status[c].cpu
<1>a. ASSUME UNCHANGED <<environment, pids, procMap>>,
             NEW ps, Past(ps), status' = [status EXCEPT ![c] = ps]
      PROVE  TicksInv'
  BY <1>a DEF TypeOK, TicksInv, Past, environment
<1>b. ASSUME NEW ps, Keeps(ps) PROVE Past(ps)
  BY <1>0, <1>b DEF Past
<1>1. CASE GetListed(c)
  <2>1. ASSUME NEW p \in todo[c], EnterPidFill(c, p) PROVE TicksInv'
    <3>1. PICK x \in LiveAt(p) :
            /\ status' = [status EXCEPT ![c] = [Empty EXCEPT !.name = x]]
            /\ procMap' = procMap
      BY <2>1 DEF EnterPidFill
    <3>2. Past([Empty EXCEPT !.name = x])
      BY DEF Past, Empty
    <3> QED BY <1>1, <1>a, <3>1, <3>2 DEF GetListed
  <2>2. CASE UNCHANGED <<status, procMap>>
    BY <1>1, <2>2 DEF GetListed, TicksInv, Past, environment
  <2> QED BY <1>1, <2>1, <2>2 DEF GetListed
<1>2. CASE FilterAndCache(c)
  <2>1. CASE NextPid(c)
    BY <1>0, <1>2, <1>a, <2>1 DEF FilterAndCache, NextPid
  <2>2. CASE status' = [status EXCEPT ![c] = WithCache(@, pids[pid[c]])]
    <3>1. Keeps(WithCache(status[c], pids[pid[c]]))
      BY <1>0 DEF WithCache, ProcState
    <3> QED BY <1>2, <1>a, <1>b, <2>2, <3>1 DEF FilterAndCache, TypeOK
  <2> QED BY <1>2, <2>1, <2>2 DEF FilterAndCache
<1>3. CASE ReadCPU(c)
  <2>1. PICK x \in LiveAt(pid[c]) :
          status' = [status EXCEPT ![c].cpu = x, ![c].ticks = cpu[x]]
    BY <1>3 DEF ReadCPU
  <2>2. x \in Procs /\ cpu[x] \in Nat
    BY DEF LiveAt, TypeOK
  <2>. DEFINE ps == [status[c] EXCEPT !.cpu = x, !.ticks = cpu[x]]
  <2>3. status' = [status EXCEPT ![c] = ps]
    BY <1>0, <2>1 DEF TypeOK
  <2>4. Past(ps)
    BY <1>0, <2>2 DEF Past, ProcState
  <2>5. UNCHANGED <<environment, pids, procMap>>
    BY <1>3 DEF ReadCPU
  <2> HIDE DEF ps
  <2> QED BY <1>a, <2>3, <2>4, <2>5
<1>4. CASE ReadFiles(c)
  <2>1. status'[c].ticks = status[c].ticks /\ status'[c].cpu = status[c].cpu
    BY <1>0, <1>4 DEF ReadFiles, TypeOK, ProcState
  <2>2. \A d \in Callers : d # c => status'[d] = status[d]
    BY <1>4 DEF ReadFiles, TypeOK
  <2> QED BY <1>0, <1>4, <2>1, <2>2 DEF ReadFiles, TicksInv, Past, environment
<1>5. CASE GetLast(c)
  BY <1>5 DEF GetLast, TicksInv, Past, environment
<1>6. CASE Stamp(c)
  <2>1. status'[c].ticks = status[c].ticks /\ status'[c].cpu = status[c].cpu
    BY <1>0, <1>6 DEF Stamp, TypeOK, ProcState
  <2>2. \A d \in Callers : d # c => status'[d] = status[d]
    BY <1>6 DEF Stamp, TypeOK
  <2> QED BY <1>0, <1>6, <2>1, <2>2 DEF Stamp, TicksInv, Past, environment
<1>7. CASE Fail(c)
  <2>1. CASE NextPid(c) /\ UNCHANGED procMap
    BY <1>0, <1>7, <1>a, <2>1 DEF Fail, NextPid
  <2>2. CASE Return(c)
    BY <1>0, <1>7, <2>2, NoEntriesAt DEF Fail, Return, TypeOK, TicksInv, Past, environment
  <2> QED BY <1>7, <2>1, <2>2 DEF Fail
<1>8. CASE Collect(c)
  BY <1>0, <1>8 DEF Collect, NextPid, TypeOK, TicksInv, Past, environment
<1>9. CASE SetPid(c)
  BY <1>0, <1>9, NoEntriesAt
     DEF SetPid, Return, TypeOK, TicksInv, Past, environment
<1>10. CASE SetMap(c)
  BY <1>0, <1>10, NoEntriesAt
     DEF SetMap, Return, TypeOK, TicksInv, Past, environment
<1> QED BY <1>1, <1>2, <1>3, <1>4, <1>5, <1>6, <1>7, <1>8, <1>9, <1>10 DEF Step

LEMMA TicksNext == TypeOK /\ TicksInv /\ [Next]_vars => TicksInv'
<1> SUFFICES ASSUME TypeOK, TicksInv, [Next]_vars PROVE TicksInv'
  OBVIOUS
<1>1. ASSUME NEW c \in Callers, StartGet(c) PROVE TicksInv'
  BY <1>1 DEF StartGet, TicksInv, Past, environment
<1>2. ASSUME NEW c \in Callers, NEW p \in Pids, GetOne(c, p) PROVE TicksInv'
  <2>1. PICK x \in LiveAt(p) :
          /\ status' = [status EXCEPT ![c] = [Empty EXCEPT !.name = x]]
          /\ procMap' = procMap
    BY <1>2 DEF GetOne, EnterPidFill
  <2>2. Past([Empty EXCEPT !.name = x])
    BY DEF Past, Empty
  <2> QED BY <1>2, <2>1, <2>2 DEF GetOne, TypeOK, TicksInv, Past, environment
<1>3. ASSUME NEW c \in Callers, GetSelf(c) PROVE TicksInv'
  BY <1>2, <1>3, ProcsAssumption DEF GetSelf
<1>4. CASE Tick
  <2>1. cpu' \in [Procs -> Nat] /\ \A x \in Procs : cpu[x] <= cpu'[x]
    BY <1>4, BoundsAssumption DEF Tick, TypeOK
  <2> QED BY <1>4, <2>1, TicksEnvironment DEF Tick
<1>5. CASE UNCHANGED <<cpu, pids, locals>>
  BY <1>5 DEF TicksInv, Past, locals
<1> QED BY <1>1, <1>2, <1>3, <1>4, <1>5, TicksStep, CallersAssumption
        DEF Next, Start, Exit, vars, locals

-----------------------------------------------------------------------------
(* One caller: between reading the baseline and replacing it, nobody else  *)
(* replaces it                                                             *)

OneCaller == \A c, d \in Callers : c = d

(* The new sample of a pid is not older than the one it will replace, in   *)
(* CPU time and in time.                                                   *)
Follows(old, new) ==
  old # None /\ new # None => old.sample <= new.sample

BaseInv ==
  \A c \in Callers :
    /\ pc[c] \in Measured /\ pids[pid[c]] # None
         => pids[pid[c]].ticks <= status[c].ticks
    /\ pc[c] \in {"stamp", "filled"} => last[c] = pids[pid[c]]
    /\ pc[c] = "filled" => Follows(pids[pid[c]], status[c])
    /\ \A p \in Pids : Follows(pids[p], procMap[c][p])

LEMMA BaseInit == Init => BaseInv
BY DEF Init, BaseInv, NoEntries, Measured, Follows

LEMMA BaseLeave ==
  ASSUME TypeOK, BaseInv, OneCaller, NEW c \in Callers,
         pc' = [pc EXCEPT ![c] = "list"] \/ pc' = [pc EXCEPT ![c] = "idle"],
         \A p \in Pids : Follows(pids'[p], procMap'[c][p])
  PROVE  BaseInv'
BY DEF TypeOK, BaseInv, OneCaller, Measured

LEMMA BaseStep ==
  ASSUME NoPidReuse, OneCaller, TypeOK, SampleInv, OwnerInv, TicksInv, BaseInv,
         NEW c \in Callers, Step(c)
  PROVE  BaseInv'
<1>0. status[c] \in ProcState /\ pid[c] \in Pids
      /\ pids[pid[c]] \in ProcState \cup {None}
  BY DEF TypeOK
<1>1. CASE GetListed(c)
  BY <1>1 DEF GetListed, EnterPidFill, TypeOK, BaseInv, OneCaller, Measured
<1>2. CASE FilterAndCache(c)
  BY <1>2 DEF FilterAndCache, NextPid, TypeOK, BaseInv, OneCaller, Measured
<1>3. CASE ReadCPU(c)
  <2>1. PICK x \in LiveAt(pid[c]) :
          status' = [status EXCEPT ![c].cpu = x, ![c].ticks = cpu[x]]
    BY <1>3 DEF ReadCPU
  <2>2. status'[c].ticks = cpu[x]
    BY <1>0, <2>1 DEF TypeOK, ProcState
  <2>3. pids[pid[c]] # None => pids[pid[c]].cpu = x
    BY <1>0, NoPidReuse
       DEF LiveAt, NoPidReuse, OwnerInv, Complete, ReadFrom, ProcState
  <2>4. pids[pid[c]] # None => pids[pid[c]].ticks <= cpu[x]
    BY <1>0, <2>3, ProcsAssumption DEF TicksInv, Past, LiveAt
  <2> QED BY <1>3, <2>2, <2>4 DEF ReadCPU, TypeOK, BaseInv, OneCaller, Measured
<1>4. CASE ReadFiles(c)
  <2>1. status'[c].ticks = status[c].ticks
    BY <1>0, <1>4 DEF ReadFiles, TypeOK, ProcState
  <2> QED BY <1>4, <2>1 DEF ReadFiles, TypeOK, BaseInv, OneCaller, Measured
<1>5. CASE GetLast(c)
  BY <1>5 DEF GetLast, TypeOK, BaseInv, OneCaller, Measured
<1>6. CASE Stamp(c)
  <2>1. status'[c].ticks = status[c].ticks /\ status'[c].sample = now
    BY <1>0, <1>6 DEF Stamp, TypeOK, ProcState
  <2>2. pids[pid[c]] # None => pids[pid[c]].sample <= now
    BY <1>0 DEF SampleInv
  <2> QED BY <1>6, <2>1, <2>2
          DEF Stamp, TypeOK, BaseInv, OneCaller, Measured, Follows
<1>7. CASE Fail(c)
  <2>1. CASE NextPid(c) /\ UNCHANGED procMap
    <3>1. \A p \in Pids : Follows(pids'[p], procMap'[c][p])
      BY <1>7, <2>1 DEF Fail, BaseInv
    <3> QED BY <2>1, <3>1, BaseLeave DEF NextPid
  <2>2. CASE Return(c)
    <3>1. \A p \in Pids : Follows(pids'[p], procMap'[c][p])
      BY <2>2, NoEntriesAt DEF Return, TypeOK, Follows
    <3> QED BY <2>2, <3>1, BaseLeave DEF Return
  <2> QED BY <1>7, <2>1, <2>2 DEF Fail
<1>8. CASE Collect(c)
  <2>1. \A p \in Pids : Follows(pids'[p], procMap'[c][p])
    BY <1>0, <1>8 DEF Collect, TypeOK, BaseInv
  <2> QED BY <1>8, <2>1, BaseLeave DEF Collect, NextPid
<1>9. CASE SetPid(c)
  BY <1>9, BaseLeave, NoEntriesAt DEF SetPid, Return, TypeOK, Follows
<1>10. CASE SetMap(c)
  BY <1>10, BaseLeave, NoEntriesAt DEF SetMap, Return, TypeOK, Follows
<1> QED BY <1>1, <1>2, <1>3, <1>4, <1>5, <1>6, <1>7, <1>8, <1>9, <1>10 DEF Step

LEMMA BaseNext ==
  ASSUME NoPidReuse, OneCaller
  PROVE  TypeOK /\ SampleInv /\ OwnerInv /\ TicksInv /\ BaseInv /\ [Next]_vars
           => BaseInv'
<1> SUFFICES ASSUME TypeOK, SampleInv, OwnerInv, TicksInv, BaseInv, [Next]_vars
             PROVE  BaseInv'
  OBVIOUS
<1>1. ASSUME NEW c \in Callers, StartGet(c) PROVE BaseInv'
  BY <1>1 DEF StartGet, TypeOK, BaseInv, Measured
<1>2. ASSUME NEW c \in Callers, NEW p \in Pids, GetOne(c, p) PROVE BaseInv'
  BY <1>2, OneCaller
     DEF GetOne, EnterPidFill, TypeOK, BaseInv, OneCaller, Measured
<1>3. ASSUME NEW c \in Callers, GetSelf(c) PROVE BaseInv'
  BY <1>2, <1>3, ProcsAssumption DEF GetSelf
<1>4. CASE UNCHANGED <<pids, locals>>
  BY <1>4 DEF BaseInv, locals
<1> QED BY <1>1, <1>2, <1>3, <1>4, BaseStep, NoPidReuse, OneCaller,
           CallersAssumption DEF Next, Start, Exit, Tick, vars, locals

LEMMA Invariants ==
  ASSUME NoPidReuse, OneCaller
  PROVE  Spec => [](TypeOK /\ SampleInv /\ OwnerInv /\ TicksInv /\ BaseInv)
BY NoPidReuse, OneCaller, TypeInit, TypeStep, SampleInit, SampleNext, OwnerInit,
   OwnerNext, TicksInit, TicksNext, BaseInit, BaseNext, PTL DEF Spec

(* With one caller and no reuse of pids, no CPU percentage is negative. *)
THEOREM UsageCorrect ==
  ASSUME NoPidReuse, OneCaller
  PROVE  Spec => []UsageNonNegative
<1>1. TypeOK /\ BaseInv => UsageNonNegative
  BY DEF TypeOK, BaseInv, Measured, UsageNonNegative, HasBaseline, Used, ProcState
<1> QED BY <1>1, Invariants, NoPidReuse, OneCaller, PTL

(* Under the same conditions no step replaces a sample by an older one. *)
THEOREM SamplesCorrect ==
  ASSUME NoPidReuse, OneCaller
  PROVE  Spec => SamplesAdvance
<1>. DEFINE Advance == \A p \in Pids : pids[p] # None /\ pids'[p] # None
                         => pids'[p].sample >= pids[p].sample
<1>1. TypeOK /\ BaseInv /\ [Next]_vars => [Advance]_vars
  <2> SUFFICES ASSUME TypeOK, BaseInv, [Next]_vars,
                      NEW p \in Pids, pids[p] # None, pids'[p] # None
               PROVE  pids'[p].sample >= pids[p].sample
    OBVIOUS
  <2>1. pids[p] \in ProcState
    BY DEF TypeOK
  <2>2. ASSUME NEW c \in Callers, SetPid(c) PROVE pids'[p].sample >= pids[p].sample
    BY <2>1, <2>2 DEF SetPid, TypeOK, BaseInv, Follows, ProcState
  <2>3. ASSUME NEW c \in Callers, SetMap(c) PROVE pids'[p].sample >= pids[p].sample
    BY <2>1, <2>3 DEF SetMap, TypeOK, BaseInv, Follows, ProcState
  <2>4. CASE UNCHANGED pids
    BY <2>1, <2>4 DEF ProcState
  <2>5. ASSUME NEW c \in Callers, Step(c)
        PROVE  SetPid(c) \/ SetMap(c) \/ UNCHANGED pids
    BY <2>5 DEF Step, GetListed, FilterAndCache, ReadCPU, ReadFiles, GetLast,
                Stamp, Fail, Collect
  <2>6. [\E c \in Callers : Step(c)]_pids
    BY DEF Next, Start, Exit, Tick, StartGet, GetOne, GetSelf, vars
  <2> QED BY <2>2, <2>3, <2>4, <2>5, <2>6
<1> QED BY <1>1, Invariants, NoPidReuse, OneCaller, PTL DEF Spec, SamplesAdvance

-----------------------------------------------------------------------------
(* What the callers are told adds up *)

(* c has computed a percentage for p, or keeps one for the map it builds. *)
Settled(c, p) ==
  procMap[c][p] # None \/ (pc[c] = "filled" /\ pid[c] = p)

(* What was reported for the process of ps does not go beyond ps. *)
Covers(ps) == ps.cpu # None => reported[ps.cpu] <= ps.ticks

ReportInv ==
  /\ reported \in [Procs -> Int]
  /\ ReportedOnce
  /\ \A c \in Callers :
       /\ pc[c] \in Measured => Covers(status[c])
       /\ \A p \in Pids :
            /\ procMap[c][p] # None => Covers(procMap[c][p])
            /\ pids[p] # None /\ ~Settled(c, p) => Covers(pids[p])

IInv == TypeOK /\ SampleInv /\ OwnerInv /\ LoopInv /\ TicksInv /\ BaseInv

LEMMA ReportInit == AInit => ReportInv
BY DEF AInit, Init, ReportInv, ReportedOnce, NoEntries, Measured

LEMMA ReportUnchanged ==
  ASSUME ANext, \A c \in Callers : ~(Stamp(c) /\ last[c] # None), IInv
  PROVE  UNCHANGED reported
<1> SUFFICES ASSUME NEW c \in Callers, Reports(c) PROVE FALSE
  BY DEF ANext
<1>1. ASSUME NEW d \in Callers, Step(d) PROVE d = c /\ Stamp(c)
  BY <1>1 DEF IInv, TypeOK, Reports, Step, GetListed, EnterPidFill, FilterAndCache,
     ReadCPU, ReadFiles, GetLast, Stamp, Fail, Collect, SetPid, SetMap, NextPid, Return
<1>2. ASSUME NEW d \in Callers,
             StartGet(d) \/ GetSelf(d) \/ \E p \in Pids : GetOne(d, p)
      PROVE  FALSE
  BY <1>2 DEF IInv, TypeOK, Reports, StartGet, GetSelf, GetOne, EnterPidFill
<1>3. CASE UNCHANGED locals
  BY <1>3 DEF Reports, locals
<1> QED BY <1>1, <1>2, <1>3, CallersAssumption
        DEF ANext, Next, Reports, Start, Exit, Tick, locals

LEMMA ReportStep ==
  ASSUME NoPidReuse, OneCaller, IInv, ReportInv, NEW c \in Callers, Step(c), ANext
  PROVE  ReportInv'
<1>0. /\ status[c] \in ProcState
      /\ pid[c] \in Pids
      /\ pids[pid[c]] \in ProcState \cup {None}
      /\ \A d \in Callers : d = c
  BY OneCaller DEF TypeOK, IInv, OneCaller
<1>1. CASE Stamp(c) /\ last[c] # None
  <2>. DEFINE x == status[c].cpu
  <2>1. /\ pc[c] = "stamp" /\ pc' = [pc EXCEPT ![c] = "filled"]
        /\ status'[c].ticks = status[c].ticks /\ status'[c].cpu = x
        /\ UNCHANGED <<environment, pids, procMap, pid>>
    BY <1>0, <1>1 DEF Stamp, IInv, TypeOK, ProcState
  <2>2. x \in Procs /\ PidOf[x] = pid[c]
    BY <1>0, <2>1 DEF IInv, OwnerInv, Measured, ReadFrom, ProcState
  <2>3. \A p \in Pids, ps \in ProcState : Complete(ps, p) /\ ps.cpu = x => p = pid[c]
    BY <2>2 DEF Complete, ReadFrom
  <2>4. /\ last[c] = pids[pid[c]] /\ last[c] \in ProcState
        /\ last[c].cpu = x /\ last[c].ticks \in Nat
        /\ status[c].ticks \in Nat
    <3>1. last[c] = pids[pid[c]] /\ last[c] \in ProcState /\ Complete(last[c], pid[c])
      BY <1>0, <1>1, <2>1 DEF IInv, TypeOK, BaseInv, OwnerInv
    <3> QED BY <1>0, <2>2, <3>1, NoPidReuse
            DEF NoPidReuse, Complete, ReadFrom, ProcState
  <2>5. reported' = [reported EXCEPT ![x] = @ + (status[c].ticks - last[c].ticks)]
    BY <1>0, <1>1, <2>1 DEF ANext, Reports, Used, IInv, TypeOK, Stamp, ProcState
  <2>6. reported[x] <= last[c].ticks
    <3>1. ~Settled(c, pid[c])
      BY <2>1 DEF Settled, IInv, LoopInv, Filling, Measured
    <3> QED BY <1>0, <1>1, <2>2, <2>4, <3>1, ProcsAssumption DEF ReportInv, Covers
  <2>7. /\ reported' \in [Procs -> Int]
        /\ reported'[x] <= status[c].ticks
        /\ \A y \in Procs : y # x => reported'[y] = reported[y]
    BY <2>2, <2>4, <2>5, <2>6 DEF ReportInv
  <2>8. ReportedOnce'
    <3>1. status[c].ticks <= cpu[x]
      BY <2>2, ProcsAssumption DEF IInv, TicksInv, Past
    <3>2. \A y \in Procs : cpu[y] \in Nat /\ cpu'[y] = cpu[y]
      BY <2>1 DEF IInv, TypeOK, environment
    <3> QED BY <2>2, <2>4, <2>7, <3>1, <3>2 DEF ReportedOnce, ReportInv
  <2>. DEFINE CoversNow(ps) == ps.cpu # None => reported'[ps.cpu] <= ps.ticks
  <2>9. ASSUME NEW ps \in ProcState, Covers(ps), ps.cpu # x
        PROVE  CoversNow(ps)
    BY <2>7, <2>9 DEF Covers, ProcState, ReportInv
  <2>10. CoversNow(status'[c])
    BY <2>1, <2>2, <2>7
  <2>11. ASSUME NEW p \in Pids
         PROVE  /\ procMap[c][p] # None => CoversNow(procMap[c][p])
                /\ pids[p] # None /\ ~Settled(c, p)' => CoversNow(pids[p])
    <3>1. CASE p = pid[c]
      BY <2>1, <3>1 DEF Settled, IInv, TypeOK, LoopInv, Filling, Measured
    <3>2. CASE p # pid[c]
      <4>1. /\ procMap[c][p] # None => procMap[c][p] \in ProcState
            /\ pids[p] # None => pids[p] \in ProcState
        BY DEF IInv, TypeOK
      <4>2. /\ procMap[c][p] # None => procMap[c][p].cpu # x
            /\ pids[p] # None => pids[p].cpu # x
        BY <2>3, <3>2, <4>1 DEF IInv, OwnerInv
      <4>3. Settled(c, p)' <=> Settled(c, p)
        BY <2>1, <3>2 DEF Settled
      <4>4. /\ procMap[c][p] # None => Covers(procMap[c][p])
            /\ pids[p] # None /\ ~Settled(c, p) => Covers(pids[p])
        BY DEF ReportInv
      <4> HIDE DEF CoversNow, x
      <4> QED BY <2>9, <4>1, <4>2, <4>3, <4>4
    <3> QED BY <3>1, <3>2
  <2> QED BY <1>0, <2>1, <2>7, <2>8, <2>10, <2>11 DEF ReportInv, Covers
<1>2. ASSUME ~(Stamp(c) /\ last[c] # None) PROVE ReportInv'
  <2>0. UNCHANGED reported
    BY <1>0, <1>2, ReportUnchanged
  <2>1. CASE GetListed(c)
    BY <1>0, <2>0, <2>1 DEF GetListed, EnterPidFill, IInv, TypeOK, ReportInv,
       ReportedOnce, Settled, Covers, Measured, environment
  <2>2. CASE FilterAndCache(c)
    BY <1>0, <2>0, <2>2 DEF FilterAndCache, NextPid, IInv, TypeOK, ReportInv,
       ReportedOnce, Settled, Covers, Measured, environment
  <2>3. CASE ReadCPU(c)
    <3>1. PICK x \in LiveAt(pid[c]) :
            status' = [status EXCEPT ![c].cpu = x, ![c].ticks = cpu[x]]
      BY <2>3 DEF ReadCPU
    <3>2. status'[c].ticks = cpu[x] /\ status'[c].cpu = x
      BY <1>0, <3>1 DEF IInv, TypeOK, ProcState
    <3>3. reported[x] <= cpu[x]
      BY DEF LiveAt, ReportInv, ReportedOnce
    <3> QED BY <1>0, <2>0, <2>3, <3>2, <3>3 DEF ReadCPU, IInv, TypeOK, ReportInv,
              ReportedOnce, Settled, Covers, Measured, environment
  <2>4. ASSUME \/ ReadFiles(c)
               \/ GetLast(c)
               \/ Stamp(c) /\ last[c] = None
        PROVE  ReportInv'
    <3>1. /\ status'[c].ticks = status[c].ticks /\ status'[c].cpu = status[c].cpu
          /\ UNCHANGED <<environment, procMap, pids, pid>>
      <4>1. CASE ReadFiles(c)
        BY <1>0, <4>1 DEF ReadFiles, IInv, TypeOK, ProcState
      <4>2. CASE GetLast(c)
        BY <1>0, <4>2 DEF GetLast
      <4>3. CASE Stamp(c)
        BY <1>0, <4>3 DEF Stamp, IInv, TypeOK, ProcState
      <4> QED BY <2>4, <4>1, <4>2, <4>3
    <3>2. pc[c] \in Measured
      BY <2>4 DEF ReadFiles, GetLast, Stamp, Measured
    <3>3. pc'[c] = "filled" => pids[pid[c]] = None
      BY <1>0, <2>4 DEF ReadFiles, GetLast, Stamp, IInv, TypeOK, BaseInv
    <3>4. pc[c] # "filled"
      BY <2>4 DEF ReadFiles, GetLast, Stamp
    <3> QED BY <1>0, <2>0, <3>1, <3>2, <3>3, <3>4
            DEF ReportInv, ReportedOnce, Settled, Covers, environment
  <2>5. CASE Fail(c)
    BY <1>0, <2>0, <2>5, NoEntriesAt DEF Fail, NextPid, Return, IInv, TypeOK, LoopInv,
       ReportInv, ReportedOnce, Settled, Covers, Measured, environment
  <2>6. CASE Collect(c)
    <3>1. Covers(status[c])
      BY <2>6 DEF Collect, ReportInv, Measured
    <3>2. /\ procMap'[c] = [procMap[c] EXCEPT ![pid[c]] = status[c]]
          /\ pc'[c] = "list"
          /\ UNCHANGED <<environment, pids>>
      BY <2>6 DEF Collect, NextPid, IInv, TypeOK
    <3>3. ASSUME NEW p \in Pids
          PROVE  /\ procMap'[c][p] # None => Covers(procMap'[c][p])
                 /\ pids[p] # None /\ ~Settled(c, p)' => Covers(pids[p])
      BY <1>0, <2>6, <3>1, <3>2, NoneAssumption
         DEF Collect, IInv, TypeOK, ReportInv, Settled, ProcState
    <3> QED BY <1>0, <2>0, <3>2, <3>3
            DEF ReportInv, ReportedOnce, Covers, Measured, environment
  <2>7. CASE SetPid(c)
    BY <1>0, <2>0, <2>7, NoEntriesAt DEF SetPid, Return, IInv, TypeOK, LoopInv,
       ReportInv, ReportedOnce, Settled, Covers, Measured, environment
  <2>8. CASE SetMap(c)
    BY <1>0, <2>0, <2>8, NoEntriesAt DEF SetMap, Return, IInv, TypeOK, ReportInv,
       ReportedOnce, Settled, Covers, Measured, environment
  <2> QED BY <1>2, <2>1, <2>2, <2>3, <2>4, <2>5, <2>6, <2>7, <2>8 DEF Step
<1> QED BY <1>1, <1>2

LEMMA ReportNext ==
  ASSUME NoPidReuse, OneCaller
  PROVE  IInv /\ IInv' /\ ReportInv /\ [ANext]_avars => ReportInv'
<1> SUFFICES ASSUME IInv, IInv', ReportInv, [ANext]_avars PROVE ReportInv'
  OBVIOUS
<1>1. CASE UNCHANGED avars
  BY <1>1 DEF avars, vars, ReportInv, ReportedOnce, Covers, Settled
<1>2. ASSUME NEW c \in Callers, Step(c), ANext PROVE ReportInv'
  BY <1>2, ReportStep, NoPidReuse, OneCaller
<1>3. ASSUME ANext, ~\E c \in Callers : Step(c) PROVE ReportInv'
  <2>1. UNCHANGED reported
    BY <1>3, ReportUnchanged DEF Step
  <2>2. ASSUME NEW c \in Callers, StartGet(c) PROVE ReportInv'
    BY <2>1, <2>2, OneCaller DEF StartGet, OneCaller, IInv, TypeOK, ReportInv,
       ReportedOnce, Settled, Covers, Measured, environment
  <2>3. ASSUME NEW c \in Callers, NEW p \in Pids, GetOne(c, p) PROVE ReportInv'
    BY <2>1, <2>3, OneCaller DEF GetOne, EnterPidFill, OneCaller, IInv, TypeOK,
       ReportInv, ReportedOnce, Settled, Covers, Measured, environment
  <2>4. ASSUME NEW c \in Callers, GetSelf(c) PROVE ReportInv'
    BY <2>3, <2>4, ProcsAssumption DEF GetSelf
  <2>5. CASE UNCHANGED <<pids, locals>> /\ \A x \in Procs : cpu[x] <= cpu'[x]
    <3>1. \A x \in Procs : cpu[x] \in Nat /\ cpu'[x] \in Nat
      BY DEF IInv, TypeOK
    <3> QED BY <2>1, <2>5, <3>1 DEF ReportInv, ReportedOnce, Settled, Covers, locals
  <2>6. CASE Tick \/ \E x \in Procs : Start(x) \/ Exit(x)
    <3>1. \A x \in Procs : cpu[x] <= cpu'[x]
      BY <2>6, BoundsAssumption DEF Tick, Start, Exit, IInv, TypeOK
    <3> QED BY <2>5, <2>6, <3>1 DEF Tick, Start, Exit
  <2> QED BY <1>3, <2>2, <2>3, <2>4, <2>6, CallersAssumption DEF ANext, Next
<1> QED BY <1>1, <1>2, <1>3

(* With one caller and no reuse of pids, the percentages of a process add  *)
(* up to no more CPU time than it used: Get and GetOne never report the    *)
(* same CPU time twice.                                                    *)
THEOREM ReportsCorrect ==
  ASSUME NoPidReuse, OneCaller
  PROVE  ASpec => []ReportedOnce
<1>1. [ANext]_avars => [Next]_vars
  BY DEF ANext, avars
<1>2. ASpec => []IInv
  BY <1>1, NoPidReuse, OneCaller, TypeInit, TypeStep, SampleInit, SampleNext,
     OwnerInit, OwnerNext, LoopInit, LoopNext, TicksInit, TicksNext, BaseInit,
     BaseNext, PTL DEF ASpec, AInit, IInv
<1>3. ASpec => []ReportInv
  BY <1>2, ReportInit, ReportNext, NoPidReuse, OneCaller, PTL DEF ASpec
<1>4. ReportInv => ReportedOnce
  BY DEF ReportInv
<1> QED BY <1>3, <1>4, PTL

-----------------------------------------------------------------------------
(* Stats is a Sampler of every pid.  What has been computed for Watched is *)
(* the difference to the entry that is still tracked, since the one caller *)
(* replaces it only when it returns.                                       *)

(* The difference of a sample and the one that is tracked.                 *)
Difference(ps) == IF pids[Watched] = None THEN [count |-> 0, clock |-> 0]
                  ELSE [count |-> ps.ticks - pids[Watched].ticks,
                        clock |-> ps.sample - pids[Watched].sample]

ComputedInv ==
  /\ now <= MaxTime
  /\ \A c \in Callers :
       /\ pc[c] # "idle" => result = None
       /\ Taken(c) # None => computed = Difference(Taken(c))

LEMMA TakenType ==
  ASSUME TypeOK, NEW c \in Callers
  PROVE  Taken(c) \in ProcState \cup {None} /\ pids[Watched] \in ProcState \cup {None}
BY WatchedAssumption DEF TypeOK, Taken

LEMMA SampleOf ==
  ASSUME NEW ps \in ProcState
  PROVE  /\ AsSample(ps) = [life |-> 0, count |-> ps.ticks, clock |-> ps.sample]
         /\ AsSample(ps) \in S!Sample /\ AsSample(ps) # None
<1>1. ps # None /\ ps.ticks \in Nat /\ ps.sample \in Nat
  BY NoneAssumption DEF ProcState
<1>2. AsSample(ps) = [life |-> 0, count |-> ps.ticks, clock |-> ps.sample]
  BY <1>1 DEF AsSample
<1>3. AsSample(ps) \in S!Sample
  BY <1>1, <1>2 DEF S!Sample
<1> QED BY <1>2, <1>3, WatchedAssumption

LEMMA CandOfCaller ==
  ASSUME OneCaller, NEW c \in Callers
  PROVE  Cand = AsSample(Taken(c))
<1>1. CASE Taken(c) = None
  <2>1. Takers = {}
    BY <1>1, OneCaller DEF Takers, OneCaller
  <2> QED BY <1>1, <2>1 DEF Cand, AsSample
<1>2. CASE Taken(c) # None
  <2>1. Takers = {c}
    BY <1>2, OneCaller DEF Takers, OneCaller
  <2> QED BY <2>1 DEF Cand
<1> QED BY <1>1, <1>2

(* What a caller has taken is not older than what is tracked. *)
LEMMA TakenFollows ==
  ASSUME TypeOK, BaseInv, NEW c \in Callers, Taken(c) # None, pids[Watched] # None
  PROVE  pids[Watched].sample <= Taken(c).sample
BY WatchedAssumption DEF BaseInv, Taken, Follows

LEMMA StampStep ==
  ASSUME TypeOK, LoopInv, BaseInv, NEW c \in Callers, Step(c), Stamps(c)
  PROVE  /\ Taken(c) = None /\ Taken(c)' = status'[c]
         /\ UNCHANGED <<pids, last, now>> /\ last[c] = pids[Watched]
         /\ ~Returns(c)
<1>1. Stamp(c) /\ pid[c] = Watched
  BY DEF Stamps, Step, GetListed, EnterPidFill, FilterAndCache, ReadCPU, ReadFiles, GetLast,
         Fail, Collect, SetPid, SetMap, NextPid, Return, TypeOK
<1>2. pc[c] = "stamp" /\ pc'[c] = "filled" /\ UNCHANGED <<pids, pid, last, now>>
  BY <1>1 DEF Stamp, environment, TypeOK
<1>3. Taken(c) = None
  BY <1>1, <1>2 DEF Taken, LoopInv, Filling, Measured
<1>4. Taken(c)' = status'[c]
  BY <1>1, <1>2 DEF Taken
<1>5. last[c] = pids[Watched]
  BY <1>1, <1>2 DEF BaseInv
<1> QED BY <1>2, <1>3, <1>4, <1>5 DEF Returns

LEMMA ReturnStep ==
  ASSUME TypeOK, LoopInv, NEW c \in Callers, Step(c), Returns(c)
  PROVE  /\ Taken(c) # None /\ Taken(c)' = None
         /\ pids'[Watched] = Taken(c) /\ now' = now
         /\ ~Stamps(c)
<1>1. SetPid(c) \/ SetMap(c)
  BY DEF Returns, Step, GetListed, EnterPidFill, FilterAndCache, ReadCPU, ReadFiles, GetLast,
         Stamp, Fail, Collect, NextPid, TypeOK
<1>2. Taken(c) # None /\ pc[c] \in {"filled", "list"} /\ pc'[c] = "idle"
  BY DEF Returns
<1>3. Taken(c)' = None
  <2>1. procMap'[c] = NoEntries
    BY <1>1 DEF SetPid, SetMap, Return, TypeOK
  <2> QED BY <1>2, <2>1, NoEntriesAt, WatchedAssumption DEF Taken
<1>4. CASE SetPid(c)
  <2>1. pc[c] = "filled" /\ op[c] = "GetOne" /\ pids' = [pids EXCEPT ![pid[c]] = status[c]]
    BY <1>4 DEF SetPid
  <2>2. procMap[c][Watched] = None
    BY <2>1, NoEntriesAt, WatchedAssumption DEF LoopInv
  <2>3. pid[c] = Watched
    BY <1>2, <2>2 DEF Taken
  <2>4. Taken(c) = status[c]
    BY <2>1, <2>3 DEF Taken
  <2> QED BY <1>2, <1>3, <1>4, <2>1, <2>3, <2>4, WatchedAssumption
          DEF TypeOK, SetPid, environment, Stamps
<1>5. CASE SetMap(c)
  BY <1>2, <1>3, <1>5 DEF SetMap, Taken, environment, Stamps
<1> QED BY <1>1, <1>4, <1>5

(* Any other step of the caller takes nothing and returns nothing. *)
LEMMA QuietStep ==
  ASSUME TypeOK, LoopInv, NEW c \in Callers, Step(c), ~Stamps(c), ~Returns(c)
  PROVE  /\ Taken(c)' = Taken(c) /\ now' = now
         /\ \/ pids'[Watched] = pids[Watched]
            \/ Taken(c) = None /\ pids'[Watched] = None
<1>0. now' = now
  BY DEF Step, GetListed, FilterAndCache, ReadCPU, ReadFiles, GetLast, Stamp, Fail, Collect,
         SetPid, SetMap, environment
<1>1. CASE GetListed(c)
  BY <1>0, <1>1 DEF GetListed, EnterPidFill, Taken, TypeOK
<1>2. CASE FilterAndCache(c)
  BY <1>0, <1>2 DEF FilterAndCache, NextPid, Taken, TypeOK
<1>3. CASE ReadCPU(c) \/ ReadFiles(c) \/ GetLast(c)
  BY <1>0, <1>3 DEF ReadCPU, ReadFiles, GetLast, Taken, TypeOK
<1>4. CASE Stamp(c)
  <2>1. pc[c] = "stamp" /\ pc'[c] = "filled" /\ UNCHANGED <<pids, pid, procMap>>
    BY <1>4 DEF Stamp, TypeOK
  <2> QED BY <1>0, <2>1 DEF Stamps, Taken
<1>5. CASE Fail(c)
  <2>1. pc[c] # "filled" /\ pc'[c] # "filled" /\ pids' = pids
    BY <1>5 DEF Fail, NextPid, Return, TypeOK
  <2>2. procMap'[c] = procMap[c]
    <3>1. CASE NextPid(c) /\ UNCHANGED procMap
      BY <3>1
    <3>2. CASE op[c] = "GetOne" /\ Return(c)
      BY <3>2 DEF LoopInv, Return, TypeOK
    <3> QED BY <1>5, <3>1, <3>2 DEF Fail
  <2> QED BY <1>0, <2>1, <2>2 DEF Taken
<1>6. CASE Collect(c)
  <2>1. /\ pc[c] = "filled" /\ pc'[c] = "list" /\ pids' = pids /\ pid[c] \in Pids
        /\ procMap'[c] = [procMap[c] EXCEPT ![pid[c]] = status[c]]
    BY <1>6 DEF Collect, NextPid, TypeOK
  <2>2. procMap[c] \in [Pids -> ProcState \cup {None}]
    BY DEF TypeOK
  <2> QED BY <1>0, <2>1, <2>2, WatchedAssumption DEF Taken
<1>7. CASE SetPid(c) \/ SetMap(c)
  <2>1. pc[c] \in {"filled", "list"} /\ pc'[c] = "idle" /\ procMap'[c] = NoEntries
    BY <1>7 DEF SetPid, SetMap, Return, TypeOK
  <2>2. Taken(c) = None /\ Taken(c)' = None
    BY <2>1, NoEntriesAt, WatchedAssumption DEF Returns, Taken
  <2>3. CASE SetPid(c)
    <3>1. status[c] # None
      BY NoneAssumption DEF TypeOK
    <3>2. pid[c] # Watched
      BY <2>2, <2>3, <3>1 DEF Taken, SetPid
    <3> QED BY <1>0, <2>2, <2>3, <3>2, WatchedAssumption DEF SetPid, TypeOK
  <2>4. CASE SetMap(c)
    <3>1. procMap[c][Watched] = None
      BY <2>2, <2>4 DEF SetMap, Taken
    <3> QED BY <1>0, <2>2, <2>4, <3>1 DEF SetMap
  <2> QED BY <1>7, <2>3, <2>4
<1> QED BY <1>1, <1>2, <1>3, <1>4, <1>5, <1>6, <1>7 DEF Step

(* What begins a call, or is not a call, takes nothing. *)
LEMMA QuietRest ==
  ASSUME TypeOK, Next, ~\E c \in Callers : Step(c)
  PROVE  /\ \A c \in Callers : Taken(c)' = Taken(c) /\ ~Stamps(c) /\ ~Returns(c)
         /\ pids' = pids /\ (now <= MaxTime => now' <= MaxTime)
<1>1. ASSUME NEW d \in Callers, StartGet(d)
      PROVE  /\ \A c \in Callers : Taken(c)' = Taken(c) /\ ~Stamps(c) /\ ~Returns(c)
             /\ pids' = pids /\ now' = now
  BY <1>1 DEF StartGet, TypeOK, Taken, Stamps, Returns, environment
<1>2. ASSUME NEW d \in Callers, NEW p \in Pids, GetOne(d, p)
      PROVE  /\ \A c \in Callers : Taken(c)' = Taken(c) /\ ~Stamps(c) /\ ~Returns(c)
             /\ pids' = pids /\ now' = now
  BY <1>2 DEF GetOne, EnterPidFill, TypeOK, Taken, Stamps, Returns, environment
<1>3. ASSUME UNCHANGED <<pids, locals>>
      PROVE  \A c \in Callers : Taken(c)' = Taken(c) /\ ~Stamps(c) /\ ~Returns(c)
  BY <1>3 DEF locals, Taken, Stamps, Returns
<1>4. ASSUME NEW x \in Procs, Start(x) \/ Exit(x)
      PROVE  UNCHANGED <<pids, locals>> /\ now' = now
  BY <1>4 DEF Start, Exit
<1>5. CASE Tick
  <2>1. UNCHANGED <<pids, locals>> /\ now < MaxTime /\ now' = now + 1
    BY <1>5 DEF Tick
  <2>2. now' <= MaxTime
    BY <2>1, BoundsAssumption DEF TypeOK
  <2> QED BY <1>3, <2>1, <2>2
<1> QED BY <1>1, <1>2, <1>3, <1>4, <1>5, CallersAssumption, ProcsAssumption DEF Next, GetSelf

LEMMA ComputedInit == SInit => ComputedInv
BY BoundsAssumption, WatchedAssumption, NoEntriesAt DEF SInit, AInit, Init, ComputedInv, Taken

(* Of a step of the one caller. *)
LEMMA ComputedStep ==
  ASSUME OneCaller, IInv, ComputedInv, NEW c \in Callers, Step(c), SNext
  PROVE  ComputedInv'
<1>1. \A d \in Callers : d = c
  BY OneCaller DEF OneCaller
<1>2. TypeOK /\ LoopInv /\ BaseInv /\ now <= MaxTime
  BY DEF IInv, ComputedInv
<1>3. CASE Stamps(c)
  <2>1. /\ Taken(c)' = status'[c] /\ UNCHANGED <<pids, last, now>>
        /\ last[c] = pids[Watched] /\ ~Returns(c)
    BY <1>2, <1>3, StampStep
  <2>2. computed' = Computed(c)' /\ result' = None
    BY <1>1, <1>3, <2>1 DEF SNext
  <2>3. computed' = Difference(status[c])'
    BY <2>1, <2>2 DEF Computed, Used, Elapsed, Difference
  <2> QED BY <1>1, <1>2, <2>1, <2>2, <2>3 DEF ComputedInv, Difference
<1>4. CASE Returns(c)
  <2>1. Taken(c)' = None /\ now' = now /\ pc'[c] = "idle"
    BY <1>2, <1>4, ReturnStep DEF Returns
  <2> QED BY <1>1, <1>2, <2>1 DEF ComputedInv
<1>5. CASE ~Stamps(c) /\ ~Returns(c)
  <2>1. /\ Taken(c)' = Taken(c) /\ now' = now
        /\ pids'[Watched] = pids[Watched] \/ Taken(c) = None
    BY <1>2, <1>5, QuietStep
  <2>2. computed' = computed /\ result' = None
    BY <1>1, <1>5 DEF SNext
  <2> QED BY <1>1, <1>2, <2>1, <2>2 DEF ComputedInv, Difference
<1> QED BY <1>3, <1>4, <1>5

LEMMA ComputedNext ==
  ASSUME OneCaller
  PROVE  IInv /\ ComputedInv /\ [SNext]_svars => ComputedInv'
<1> SUFFICES ASSUME IInv, ComputedInv, [SNext]_svars PROVE ComputedInv'
  OBVIOUS
<1>1. CASE UNCHANGED svars
  BY <1>1 DEF svars, avars, vars, ComputedInv, Difference, Taken
<1>2. ASSUME SNext, ~\E c \in Callers : Step(c) PROVE ComputedInv'
  <2>1. /\ \A c \in Callers : Taken(c)' = Taken(c) /\ ~Stamps(c) /\ ~Returns(c)
        /\ pids' = pids /\ (now <= MaxTime => now' <= MaxTime)
    BY <1>2, QuietRest DEF IInv, SNext, ANext
  <2>2. computed' = computed /\ result' = None
    BY <1>2, <2>1 DEF SNext
  <2> QED BY <2>1, <2>2 DEF ComputedInv, Difference
<1> QED BY <1>1, <1>2, ComputedStep, OneCaller

(* A stamp takes a sample. *)
LEMMA WatchedTake ==
  ASSUME OneCaller, IInv, IInv', ComputedInv, NEW c \in Callers, Step(c), Stamps(c), SNext
  PROVE  S!Take
<1>1. TypeOK /\ LoopInv /\ BaseInv /\ (TypeOK /\ BaseInv)'
  BY DEF IInv
<1>2. /\ Taken(c) = None /\ Taken(c)' = status'[c] /\ pids' = pids /\ ~Returns(c)
      /\ pc'[c] = "filled" /\ pid'[c] = Watched
  <2>1. Stamp(c) /\ UNCHANGED pid
    BY <1>1 DEF Stamps, Step, GetListed, EnterPidFill, FilterAndCache, ReadCPU, ReadFiles,
         GetLast, Stamp, Fail, Collect, SetPid, SetMap, NextPid, Return, TypeOK
  <2> QED BY <1>1, <2>1, StampStep DEF Stamps
<1>3. \A d \in Callers : d = c
  BY OneCaller DEF OneCaller
<1>4. result' = None /\ result = None
  <2>1. result = None
    BY DEF ComputedInv, Stamps
  <2> QED BY <1>2, <1>3, <2>1 DEF SNext
<1>5. Cand = None /\ Cand' = AsSample(status[c])'
  <2>1. Cand = AsSample(Taken(c))
    BY CandOfCaller, OneCaller
  <2>2. (OneCaller => Cand = AsSample(Taken(c)))'
    BY CandOfCaller, PTL
  <2> QED BY <1>2, <2>1, <2>2, OneCaller DEF AsSample, OneCaller
<1>6. status'[c] \in ProcState
  BY <1>1 DEF TypeOK
<1>7. /\ Cand' = [life |-> 0, count |-> status'[c].ticks, clock |-> status'[c].sample]
      /\ Cand' \in S!Sample
  BY <1>5, <1>6, SampleOf
<1>8. S!Follows(Cand')
  <2>1. CASE pids[Watched] = None
    BY <2>1 DEF S!Follows, Kept, AsSample
  <2>2. CASE pids[Watched] # None
    <3>1. pids[Watched] \in ProcState
      BY <1>1, <2>2, TakenType
    <3>2. Kept = [life |-> 0, count |-> pids[Watched].ticks, clock |-> pids[Watched].sample]
      BY <3>1, SampleOf DEF Kept
    <3>3. pids[Watched].ticks <= status'[c].ticks
      BY <1>1, <1>2, <2>2 DEF BaseInv, Measured
    <3> QED BY <1>7, <3>2, <3>3 DEF S!Follows
  <2> QED BY <2>1, <2>2
<1>9. Kept' = Kept
  BY <1>2 DEF Kept
<1> QED BY <1>4, <1>5, <1>7, <1>8, <1>9 DEF S!Take

(* A return reports, and keeps what it reported up to. *)
LEMMA WatchedReport ==
  ASSUME OneCaller, IInv, ComputedInv, NEW c \in Callers, Step(c), Returns(c), SNext
  PROVE  S!First \/ S!Compare
<1>1. TypeOK /\ LoopInv /\ BaseInv
  BY DEF IInv
<1>2. /\ Taken(c) # None /\ Taken(c)' = None /\ pids'[Watched] = Taken(c)
  BY <1>1, ReturnStep
<1>3. result' = computed
  BY DEF SNext
<1>4. computed = Difference(Taken(c))
  BY <1>2 DEF ComputedInv
<1>5. Cand = AsSample(Taken(c)) /\ Cand' = None
  <2>1. Cand = AsSample(Taken(c))
    BY CandOfCaller, OneCaller
  <2>2. (OneCaller => Cand = AsSample(Taken(c)))'
    BY CandOfCaller, PTL
  <2> QED BY <1>2, <2>1, <2>2, OneCaller DEF AsSample, OneCaller
<1>6. Kept' = Cand
  BY <1>2, <1>5 DEF Kept
<1>7. /\ Taken(c) \in ProcState
      /\ Cand = [life |-> 0, count |-> Taken(c).ticks, clock |-> Taken(c).sample]
      /\ Cand # None
  BY <1>1, <1>2, <1>5, TakenType, SampleOf
<1>8. CASE pids[Watched] = None
  BY <1>3, <1>4, <1>5, <1>6, <1>7, <1>8 DEF S!First, Kept, AsSample, Difference
<1>9. CASE pids[Watched] # None
  <2>1. /\ pids[Watched] \in ProcState
        /\ Kept = [life |-> 0, count |-> pids[Watched].ticks, clock |-> pids[Watched].sample]
        /\ Kept # None
    BY <1>1, <1>9, TakenType, SampleOf DEF Kept
  <2>2. Taken(c).sample - pids[Watched].sample \in 0..MaxTime
    <3>1. pids[Watched].sample <= Taken(c).sample
      BY <1>1, <1>2, <1>9, TakenFollows
    <3>2. Taken(c).sample <= now /\ now <= MaxTime
      BY <1>2, WatchedAssumption DEF IInv, SampleInv, ComputedInv, Taken
    <3>3. Taken(c).sample \in Nat /\ pids[Watched].sample \in Nat /\ now \in Nat
      BY <1>1, <1>7, <2>1 DEF ProcState, TypeOK
    <3> QED BY <3>1, <3>2, <3>3, BoundsAssumption
  <2> DEFINE d == Taken(c).sample - pids[Watched].sample
  <2>3. d % (MaxTime + 1) = d
    <3>1. d \in 0..MaxTime /\ MaxTime \in Nat
      BY <2>2, BoundsAssumption
    <3> HIDE DEF d
    <3> QED BY <3>1
  <2>4. computed = [count |-> Cand.count - Kept.count,
                    clock |-> (Cand.clock - Kept.clock) % (MaxTime + 1)]
    BY <1>4, <1>7, <1>9, <2>1, <2>3 DEF Difference
  <2> QED BY <1>3, <1>5, <1>6, <1>7, <2>1, <2>4 DEF S!Compare, S!SameLife
<1> QED BY <1>8, <1>9

LEMMA WatchedStep ==
  ASSUME OneCaller
  PROVE  IInv /\ IInv' /\ ComputedInv /\ [SNext]_svars => [S!Next]_(S!vars)
<1> SUFFICES ASSUME IInv, IInv', ComputedInv, [SNext]_svars
             PROVE  S!Next \/ UNCHANGED <<Kept, Cand, result>>
  BY DEF S!vars
<1>1. CASE UNCHANGED svars
  BY <1>1 DEF svars, avars, vars, Kept, Cand, Takers, Taken
<1>2. ASSUME NEW c \in Callers, Step(c), SNext PROVE S!Next
  <2>1. CASE Stamps(c)
    BY <1>2, <2>1, WatchedTake, OneCaller DEF S!Next
  <2>2. CASE Returns(c)
    BY <1>2, <2>2, WatchedReport, OneCaller DEF S!Next
  <2>3. CASE ~Stamps(c) /\ ~Returns(c)
    <3>1. /\ Taken(c)' = Taken(c)
          /\ \/ pids'[Watched] = pids[Watched]
             \/ Taken(c) = None /\ pids'[Watched] = None
      BY <1>2, <2>3, QuietStep DEF IInv
    <3>2. result' = None
      BY <1>2, <2>3, OneCaller DEF SNext, OneCaller
    <3>3. Cand = AsSample(Taken(c)) /\ Cand' = Cand
      <4>1. Cand = AsSample(Taken(c))
        BY CandOfCaller, OneCaller
      <4>2. (OneCaller => Cand = AsSample(Taken(c)))'
        BY CandOfCaller, PTL
      <4> QED BY <3>1, <4>1, <4>2, OneCaller DEF AsSample, OneCaller
    <3>4. CASE pids'[Watched] = pids[Watched]
      BY <3>2, <3>3, <3>4 DEF S!Next, S!Forget, Kept
    <3>5. CASE Taken(c) = None /\ pids'[Watched] = None
      BY <3>2, <3>3, <3>5 DEF S!Next, S!Lose, Kept, AsSample
    <3> QED BY <3>1, <3>4, <3>5
  <2> QED BY <2>1, <2>2, <2>3
<1>3. ASSUME SNext, ~\E c \in Callers : Step(c) PROVE S!Forget
  <2>1. /\ \A c \in Callers : Taken(c)' = Taken(c) /\ ~Stamps(c) /\ ~Returns(c)
        /\ pids' = pids
    BY <1>3, QuietRest DEF IInv, SNext, ANext
  <2>2. result' = None /\ Kept' = Kept /\ Takers' = Takers
    BY <1>3, <2>1 DEF SNext, Kept, Takers
  <2>3. Cand' = Cand
    <3>1. CASE Takers = {}
      BY <2>2, <3>1 DEF Cand
    <3>2. CASE Takers # {}
      <4>1. PICK c \in Callers : TRUE
        BY <3>2 DEF Takers
      <4>2. Cand = AsSample(Taken(c))
        BY CandOfCaller, OneCaller
      <4>3. (OneCaller => Cand = AsSample(Taken(c)))'
        BY CandOfCaller, PTL
      <4> QED BY <2>1, <4>2, <4>3, OneCaller DEF AsSample, OneCaller
    <3> QED BY <3>1, <3>2
  <2> QED BY <2>2, <2>3 DEF S!Forget
<1> QED BY <1>1, <1>2, <1>3 DEF S!Next

(* To one caller, and if no pid is reused, Stats is a Sampler of any pid,  *)
(* whatever the caller asks for and in whatever order.                     *)
THEOREM PidSampledCorrect ==
  ASSUME NoPidReuse, OneCaller
  PROVE  SSpec => PidIsSampled
<1>1. [SNext]_svars => [Next]_vars
  BY DEF SNext, svars, ANext, avars
<1>2. SSpec => []IInv
  BY <1>1, NoPidReuse, OneCaller, TypeInit, TypeStep, SampleInit, SampleNext,
     OwnerInit, OwnerNext, LoopInit, LoopNext, TicksInit, TicksNext, BaseInit,
     BaseNext, PTL DEF SSpec, SInit, AInit, IInv
<1>3. SSpec => []ComputedInv
  BY <1>2, ComputedInit, ComputedNext, OneCaller, PTL DEF SSpec
<1>4. SInit => S!Init
  BY WatchedAssumption, NoEntriesAt
     DEF SInit, AInit, Init, S!Init, Kept, Cand, Takers, Taken, AsSample
<1> QED BY <1>2, <1>3, <1>4, WatchedStep, OneCaller, PTL DEF SSpec, S!Spec, PidIsSampled
=============================================================================
