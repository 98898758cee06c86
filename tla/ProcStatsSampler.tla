--------------------------- MODULE ProcStatsSampler ---------------------------
(***************************************************************************)
(* To its one caller, and as long as a pid has one process, Stats is a     *)
(* Sampler of the pid.  A percentage is computed in the middle of a call,  *)
(* from the baseline that was read then, and becomes a report when the     *)
(* call has put the new sample in place of the baseline.  What the         *)
(* percentage was made of is history, which pidFill forgets.               *)
(***************************************************************************)
EXTENDS ProcStatsAccounting

CONSTANT Watched  \* one of the pids

VARIABLES
  computed,  \* what the percentage of Watched was computed from, until it is reported
  result     \* what the step before reported of it

svars == <<avars, computed, result>>

(* The sample of Watched that the call of c has taken. *)
Taken(c) == IF pc[c] = "filled" /\ pid[c] = Watched THEN status[c]
            ELSE procMap[c][Watched]

Stamps(c) == pc[c] = "stamp" /\ pc'[c] = "filled" /\ pid[c] = Watched

(* GetProcCPUPercentage, with what it divides by what; nothing is computed *)
(* from a first sample.                                                    *)
Computed(c) == IF last[c] = None THEN [count |-> 0, clock |-> 0]
               ELSE [count |-> Used(c), clock |-> Elapsed(c)]

(* SetPid or SetMap is done, and the call returns what it took. *)
Returns(c) == pc[c] \in {"filled", "list"} /\ pc'[c] = "idle" /\ Taken(c) # None

SInit == AInit /\ computed = None /\ result = None

SNext ==
  /\ ANext
  /\ \/ \E c \in Callers : Stamps(c) /\ computed' = Computed(c)'
     \/ (\E c \in Callers : Returns(c)) /\ computed' = None
     \/ (\A c \in Callers : ~Stamps(c) /\ ~Returns(c)) /\ UNCHANGED computed
  /\ result' = IF \E c \in Callers : Returns(c) THEN computed ELSE None

SSpec == SInit /\ [][SNext]_svars

AsSample(ps) == IF ps = None THEN None
                ELSE [life |-> 0, count |-> ps.ticks, clock |-> ps.sample]

Kept == AsSample(pids[Watched])

Takers == {c \in Callers : Taken(c) # None}
Cand == IF Takers = {} THEN None ELSE AsSample(Taken(CHOOSE c \in Takers : TRUE))

S == INSTANCE Sampler WITH
       Width <- MaxTime + 1, Refuses <- FALSE, Loses <- TRUE,
       kept <- Kept, cand <- Cand

ASSUME WatchedAssumption ==
  /\ Watched \in Pids
  /\ None \notin S!Sample \cup S!Report

-----------------------------------------------------------------------------
(* Properties *)

(* Stats implements Sampler for a pid: Get, GetOne and GetSelf, mixed in   *)
(* any order, each report what the process used since the report before,   *)
(* over the time since then; only a call that could not read the process   *)
(* makes a gap.                                                            *)
PidIsSampled == S!Spec
=============================================================================
