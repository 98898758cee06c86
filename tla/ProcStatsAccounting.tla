------------------------- MODULE ProcStatsAccounting -------------------------
(***************************************************************************)
(* ProcStats with a history variable that adds up what the callers were    *)
(* told: the CPU time in the numerators of the percentages.                *)
(***************************************************************************)
EXTENDS ProcStats

VARIABLE reported  \* CPU time reported so far for each process

AInit == Init /\ reported = [x \in Procs |-> 0]

(* This step computes a percentage for c. *)
Reports(c) == pc[c] = "stamp" /\ pc'[c] = "filled" /\ last[c] # None

ANext ==
  /\ Next
  /\ \/ \E c \in Callers :
          /\ Reports(c)
          /\ reported' = [reported EXCEPT ![status[c].cpu] = @ + Used(c)]
     \/ /\ \A c \in Callers : ~Reports(c)
        /\ UNCHANGED reported

avars == <<vars, reported>>

ASpec == AInit /\ [][ANext]_avars

(* CPU time is reported at most once: the percentages of a process account *)
(* for no more CPU time than it has used.  Get, GetOne and GetSelf each    *)
(* replace the baseline that they measured from.                           *)
ReportedOnce == \A x \in Procs : reported[x] <= cpu[x]
=============================================================================
