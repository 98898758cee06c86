----------------------------- MODULE DiskIOSampler -----------------------------
(***************************************************************************)
(* IOStat keeps a counter of each device but one CPU sample for all, and   *)
(* moves it once a round.  To each device it is a Sampler all the same.    *)
(***************************************************************************)
EXTENDS DiskIO

CONSTANT Watched  \* one of the devices

(* keptAt is when the last counter was kept, which IOStat does not know:   *)
(* it calculates with lastCPU.                                             *)
Kept == IF lastCounters[Watched] = None THEN None
        ELSE [life |-> lastCounters[Watched].life,
              count |-> lastCounters[Watched].ios, clock |-> keptAt[Watched]]

Cand == IF pc # "open" \/ counters[Watched] = None THEN None
        ELSE [life |-> counters[Watched].life,
              count |-> counters[Watched].ios, clock |-> curCPU]

Reported == IF result = None \/ result.device # Watched THEN None
            ELSE [count |-> result.ios, clock |-> result.cpu]

S == INSTANCE Sampler WITH
       Width <- Width64, Refuses <- TRUE, Loses <- FALSE,
       kept <- Kept, cand <- Cand, result <- Reported

ASSUME WatchedAssumption ==
  /\ Watched \in Devices
  /\ None \notin S!Sample \cup S!Report

-----------------------------------------------------------------------------
(* Properties *)

(* IOStat implements Sampler for every device: each result is made of what *)
(* the device and the CPU counted since the result before, whatever was    *)
(* rejected, given up or unplugged in between.                             *)
ImplementsSampler == S!Spec
=============================================================================
