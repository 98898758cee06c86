----------------------------- MODULE MCProcStats -----------------------------
(* ProcStats for TLC: the beat itself and other processes. *)
EXTENDS ProcStats, TLC

CONSTANTS beat, shell, cron

OwnPids == (beat :> 1) @@ (shell :> 2)

(* Two processes, one after the other, under one pid. *)
SharedPid == (beat :> 1) @@ (shell :> 2) @@ (cron :> 2)
Either == Permutations({shell, cron})
=============================================================================
