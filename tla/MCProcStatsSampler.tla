-------------------------- MODULE MCProcStatsSampler --------------------------
(* ProcStatsSampler for TLC, with the constants of MCProcStats. *)
EXTENDS ProcStatsSampler, TLC

CONSTANTS beat, shell

OwnPids == (beat :> 1) @@ (shell :> 2)
=============================================================================
