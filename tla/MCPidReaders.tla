----------------------------- MODULE MCPidReaders -----------------------------
(* PidReaders for TLC: the kernel and the beat, a pid that two processes   *)
(* have in turn, one of which may not be read, and one more process.       *)
EXTENDS PidReaders

CONSTANTS kernel, beat, p1, p2, q

PidOfDef == [p \in Procs |-> 
  CASE p = kernel -> 0 [] p = beat -> 1 [] p = q -> 3 [] OTHER -> 2]
=============================================================================
