---------------------------- MODULE MCCpuMonitor ----------------------------
(* CpuMonitor for TLC: NoCore is -1, so cores are numbers as in /proc/stat. *)
EXTENDS CpuMonitor
=============================================================================
