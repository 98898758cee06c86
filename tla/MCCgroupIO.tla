------------------------------ MODULE MCCgroupIO ------------------------------
(* CgroupIO for TLC: two loop devices that share a line, and a disk, with  *)
(* two names in /dev.                                                      *)
EXTENDS CgroupIO

CONSTANTS loop0, loop1, sda

NamesDef == <<"disk", "loop">>
LinesDef == <<<<loop0, loop1>>, <<sda>>>>
=============================================================================
