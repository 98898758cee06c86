------------------------------- MODULE MCMemory -------------------------------
(* Memory for TLC: two swap devices, and /proc/meminfo of old and new      *)
(* kernels, with one more key missing.                                     *)
EXTENDS Memory

CONSTANTS s1, s2

LackingDef == {{}} \cup {{"MemAvailable", k} : k \in MeminfoKeys}
                  \cup {{"MemTotal"}, {"MemFree"}, {"SwapTotal"}, {"SwapFree"}}
=============================================================================
