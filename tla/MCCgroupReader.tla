---------------------------- MODULE MCCgroupReader ----------------------------
(* Instances of CgroupReader for TLC: the root group and one other.        *)
EXTENDS CgroupReader

CONSTANTS slice

(* The V2 slice has its controllers delegated to it, the root group none,  *)
(* as on a hybrid system whose other controllers are those of V1.          *)
Delegated == [g \in Groups |-> IF g = slice THEN {"memory"} ELSE {}]

(* A host, and a container without a view of the host's groups. *)
OnHost == [ignoreRoot |-> TRUE, override |-> None, v2Loc |-> "mounted",
           pressure |-> TRUE]
InDocker == [ignoreRoot |-> TRUE, override |-> Root, v2Loc |-> "hostfs",
             pressure |-> TRUE]
WithoutPressure == [OnHost EXCEPT !.pressure = FALSE]

HostOrDocker == {OnHost, InDocker, WithoutPressure}
=============================================================================
