-------------------------------- MODULE MCHwmon --------------------------------
(* Hwmon for TLC: a chip with three sensors, two of whose labels have one  *)
(* key; one with an oddly named file; one with an input that cannot be     *)
(* read; and one that has a label without an input.                        *)
EXTENDS Hwmon

CONSTANTS h0, h1

SensorsDef == {"temp1", "temp2", "fan1"}
FilesOfDef ==
  [cpu |-> {"temp1", "temp2", "fan1"}, odd |-> {"temp1"}, bad |-> {"temp1", "fan1"},
   bare |-> {"temp1", "fan1"}]
InputOfDef == [FilesOfDef EXCEPT !.bare = {"temp1"}]
UnreadableDef == [cpu |-> {}, odd |-> {}, bad |-> {"fan1"}, bare |-> {}]
KeyOfDef == [Core |-> "core", core |-> "core", temp_1 |-> "temp_1",
             temp_2 |-> "temp_2", fan_1 |-> "fan_1"]
DefaultDef == [temp1 |-> "temp_1", temp2 |-> "temp_2", fan1 |-> "fan_1"]
LabelOfDef ==
  [c \in Chips |-> [s \in Sensors |->
     IF c = "cpu" /\ s = "temp1" THEN "Core"
     ELSE IF <<c, s>> \in {<<"cpu", "temp2">>, <<"bare", "fan1">>, <<"bad", "fan1">>} THEN "core"
     ELSE None]]
=============================================================================
