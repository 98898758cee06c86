-------------------------------- MODULE Hwmon --------------------------------
(***************************************************************************)
(* metric/system/hwmon: DetectHwmon lists the chips under                  *)
(* /sys/class/hwmon and the sensors of each; ReportSensors reads a chip    *)
(* that was listed, file by file and as often as the caller likes, while   *)
(* the kernel binds and unbinds drivers, which makes and removes all files *)
(* of a chip at once.                                                      *)
(***************************************************************************)
EXTENDS Integers

CONSTANTS
  Paths,       \* hwmon directories
  Chips,       \* what a driver may put into one
  Sensors,     \* type and number of a sensor: "temp1", "in0", "fan2"
  FilesOf,     \* of each chip, the sensors that have a file of any kind
  InputOf,     \* of each chip, the sensors that have an _input file
  Unreadable,  \* of each chip, the sensors whose _input cannot be read
  LabelOf,     \* of each chip and sensor, the _label file, or None
  Odd,         \* chips with a file such as temp_reset_history, without a number
  Default,     \* of each sensor, the label made up for it
  KeyOf,       \* of each label, the same in lower case without blanks
  MaxBinds,    \* bound: how often a driver is bound to a path
  None         \* no chip, no label, no sensor

Labels == DOMAIN KeyOf
Keys == {KeyOf[l] : l \in Labels}

ASSUME HwmonAssumption ==
  /\ FilesOf \in [Chips -> SUBSET Sensors]
  /\ InputOf \in [Chips -> SUBSET Sensors]
  /\ Unreadable \in [Chips -> SUBSET Sensors]
  /\ \A c \in Chips : Unreadable[c] \subseteq InputOf[c] /\ InputOf[c] \subseteq FilesOf[c]
  /\ LabelOf \in [Chips -> [Sensors -> Labels \cup {None}]]
  /\ Odd \subseteq Chips
  /\ Default \in [Sensors -> Labels]
  /\ MaxBinds \in Nat
  /\ None \notin Chips \cup Labels \cup Sensors \cup Paths

VARIABLES
  chip,     \* the chip that is bound at each path, or None
  binds,    \* of each path, how often a driver was bound or unbound
  pc,       \* where the call is
  todo,     \* DetectHwmon: paths to look at
  path,     \* the path that is looked at
  found,    \* DetectHwmon: the sensors found in path
  devices,  \* the devices of the last detection: of each path its sensors, or None
  left,     \* ReportSensors: sensors to fetch
  sensor,   \* Fetch: the sensor
  label,    \* Fetch: its label
  metrics,  \* ReportSensors: of each key, the label and the sensor it shows
  since     \* history: binds when the call began

locals == <<todo, path, found, devices, left, sensor, label, metrics>>
vars == <<chip, binds, pc, todo, path, found, devices, left, sensor, label,
          metrics, since>>

NoMetrics == [k \in Keys |-> None]

Init ==
  /\ chip \in [Paths -> Chips \cup {None}]
  /\ binds = [p \in Paths |-> 0]
  /\ pc = "idle"
  /\ todo = {}
  /\ path = None
  /\ found = {}
  /\ devices = [p \in Paths |-> None]
  /\ left = {}
  /\ sensor = None
  /\ label = None
  /\ metrics = NoMetrics
  /\ since = binds

(* A driver is unbound, or one is bound in its place. *)
Rebind(p, c) ==
  /\ chip[p] # c
  /\ binds[p] < MaxBinds
  /\ chip' = [chip EXCEPT ![p] = c]
  /\ binds' = [binds EXCEPT ![p] = @ + 1]
  /\ UNCHANGED <<pc, locals, since>>

-----------------------------------------------------------------------------
(* DetectHwmon *)

kernel == <<chip, binds, since>>
report == <<left, sensor, label, metrics>>

(* Any error ends the detection. *)
DetectionFails ==
  /\ pc' = "failed"
  /\ devices' = [p \in Paths |-> None]
  /\ UNCHANGED <<todo, path, found>>

ReadDir ==
  /\ pc = "idle"
  /\ pc' = "paths"
  /\ todo' = {p \in Paths : chip[p] # None}
  /\ devices' = [p \in Paths |-> None]
  /\ since' = binds
  /\ UNCHANGED <<chip, binds, path, found, report>>

(* Lstat and Readlink. *)
ResolvePath(p) ==
  /\ pc = "paths" /\ p \in todo
  /\ \/ chip[p] # None /\ pc' = "sensors" /\ path' = p /\ todo' = todo \ {p}
        /\ UNCHANGED <<found, devices>>
     \/ chip[p] = None /\ DetectionFails
  /\ UNCHANGED <<kernel, report>>

(* Mutant: a file without a number makes the chip pass for one without     *)
(* sensors.                                                                *)
findSensorsInPathLenient ==
  /\ pc = "sensors"
  /\ \/ /\ chip[path] # None
        /\ found' = IF chip[path] \in Odd THEN {} ELSE FilesOf[chip[path]]
        /\ pc' = "name"
        /\ UNCHANGED <<todo, path, devices>>
     \/ chip[path] = None /\ DetectionFails
  /\ UNCHANGED <<kernel, report>>

(* A file of a known type whose name has no number is an error. *)
findSensorsInPath ==
  /\ pc = "sensors"
  /\ \/ /\ chip[path] # None /\ chip[path] \notin Odd
        /\ found' = FilesOf[chip[path]]
        /\ pc' = "name"
        /\ UNCHANGED <<todo, path, devices>>
     \/ (chip[path] = None \/ chip[path] \in Odd) /\ DetectionFails
  /\ UNCHANGED <<kernel, report>>

ReadName ==
  /\ pc = "name"
  /\ \/ /\ chip[path] # None
        /\ devices' = [devices EXCEPT ![path] = found]
        /\ pc' = "paths"
        /\ UNCHANGED <<todo, path, found>>
     \/ chip[path] = None /\ DetectionFails
  /\ UNCHANGED <<kernel, report>>

(* A list without a device is an error. *)
DetectionDone ==
  /\ pc = "paths" /\ todo = {}
  /\ \/ (\E p \in Paths : devices[p] # None) /\ pc' = "detected"
        /\ UNCHANGED <<todo, path, found, devices>>
     \/ (\A p \in Paths : devices[p] = None) /\ DetectionFails
  /\ UNCHANGED <<kernel, report>>

-----------------------------------------------------------------------------
(* ReportSensors *)

detect == <<todo, found, devices>>

ReportFails == pc' = "failed" /\ UNCHANGED <<left, sensor, label, metrics>>

ReportSensors(p) ==
  /\ pc = "idle" /\ devices[p] # None
  /\ pc' = "next"
  /\ path' = p
  /\ left' = devices[p]
  /\ sensor' = None
  /\ label' = None
  /\ metrics' = NoMetrics
  /\ since' = binds
  /\ UNCHANGED <<chip, binds, detect>>

(* The file is there when Fetch reads it. *)
HasLabel(s) == chip[path] # None /\ s \in FilesOf[chip[path]] /\ LabelOf[chip[path]][s] # None
HasInput(s) == chip[path] # None /\ s \in InputOf[chip[path]]
CanRead(s) == HasInput(s) /\ s \notin Unreadable[chip[path]]

(* Mutant: a sensor without a label keeps that of the one before it. *)
FetchLabelStale(s) ==
  /\ pc = "next" /\ s \in left
  /\ sensor' = s
  /\ left' = left \ {s}
  /\ label' = IF HasLabel(s) THEN LabelOf[chip[path]][s]
              ELSE IF label = None THEN Default[s] ELSE label
  /\ pc' = "input"
  /\ UNCHANGED <<kernel, detect, path, metrics>>

(* Fetch: the label, or one that is made up.  A label that is there may be *)
(* as unreadable as the input.                                             *)
FetchLabel(s) ==
  /\ pc = "next" /\ s \in left
  /\ \/ /\ sensor' = s
        /\ left' = left \ {s}
        /\ label' = IF HasLabel(s) THEN LabelOf[chip[path]][s] ELSE Default[s]
        /\ pc' = "input"
        /\ UNCHANGED metrics
     \/ HasLabel(s) /\ s \in Unreadable[chip[path]] /\ ReportFails
  /\ UNCHANGED <<kernel, detect, path>>

(* Fetch: the value, and what else there is of _crit, _max, _lowest and    *)
(* _average.  getValueForSensor wraps the error of a missing file, so that *)
(* Fetch does not recognise it, and ErrNoMetric is never returned.         *)
FetchInput ==
  /\ pc = "input"
  /\ \/ /\ CanRead(sensor)
        /\ metrics' = [metrics EXCEPT ![KeyOf[label]] = <<label, sensor>>]
        /\ pc' = "next"
        /\ UNCHANGED <<left, sensor, label>>
     \/ ~CanRead(sensor) /\ ReportFails
  /\ UNCHANGED <<kernel, detect, path>>

ReportDone ==
  /\ pc = "next" /\ left = {}
  /\ pc' = "reported"
  /\ UNCHANGED <<kernel, locals>>

Return ==
  /\ pc \in {"detected", "reported", "failed"}
  /\ pc' = "idle"
  /\ UNCHANGED <<kernel, locals>>

Next ==
  \/ \E p \in Paths, c \in Chips \cup {None} : Rebind(p, c)
  \/ ReadDir
  \/ \E p \in Paths : ResolvePath(p) \/ ReportSensors(p)
  \/ findSensorsInPath
  \/ ReadName
  \/ DetectionDone
  \/ \E s \in Sensors : FetchLabel(s)
  \/ FetchInput
  \/ ReportDone
  \/ Return

Spec == Init /\ [][Next]_vars

-----------------------------------------------------------------------------
(* Properties *)

(* The type of every variable. *)
TypeOK ==
  /\ chip \in [Paths -> Chips \cup {None}]
  /\ binds \in [Paths -> 0..MaxBinds]
  /\ pc \in {"idle", "paths", "sensors", "name", "next", "input", "detected",
             "reported", "failed"}
  /\ todo \subseteq Paths
  /\ path \in Paths \cup {None}
  /\ found \subseteq Sensors
  /\ devices \in [Paths -> (SUBSET Sensors) \cup {None}]
  /\ left \subseteq Sensors
  /\ sensor \in Sensors \cup {None}
  /\ label \in Labels \cup {None}
  /\ metrics \in [Keys -> (Labels \X Sensors) \cup {None}]
  /\ since \in [Paths -> 0..MaxBinds]

(* No driver was bound to p or unbound since the call began. *)
Still(p) == binds[p] = since[p]

(* A detection that succeeds has every chip that was bound all the time,   *)
(* with all its sensors: what it cannot make out fails it as a whole.      *)
DetectionComplete ==
  pc = "detected" =>
    \A p \in Paths : Still(p) /\ chip[p] # None => devices[p] = FilesOf[chip[p]]

(* The label of a sensor, and the key that stands for it in the report. *)
LabelOfSensor(s) == IF HasLabel(s) THEN LabelOf[chip[path]][s] ELSE Default[s]
KeyOfSensor(s) == KeyOf[LabelOfSensor(s)]

(* A report that succeeds has every sensor of the device that could be     *)
(* read all the time, unless the label of another sensor has the same key, *)
(* and a value in it stands under the label of its own sensor.             *)
ReportComplete ==
  pc = "reported" /\ Still(path) =>
    /\ \A s \in devices[path] :
         CanRead(s) /\ (\A t \in devices[path] \ {s} : KeyOfSensor(t) # KeyOfSensor(s)) =>
           metrics[KeyOfSensor(s)] = <<LabelOfSensor(s), s>>
    /\ \A k \in Keys :
         metrics[k] # None => metrics[k][1] = LabelOfSensor(metrics[k][2])
=============================================================================
