------------------------------ MODULE HwmonProofs ------------------------------
(* Proofs about Hwmon, for any chips, sensors and labels.                   *)
EXTENDS Hwmon, TLAPS

USE HwmonAssumption DEF kernel, report, detect

-----------------------------------------------------------------------------
(* Types *)

(* The sensor that Fetch is at, and the path of the device. *)
PathInv ==
  /\ pc \in {"sensors", "name", "next", "input", "reported"} => path \in Paths
  /\ pc = "input" => sensor \in Sensors /\ label \in Labels
  /\ pc \in {"next", "input", "reported"} =>
       devices[path] \subseteq Sensors /\ left \subseteq devices[path]

LEMMA TypeInit == Init => TypeOK /\ PathInv
BY DEF Init, TypeOK, PathInv, NoMetrics

LEMMA LabelOfSensorType ==
  ASSUME TypeOK, path \in Paths, NEW s \in Sensors
  PROVE  LabelOfSensor(s) \in Labels /\ KeyOfSensor(s) \in Keys
<1>1. LabelOfSensor(s) \in Labels
  BY DEF TypeOK, LabelOfSensor, HasLabel
<1> QED BY <1>1 DEF KeyOfSensor, Keys

LEMMA FetchLabelType ==
  ASSUME TypeOK, PathInv, NEW s \in Sensors, FetchLabel(s)
  PROVE  TypeOK' /\ PathInv'
<1>6. CASE ReportFails
  BY <1>6 DEF FetchLabel, ReportFails, TypeOK, PathInv, kernel, detect
<1>. SUFFICES ASSUME ~ReportFails PROVE TypeOK' /\ PathInv'
  BY <1>6
<1>1. /\ UNCHANGED <<chip, binds, since, todo, found, devices, path, metrics>>
      /\ pc = "next" /\ pc' = "input" /\ sensor' = s /\ left' = left \ {s}
      /\ label' = LabelOfSensor(s)
  BY DEF FetchLabel, LabelOfSensor
<1>2. path \in Paths /\ left' \subseteq Sensors
  BY <1>1 DEF PathInv, TypeOK
<1>3. label' \in Labels
  BY <1>1, <1>2, LabelOfSensorType
<1>4. TypeOK'
  BY <1>1, <1>2, <1>3 DEF TypeOK
<1>5. PathInv'
  BY <1>1, <1>2, <1>3 DEF PathInv
<1> QED BY <1>4, <1>5

LEMMA TypeStep == TypeOK /\ PathInv /\ [Next]_vars => TypeOK' /\ PathInv'
<1> SUFFICES ASSUME TypeOK, PathInv, [Next]_vars PROVE TypeOK' /\ PathInv'
  OBVIOUS
<1> USE DEF TypeOK, PathInv
<1>1. ASSUME NEW p \in Paths, NEW c \in Chips \cup {None}, Rebind(p, c)
      PROVE  TypeOK' /\ PathInv'
  BY <1>1 DEF Rebind, locals
<1>2. CASE ReadDir
  BY <1>2 DEF ReadDir
<1>3. ASSUME NEW p \in Paths, ResolvePath(p) PROVE TypeOK' /\ PathInv'
  BY <1>3 DEF ResolvePath, DetectionFails
<1>4. ASSUME NEW p \in Paths, ReportSensors(p) PROVE TypeOK' /\ PathInv'
  BY <1>4 DEF ReportSensors, NoMetrics
<1>5. CASE findSensorsInPath
  BY <1>5 DEF findSensorsInPath, DetectionFails
<1>6. CASE ReadName
  BY <1>6 DEF ReadName, DetectionFails
<1>7. CASE DetectionDone
  BY <1>7 DEF DetectionDone, DetectionFails
<1>8. ASSUME NEW s \in Sensors, FetchLabel(s) PROVE TypeOK' /\ PathInv'
  BY <1>8, FetchLabelType
<1>9. CASE FetchInput
  <2>1. CASE ~CanRead(sensor)
    BY <1>9, <2>1 DEF FetchInput, ReportFails
  <2>2. CASE CanRead(sensor)
    <3>1. /\ UNCHANGED <<chip, binds, since, todo, found, devices, path, left, sensor, label>>
          /\ pc = "input" /\ pc' = "next"
          /\ metrics' = [metrics EXCEPT ![KeyOf[label]] = <<label, sensor>>]
      BY <1>9, <2>2 DEF FetchInput
    <3>2. <<label, sensor>> \in Labels \X Sensors
      BY <3>1
    <3>3. metrics' \in [Keys -> (Labels \X Sensors) \cup {None}]
      BY <3>1, <3>2
    <3> QED BY <3>1, <3>3
  <2> QED BY <2>1, <2>2
<1>10. CASE ReportDone
  BY <1>10 DEF ReportDone, locals
<1>11. CASE Return
  BY <1>11 DEF Return, locals
<1>12. CASE UNCHANGED vars
  BY <1>12 DEF vars
<1> QED BY <1>1, <1>2, <1>3, <1>4, <1>5, <1>6, <1>7, <1>8, <1>9, <1>10, <1>11, <1>12
        DEF Next

(* Every variable of Hwmon keeps its type. *)
THEOREM TypeCorrect == Spec => []TypeOK
<1> QED BY TypeInit, TypeStep, PTL DEF Spec

-----------------------------------------------------------------------------
(* Detection *)

(* A chip that stayed is still to be looked at, is being looked at, or is  *)
(* in the list with its sensors.                                           *)
DetectInv ==
  /\ \A p \in Paths : since[p] <= binds[p]
  /\ pc \in {"paths", "sensors", "name", "detected"} =>
       \A p \in Paths : Still(p) /\ chip[p] # None =>
         \/ pc # "detected" /\ p \in todo
         \/ pc \in {"sensors", "name"} /\ path = p
         \/ devices[p] = FilesOf[chip[p]]
  /\ pc = "name" /\ Still(path) /\ chip[path] # None => found = FilesOf[chip[path]]

LEMMA DetectInit == Init => DetectInv
BY DEF Init, DetectInv

LEMMA DetectStep == TypeOK /\ PathInv /\ DetectInv /\ [Next]_vars => DetectInv'
<1> SUFFICES ASSUME TypeOK, PathInv, DetectInv, [Next]_vars PROVE DetectInv'
  OBVIOUS
<1> USE DEF TypeOK, PathInv, DetectInv, Still
<1>1. ASSUME NEW p \in Paths, NEW c \in Chips \cup {None}, Rebind(p, c)
      PROVE  DetectInv'
  BY <1>1 DEF Rebind, locals
<1>2. CASE ReadDir
  BY <1>2 DEF ReadDir
<1>3. ASSUME NEW p \in Paths, ResolvePath(p) PROVE DetectInv'
  BY <1>3 DEF ResolvePath, DetectionFails
<1>4. ASSUME NEW p \in Paths, ReportSensors(p) PROVE DetectInv'
  BY <1>4 DEF ReportSensors
<1>5. CASE findSensorsInPath
  BY <1>5 DEF findSensorsInPath, DetectionFails
<1>6. CASE ReadName
  BY <1>6 DEF ReadName, DetectionFails
<1>7. CASE DetectionDone
  BY <1>7 DEF DetectionDone, DetectionFails
<1>8. ASSUME NEW s \in Sensors, FetchLabel(s) PROVE DetectInv'
  BY <1>8 DEF FetchLabel, ReportFails
<1>9. CASE FetchInput
  BY <1>9 DEF FetchInput, ReportFails
<1>10. CASE ReportDone
  BY <1>10 DEF ReportDone, locals
<1>11. CASE Return
  BY <1>11 DEF Return, locals
<1>12. CASE UNCHANGED vars
  BY <1>12 DEF vars
<1> QED BY <1>1, <1>2, <1>3, <1>4, <1>5, <1>6, <1>7, <1>8, <1>9, <1>10, <1>11, <1>12
        DEF Next

(* Whatever drivers are bound and unbound while DetectHwmon runs, a        *)
(* detection that succeeds has every chip that stayed, with all sensors.   *)
THEOREM DetectionCorrect == Spec => []DetectionComplete
<1>1. DetectInv => DetectionComplete
  BY DEF DetectInv, DetectionComplete
<1> QED BY <1>1, TypeInit, TypeStep, DetectInit, DetectStep, PTL DEF Spec

-----------------------------------------------------------------------------
(* Reports *)

(* The sensors that have been fetched. *)
Fetched == devices[path] \ (left \cup IF pc = "input" THEN {sensor} ELSE {})

(* No other sensor of the device has the key of s. *)
OwnKey(s) == \A t \in devices[path] \ {s} : KeyOfSensor(t) # KeyOfSensor(s)

(* While the driver stays, what was fetched is there, under its label. *)
ReportInv ==
  pc \in {"next", "input", "reported"} /\ Still(path) =>
    /\ \A s \in Fetched :
         CanRead(s) /\ OwnKey(s) => metrics[KeyOfSensor(s)] = <<LabelOfSensor(s), s>>
    /\ \A k \in Keys : metrics[k] # None => metrics[k][1] = LabelOfSensor(metrics[k][2])
    /\ pc = "input" => sensor \in devices[path] /\ label = LabelOfSensor(sensor)
    /\ pc = "reported" => left = {}

LEMMA ReportInit == Init => ReportInv
BY DEF Init, ReportInv

(* What a sensor shows depends on nothing but the chip of the device. *)
LEMMA ChipFrame ==
  ASSUME UNCHANGED <<path, devices>>, chip'[path] = chip[path]
  PROVE  \A s : /\ LabelOfSensor(s)' = LabelOfSensor(s)
                /\ KeyOfSensor(s)' = KeyOfSensor(s)
                /\ CanRead(s)' <=> CanRead(s)
                /\ OwnKey(s)' <=> OwnKey(s)
<1>1. \A s : /\ LabelOfSensor(s)' = LabelOfSensor(s)
             /\ KeyOfSensor(s)' = KeyOfSensor(s)
             /\ CanRead(s)' <=> CanRead(s)
  BY DEF LabelOfSensor, KeyOfSensor, HasLabel, CanRead, HasInput
<1> QED BY <1>1 DEF OwnKey

(* A step that leaves the report and its chip alone. *)
LEMMA ReportFrame ==
  ASSUME ReportInv, UNCHANGED <<pc, path, devices, left, sensor, label, metrics>>,
         Still(path)' => Still(path) /\ chip'[path] = chip[path]
  PROVE  ReportInv'
<1> SUFFICES ASSUME Still(path)' PROVE ReportInv'
  BY DEF ReportInv
<1>1. Fetched' = Fetched
  BY DEF Fetched
<1> QED BY <1>1, ChipFrame DEF ReportInv

LEMMA FetchInputStep ==
  ASSUME TypeOK, PathInv, ReportInv, FetchInput
  PROVE  ReportInv'
<1>a. /\ UNCHANGED <<chip, binds, since, devices, path>>
      /\ pc' \in {"next", "failed"}
  BY DEF FetchInput, ReportFails
<1>b. Still(path)' <=> Still(path)
  BY <1>a DEF Still
<1> SUFFICES ASSUME pc' = "next", Still(path)
             PROVE  /\ \A s \in Fetched' : CanRead(s) /\ OwnKey(s) =>
                         metrics'[KeyOfSensor(s)] = <<LabelOfSensor(s), s>>
                    /\ \A k \in Keys : metrics'[k] # None =>
                         metrics'[k][1] = LabelOfSensor(metrics'[k][2])
  BY <1>a, <1>b, ChipFrame DEF ReportInv
<1>1. /\ UNCHANGED <<chip, devices, path, left, sensor, label>>
      /\ metrics' = [metrics EXCEPT ![KeyOf[label]] = <<label, sensor>>]
      /\ pc = "input"
  BY DEF FetchInput, ReportFails
<1>2. /\ path \in Paths /\ sensor \in devices[path] /\ sensor \in Sensors
      /\ label = LabelOfSensor(sensor) /\ KeyOf[label] = KeyOfSensor(sensor)
      /\ devices[path] \subseteq Sensors
      /\ KeyOfSensor(sensor) \in Keys /\ metrics \in [Keys -> (Labels \X Sensors) \cup {None}]
  BY <1>1, LabelOfSensorType DEF TypeOK, PathInv, ReportInv, KeyOfSensor
<1>3. \A k \in Keys : metrics'[k] = IF k = KeyOfSensor(sensor)
                                    THEN <<LabelOfSensor(sensor), sensor>> ELSE metrics[k]
  BY <1>1, <1>2
<1>4. ASSUME NEW s \in Fetched', CanRead(s), OwnKey(s)
      PROVE  metrics'[KeyOfSensor(s)] = <<LabelOfSensor(s), s>>
  <2>1. s \in devices[path] /\ KeyOfSensor(s) \in Keys /\ s \notin left
    BY <1>1, <1>2, LabelOfSensorType DEF Fetched
  <2>2. CASE s = sensor
    BY <1>3, <2>1, <2>2
  <2>3. CASE s # sensor
    <3>1. KeyOfSensor(sensor) # KeyOfSensor(s)
      BY <1>2, <1>4, <2>3 DEF OwnKey
    <3>2. metrics[KeyOfSensor(s)] = <<LabelOfSensor(s), s>>
      BY <1>1, <1>4, <2>1, <2>3 DEF ReportInv, Fetched
    <3> QED BY <1>3, <2>1, <3>1, <3>2
  <2> QED BY <2>2, <2>3
<1>5. ASSUME NEW k \in Keys, metrics'[k] # None
      PROVE  metrics'[k][1] = LabelOfSensor(metrics'[k][2])
  BY <1>1, <1>3, <1>5 DEF ReportInv
<1> QED BY <1>4, <1>5

LEMMA ReportStep ==
  TypeOK /\ PathInv /\ DetectInv /\ ReportInv /\ [Next]_vars => ReportInv'
<1> SUFFICES ASSUME TypeOK, PathInv, DetectInv, ReportInv, [Next]_vars PROVE ReportInv'
  OBVIOUS
<1>1. ASSUME NEW p \in Paths, NEW c \in Chips \cup {None}, Rebind(p, c)
      PROVE  ReportInv'
  <2>1. UNCHANGED <<pc, path, devices, left, sensor, label, metrics, since>>
    BY <1>1 DEF Rebind, locals
  <2>2. CASE path \in Paths
    <3>1. Still(path)' => Still(path) /\ chip'[path] = chip[path]
      BY <1>1, <2>1, <2>2 DEF Rebind, Still, TypeOK, DetectInv
    <3> QED BY <2>1, <3>1, ReportFrame
  <2>3. CASE path \notin Paths
    BY <2>1, <2>3 DEF PathInv, ReportInv
  <2> QED BY <2>2, <2>3
<1>2. CASE ReadDir \/ (\E p \in Paths : ResolvePath(p)) \/ findSensorsInPath
           \/ ReadName \/ DetectionDone
  <2>1. pc' \notin {"next", "input", "reported"}
    BY <1>2 DEF ReadDir, ResolvePath, findSensorsInPath, ReadName, DetectionDone,
                DetectionFails
  <2> QED BY <2>1 DEF ReportInv
<1>3. ASSUME NEW p \in Paths, ReportSensors(p) PROVE ReportInv'
  BY <1>3 DEF ReportSensors, NoMetrics, ReportInv, Fetched
<1>4. ASSUME NEW s \in Sensors, FetchLabel(s) PROVE ReportInv'
  <2>4. CASE ReportFails
    BY <2>4 DEF ReportFails, ReportInv
  <2>. SUFFICES ASSUME ~ReportFails PROVE ReportInv'
    BY <2>4
  <2>1. /\ UNCHANGED <<chip, binds, since, devices, path, metrics>>
        /\ pc = "next" /\ pc' = "input" /\ s \in left /\ sensor' = s /\ left' = left \ {s}
        /\ label' = LabelOfSensor(s)
    BY <1>4 DEF FetchLabel, LabelOfSensor
  <2>2. Fetched' = Fetched /\ (Still(path)' <=> Still(path))
    BY <2>1 DEF Fetched, Still
  <2>3. s \in devices[path]
    BY <1>4, <2>1 DEF PathInv, ReportInv
  <2> QED BY <2>1, <2>2, <2>3, ChipFrame DEF ReportInv
<1>5. CASE FetchInput
  BY <1>5, FetchInputStep
<1>6. CASE ReportDone
  <2>1. /\ UNCHANGED <<chip, binds, since, devices, path, left, metrics>>
        /\ pc = "next" /\ pc' = "reported" /\ left = {}
    BY <1>6 DEF ReportDone, locals
  <2>2. Fetched' = Fetched /\ (Still(path)' <=> Still(path))
    BY <2>1 DEF Fetched, Still
  <2> QED BY <2>1, <2>2, ChipFrame DEF ReportInv
<1>7. CASE Return
  BY <1>7 DEF Return, ReportInv
<1>8. CASE UNCHANGED vars
  <2>1. /\ UNCHANGED <<chip, binds, since>>
        /\ UNCHANGED <<pc, path, devices, left, sensor, label, metrics>>
    BY <1>8 DEF vars
  <2>2. Still(path)' => Still(path)
    BY <2>1 DEF Still
  <2> QED BY <2>1, <2>2, ReportFrame
<1> QED BY <1>1, <1>2, <1>3, <1>4, <1>5, <1>6, <1>7, <1>8 DEF Next

(* A report that succeeds has every sensor of a chip that stayed that can  *)
(* be read and whose key no other sensor has, and every value in it stands *)
(* under the label of its own sensor.                                      *)
THEOREM ReportCorrect == Spec => []ReportComplete
<1>1. ReportInv => ReportComplete
  BY DEF ReportInv, ReportComplete, Fetched, OwnKey
<1> QED
  BY <1>1, TypeInit, TypeStep, DetectInit, DetectStep, ReportInit, ReportStep, PTL DEF Spec
=============================================================================
