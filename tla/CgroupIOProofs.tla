---------------------------- MODULE CgroupIOProofs ----------------------------
(* Proofs about CgroupIO, for any devices, names, lines and bounds.         *)
EXTENDS CgroupIO, FiniteSetTheorems, WellFoundedInduction, TLAPS

USE DEF v1, parser, v2, Kernel, group

-----------------------------------------------------------------------------
(* Errors *)

(* The history variable does not outlive the group. *)
StayedInv ==
  /\ exists \in BOOLEAN /\ stayed \in BOOLEAN /\ (stayed => exists)
  /\ pc = "error" => ~stayed

LEMMA StayedInit == Init => StayedInv
BY DEF Init, StayedInv

LEMMA StayedStep == StayedInv /\ [Next]_vars => StayedInv'
<1> SUFFICES ASSUME StayedInv, [Next]_vars PROVE StayedInv'
  OBVIOUS
<1> USE DEF StayedInv
<1>1. ASSUME NEW d \in Devices, NEW op \in Ops, Request(d, op) PROVE StayedInv'
  BY <1>1 DEF Request
<1>2. CASE RemoveGroup \/ CreateGroup
  <2>1. CASE RemoveGroup
    BY <2>1, Zenon DEF RemoveGroup
  <2>2. CASE CreateGroup
    BY <2>2, Zenon DEF CreateGroup
  <2> QED BY <1>2, <2>1, <2>2
<1>3. ASSUME NEW n \in ToSet(Names), NEW d \in Devices \cup {None}, Mknod(n, d)
      PROVE  StayedInv'
  BY <1>3 DEF Mknod
<1>4. CASE IoServiceBytes \/ IoServiced \/ ReadLimits
  BY <1>4 DEF IoServiceBytes, IoServiced, ReadLimits, ReadFails, Begin
<1>5. CASE OpenStat \/ ScanStat
  BY <1>5 DEF OpenStat, ScanStat, Begin
<1>6. CASE WalkDir \/ WalkNode \/ WalkDone \/ LineDone
  BY <1>6 DEF WalkDir, WalkNode, WalkDone, LineDone
<1>7. CASE StatPressure \/ GetPressure
  BY <1>7 DEF StatPressure, GetPressure
<1>8. CASE Return
  BY <1>8 DEF Return
<1>9. CASE UNCHANGED vars
  BY <1>9 DEF vars
<1> QED BY <1>1, <1>2, <1>3, <1>4, <1>5, <1>6, <1>7, <1>8, <1>9 DEF Next

(* Get of a group that stays returns no error, whichever files the kernel  *)
(* lacks and whatever happens to the nodes in /dev.                        *)
THEOREM ErrorCorrect == Spec => []ErrorOnlyIfRemoved
<1>1. StayedInv => ErrorOnlyIfRemoved
  BY DEF StayedInv, ErrorOnlyIfRemoved
<1> QED BY <1>1, StayedInit, StayedStep, PTL DEF Spec

-----------------------------------------------------------------------------
(* Numbers *)

(* The least of a set of numbers. *)
LEMMA LeastNumber ==
  ASSUME NEW T \in SUBSET Nat, T # {}
  PROVE  \E m \in T : \A n \in T : m <= n
<1> DEFINE R == OpToRel(<, Nat)
<1>1. PICK m \in T : \A n \in T : <<n, m>> \notin R
  <2>1. IsWellFoundedOn(R, Nat)
    BY NatLessThanWellFounded, Zenon
  <2> HIDE DEF R
  <2> QED BY <2>1, WFMin
<1>2. \A n \in T : n < m => <<n, m>> \in R
  BY DEF OpToRel
<1> HIDE DEF R
<1>3. \A n \in T : ~(n < m)
  BY <1>1, <1>2
<1> QED BY <1>3

-----------------------------------------------------------------------------
(* Names *)

(* A name that is used for a device stood for it during the call. *)
StandsFor(n, d) == n \in ToSet(Names) => d \in stood[n]

NodesInv ==
  /\ nodes \in [ToSet(Names) -> Devices \cup {None}]
  /\ stood \in [ToSet(Names) -> SUBSET (Devices \cup {None})]
  /\ pc \in {"opened", "line", "walk", "pressure", "stats"} =>
       \A n \in ToSet(Names) : nodes[n] \in stood[n]

(* Of the line that is parsed, each device that was looked for has a name. *)
LineInv ==
  /\ line \in Nat /\ devIds \in Seq(Keys)
  /\ pc \notin {"line", "walk"} => devIds = <<>>
  /\ devIds # <<>> \/ pc = "walk" => line \in DOMAIN Lines
  /\ line \in DOMAIN Lines => Len(devIds) <= Len(Lines[line])
  /\ pc = "line" => line # 0
  /\ pc = "walk" =>
       /\ Len(devIds) < Len(Lines[line])
       /\ listing \subseteq ToSet(Names)
       /\ found # None => found \in ToSet(Names) /\ StandsFor(found, Device)
  /\ \A j \in DOMAIN devIds : StandsFor(devIds[j], Lines[line][j])

(* So has every device whose metrics there are. *)
StatsInv ==
  /\ stats \in [Keys -> [Ops -> Nat] \cup {None}]
  /\ content \in Counts
  /\ pc \notin {"line", "walk", "pressure", "stats", "error"} => stats = NoIO

NamesInv == NodesInv /\ LineInv /\ StatsInv /\ NameStoodForDevice /\ count \in Counts

USE CgroupIOAssumption

LEMMA LinesType ==
  ASSUME NEW k \in DOMAIN Lines
  PROVE  /\ Lines[k] \in Seq(Devices) /\ ToSet(Lines[k]) \subseteq Devices
         /\ \A j \in 1..Len(Lines[k]) : Lines[k][j] \in Devices /\ Lines[k][j] \in ToSet(Lines[k])
BY DEF ToSet

LEMMA NoneNotNat == NoIO \in [Keys -> [Ops -> Nat] \cup {None}] /\ NoCounts \in Counts
BY DEF NoIO, NoCounts, Counts, Ops

LEMMA NamesInit == Init => NamesInv
BY NoneNotNat DEF Init, NamesInv, NodesInv, LineInv, StatsInv, NameStoodForDevice, NoIO,
   Keys

(* A step of the kernel: a name may stand for more. *)
LEMMA NodeStep ==
  ASSUME NamesInv, NEW n \in ToSet(Names), NEW d \in Devices \cup {None}, Mknod(n, d)
  PROVE  NamesInv'
<1>1. /\ UNCHANGED <<count, pc, content, line, devIds, listing, found, stats>>
      /\ nodes' = [nodes EXCEPT ![n] = d]
      /\ stood' = IF pc = "idle" THEN stood ELSE [stood EXCEPT ![n] = @ \cup {d}]
  BY DEF Mknod
<1>2. \A m \in ToSet(Names) : stood[m] \subseteq stood'[m]
  BY <1>1 DEF NamesInv, NodesInv
<1>3. NodesInv'
  BY <1>1 DEF NamesInv, NodesInv
<1>4. \A m, e : StandsFor(m, e) => StandsFor(m, e)'
  BY <1>2 DEF StandsFor
<1>5. LineInv'
  BY <1>1, <1>4 DEF NamesInv, LineInv, Device
<1>6. StatsInv'
  BY <1>1 DEF NamesInv, StatsInv
<1>7. NameStoodForDevice'
  BY <1>1, <1>2 DEF NamesInv, NameStoodForDevice, Metrics
<1> QED BY <1>1, <1>3, <1>5, <1>6, <1>7 DEF NamesInv

LEMMA RequestStep ==
  ASSUME NamesInv, NEW d \in Devices, NEW op \in Ops, Request(d, op)
  PROVE  NamesInv'
<1>1. /\ UNCHANGED <<nodes, stood, pc, content, line, devIds, listing, found, stats>>
      /\ count' = [count EXCEPT ![d][op] = @ + 1]
  BY DEF Request
<1>2. count' \in Counts
  BY <1>1 DEF NamesInv, Counts
<1> QED BY <1>1, <1>2 DEF NamesInv, NodesInv, LineInv, StatsInv, NameStoodForDevice,
           Metrics, Device, StandsFor

(* A step that leaves names, lines and metrics alone. *)
LEMMA NamesFrame ==
  ASSUME NamesInv, UNCHANGED <<nodes, stood, content, line, devIds, listing, found, stats>>,
         count' \in Counts,
         \/ pc' = pc
         \/ /\ devIds = <<>> /\ pc' \notin {"line", "walk"}
            /\ \/ pc' = "error"
               \/ {pc, pc'} \cap {"opened", "line", "walk", "pressure", "stats", "error"} = {}
               \/ {pc, pc'} \subseteq {"line", "pressure", "stats"}
  PROVE  NamesInv'
<1>1. NodesInv'
  BY DEF NamesInv, NodesInv
<1>2. LineInv'
  BY DEF NamesInv, LineInv, Device, StandsFor
<1>3. StatsInv'
  BY DEF NamesInv, StatsInv
<1>4. NameStoodForDevice'
  BY DEF NamesInv, NameStoodForDevice, Metrics
<1> QED BY <1>1, <1>2, <1>3, <1>4 DEF NamesInv

LEMMA OpenStatStep == ASSUME NamesInv, OpenStat PROVE NamesInv'
<1>1. /\ UNCHANGED <<nodes, count, content, line, devIds, listing, found, stats>>
      /\ pc = "idle" /\ pc' \in {"opened", "error"}
      /\ stood' = [n \in ToSet(Names) |-> {nodes[n]}]
  BY DEF OpenStat, Begin
<1>2. stats = NoIO /\ devIds = <<>>
  BY <1>1 DEF NamesInv, StatsInv, LineInv
<1>3. NodesInv'
  BY <1>1 DEF NamesInv, NodesInv
<1>4. NameStoodForDevice'
  BY <1>1, <1>2 DEF NameStoodForDevice, NoIO, Keys
<1>5. LineInv'
  BY <1>1, <1>2 DEF NamesInv, LineInv
<1>6. StatsInv'
  BY <1>1, <1>2 DEF NamesInv, StatsInv
<1> QED BY <1>1, <1>3, <1>4, <1>5, <1>6 DEF NamesInv

LEMMA ScanStatStep == ASSUME NamesInv, ScanStat PROVE NamesInv'
<1>1. /\ UNCHANGED <<nodes, stood, count, devIds, listing, found, stats>>
      /\ pc = "opened" /\ pc' = "line"
      /\ content' \in {count, NoCounts} /\ line' \in {1, Len(Lines) + 1}
  BY DEF ScanStat
<1>2. stats = NoIO /\ devIds = <<>>
  BY <1>1 DEF NamesInv, StatsInv, LineInv
<1>3. NodesInv'
  BY <1>1 DEF NamesInv, NodesInv
<1>4. NameStoodForDevice'
  BY <1>1, <1>2 DEF NameStoodForDevice, NoIO, Keys
<1>5. LineInv'
  BY <1>1, <1>2 DEF NamesInv, LineInv
<1>6. StatsInv'
  BY <1>1, <1>2, NoneNotNat DEF NamesInv, StatsInv
<1> QED BY <1>1, <1>3, <1>4, <1>5, <1>6 DEF NamesInv

LEMMA WalkDirStep == ASSUME NamesInv, WalkDir PROVE NamesInv'
<1>1. /\ UNCHANGED <<nodes, stood, count, content, line, devIds, stats>>
      /\ pc = "line" /\ pc' = "walk" /\ found' = None
      /\ line <= Len(Lines) /\ Len(devIds) < Len(Lines[line])
      /\ listing' \subseteq ToSet(Names)
  BY DEF WalkDir
<1>2. line \in DOMAIN Lines
  BY <1>1 DEF NamesInv, LineInv
<1>3. LineInv'
  BY <1>1, <1>2 DEF NamesInv, LineInv, StandsFor
<1>4. NodesInv' /\ StatsInv'
  BY <1>1 DEF NamesInv, NodesInv, StatsInv
<1>5. NameStoodForDevice'
  BY <1>1 DEF NamesInv, NameStoodForDevice, Metrics
<1> QED BY <1>1, <1>3, <1>4, <1>5 DEF NamesInv

(* The node that is looked at stands for what it stood for. *)
LEMMA WalkNodeStep == ASSUME NamesInv, WalkNode PROVE NamesInv'
<1>1. /\ UNCHANGED <<nodes, stood, count, content, line, devIds, stats, pc>>
      /\ pc = "walk"
  BY DEF WalkNode
<1>2. PICK i \in DOMAIN Names :
        /\ found' = IF nodes[Names[i]] = Device THEN Names[i] ELSE found
        /\ listing' = listing \ {Names[i]}
  BY DEF WalkNode
<1>3. Names[i] \in ToSet(Names) /\ nodes[Names[i]] \in stood[Names[i]]
  BY <1>1 DEF NamesInv, NodesInv, ToSet
<1>4. Device' = Device
  BY <1>1 DEF Device
<1>5. found' # None => found' \in ToSet(Names) /\ StandsFor(found, Device)'
  BY <1>1, <1>2, <1>3, <1>4 DEF NamesInv, LineInv, StandsFor
<1>6. LineInv'
  BY <1>1, <1>2, <1>5 DEF NamesInv, LineInv, StandsFor
<1>7. NodesInv' /\ StatsInv'
  BY <1>1 DEF NamesInv, NodesInv, StatsInv
<1>8. NameStoodForDevice'
  BY <1>1 DEF NamesInv, NameStoodForDevice, Metrics
<1> QED BY <1>1, <1>6, <1>7, <1>8 DEF NamesInv

LEMMA WalkDoneStep == ASSUME NamesInv, WalkDone PROVE NamesInv'
<1> DEFINE id == IF found = None THEN Device ELSE found
<1>1. /\ UNCHANGED <<nodes, stood, count, content, line, listing, found, stats>>
      /\ pc = "walk" /\ pc' = "line" /\ devIds' = Append(devIds, id)
  BY DEF WalkDone
<1>2. /\ line \in DOMAIN Lines /\ devIds \in Seq(Keys) /\ Len(devIds) < Len(Lines[line])
      /\ found # None => found \in ToSet(Names) /\ StandsFor(found, Device)
  BY <1>1 DEF NamesInv, LineInv
<1>3. Device \in Devices /\ Device = Lines[line][Len(devIds) + 1]
  BY <1>2, LinesType DEF Device
<1>4. id \in Keys /\ StandsFor(id, Device)
  BY <1>2, <1>3 DEF Keys, StandsFor
<1>5. /\ devIds' \in Seq(Keys) /\ Len(devIds') = Len(devIds) + 1
      /\ \A j \in DOMAIN devIds' :
           devIds'[j] = IF j = Len(devIds) + 1 THEN id ELSE devIds[j]
  BY <1>1, <1>2, <1>4
<1>6. \A j \in DOMAIN devIds' : StandsFor(devIds'[j], Lines[line][j])
  <2>1. SUFFICES ASSUME NEW j \in DOMAIN devIds'
                 PROVE  StandsFor(devIds'[j], Lines[line][j])
    OBVIOUS
  <2>2. j = Len(devIds) + 1 \/ j \in DOMAIN devIds
    BY <1>2, <1>5
  <2>3. CASE j = Len(devIds) + 1
    BY <1>3, <1>4, <1>5, <2>3
  <2>4. CASE j # Len(devIds) + 1
    BY <1>5, <2>2, <2>4 DEF NamesInv, LineInv
  <2> QED BY <2>3, <2>4
<1>7. LineInv'
  BY <1>1, <1>2, <1>5, <1>6 DEF NamesInv, LineInv, StandsFor
<1>8. NodesInv' /\ StatsInv'
  BY <1>1 DEF NamesInv, NodesInv, StatsInv
<1>9. NameStoodForDevice'
  BY <1>1 DEF NamesInv, NameStoodForDevice, Metrics
<1> QED BY <1>1, <1>7, <1>8, <1>9 DEF NamesInv

(* All devices of the line have the metrics of its last one. *)
LEMMA LineDoneStep == ASSUME NamesInv, LineDone PROVE NamesInv'
<1>1. /\ UNCHANGED <<nodes, stood, count, content, listing, found, pc>>
      /\ pc = "line" /\ line <= Len(Lines) /\ Len(devIds) = Len(Lines[line])
      /\ line' = line + 1 /\ devIds' = <<>>
      /\ stats' = IF FoundMetrics(line)
                  THEN [key \in Keys |->
                          IF key \in ToSet(devIds) THEN Metrics(line) ELSE stats[key]]
                  ELSE stats
  BY DEF LineDone
<1>2. line \in DOMAIN Lines /\ devIds \in Seq(Keys)
  BY <1>1 DEF NamesInv, LineInv
<1>3. ASSUME NEW key \in ToSet(devIds)
      PROVE  \E e \in ToSet(Lines[line]) : StandsFor(key, e)
  <2>1. PICK j \in DOMAIN devIds : key = devIds[j]
    BY DEF ToSet
  <2>2. StandsFor(key, Lines[line][j])
    BY <2>1 DEF NamesInv, LineInv
  <2>3. Lines[line][j] \in ToSet(Lines[line])
    BY <1>1, <1>2, LinesType
  <2> QED BY <2>2, <2>3
<1>4. ASSUME ToSet(devIds) # {} PROVE Metrics(line) \in [Ops -> Nat]
  <2>1. Len(Lines[line]) # 0
    BY <1>1, <1>2, <1>4 DEF ToSet
  <2>2. Lines[line][Len(Lines[line])] \in Devices
    BY <1>2, <2>1, LinesType
  <2> QED BY <2>2 DEF Metrics, Last, NamesInv, StatsInv, Counts
<1>5. StatsInv'
  BY <1>1, <1>4 DEF NamesInv, StatsInv
<1>6. ASSUME NEW n \in ToSet(Names), stats'[n] # None
      PROVE  \E k \in DOMAIN Lines :
               stats'[n] = Metrics(k) /\ ToSet(Lines[k]) \cap stood[n] # {}
  <2>1. CASE FoundMetrics(line) /\ n \in ToSet(devIds)
    <3>1. stats'[n] = Metrics(line)
      BY <1>1, <2>1 DEF Keys
    <3>2. PICK e \in ToSet(Lines[line]) : StandsFor(n, e)
      BY <1>3, <2>1
    <3> QED BY <1>2, <3>1, <3>2 DEF StandsFor
  <2>2. CASE ~(FoundMetrics(line) /\ n \in ToSet(devIds))
    <3>1. stats'[n] = stats[n]
      BY <1>1, <2>2 DEF Keys
    <3> QED BY <1>6, <3>1 DEF NamesInv, NameStoodForDevice
  <2> QED BY <2>1, <2>2
<1>7. NameStoodForDevice'
  BY <1>1, <1>6 DEF NameStoodForDevice, Metrics
<1>8. LineInv'
  BY <1>1, <1>2 DEF NamesInv, LineInv
<1>9. NodesInv'
  BY <1>1 DEF NamesInv, NodesInv
<1> QED BY <1>1, <1>5, <1>7, <1>8, <1>9 DEF NamesInv

LEMMA ReturnStep == ASSUME NamesInv, Return PROVE NamesInv'
<1>1. /\ UNCHANGED <<nodes, count>>
      /\ pc' = "idle" /\ content' = NoCounts /\ line' = 0 /\ devIds' = <<>>
      /\ listing' = {} /\ found' = None /\ stats' = NoIO
      /\ stood' = [n \in ToSet(Names) |-> {}]
  BY DEF Return
<1> QED BY <1>1, NoneNotNat DEF NamesInv, NodesInv, LineInv, StatsInv, NameStoodForDevice,
           NoIO, Keys

LEMMA NamesStep == NamesInv /\ [Next]_vars => NamesInv'
<1> SUFFICES ASSUME NamesInv, [Next]_vars PROVE NamesInv'
  OBVIOUS
<1>1. CASE RemoveGroup \/ CreateGroup
  BY <1>1, NamesFrame, NoneNotNat DEF RemoveGroup, CreateGroup, NamesInv
<1>2. CASE IoServiceBytes
  <2>1. pc = "idle" /\ pc' \in {"io_serviced", "error"}
        /\ UNCHANGED <<nodes, stood, content, line, devIds, listing, found, stats, count>>
    BY <1>2 DEF IoServiceBytes, Begin
  <2> QED BY <2>1, NamesFrame DEF NamesInv, LineInv
<1>3. CASE IoServiced \/ ReadLimits
  <2>1. pc \in {"io_serviced", "limits"} /\ pc' \in {"limits", "total", "error"}
        /\ UNCHANGED <<nodes, stood, content, line, devIds, listing, found, stats, count>>
    BY <1>3 DEF IoServiced, ReadLimits, ReadFails
  <2> QED BY <2>1, NamesFrame DEF NamesInv, LineInv
<1>4. CASE StatPressure \/ GetPressure
  <2>1. /\ pc \in {"line", "pressure"} /\ pc' \in {"pressure", "stats", "error"}
        /\ UNCHANGED <<nodes, stood, content, line, devIds, listing, found, stats, count>>
        /\ pc = "line" => line > Len(Lines)
    BY <1>4 DEF StatPressure, GetPressure
  <2>2. devIds = <<>>
    <3>1. CASE pc = "pressure"
      BY <3>1 DEF NamesInv, LineInv
    <3>2. CASE pc = "line"
      <4>1. line \notin DOMAIN Lines
        BY <2>1, <3>2
      <4> QED BY <3>2, <4>1 DEF NamesInv, LineInv
    <3> QED BY <2>1, <3>1, <3>2
  <2>3. pc' = "error" \/ {pc, pc'} \subseteq {"line", "pressure", "stats"}
    BY <2>1
  <2> QED BY <2>1, <2>2, <2>3, NamesFrame DEF NamesInv
<1>5. CASE UNCHANGED vars
  BY <1>5, NamesFrame DEF vars, NamesInv
<1> QED BY <1>1, <1>2, <1>3, <1>4, <1>5, RequestStep, NodeStep, OpenStatStep, ScanStatStep,
           WalkDirStep, WalkNodeStep, WalkDoneStep, LineDoneStep, ReturnStep DEF Next

(* What IOSubsystem.Stats shows under a name are the metrics of a device   *)
(* that the name stood for while Get ran, whatever udev does meanwhile.    *)
THEOREM NamesCorrect == Spec => []NameStoodForDevice
<1>1. NamesInv => NameStoodForDevice
  BY DEF NamesInv
<1> QED BY <1>1, NamesInit, NamesStep, PTL DEF Spec

-----------------------------------------------------------------------------
(* Types *)

LEMMA TypeInit == Init => TypeOK
<1> SUFFICES ASSUME Init PROVE TypeOK
  OBVIOUS
<1>1. {exists, stayed, pressure} \subseteq BOOLEAN
  BY Zenon DEF Init
<1>2. {count, bytes, content, begun} \subseteq Counts
  BY NoneNotNat DEF Init
<1>3. /\ nodes \in [ToSet(Names) -> Devices \cup {None}]
      /\ stood \in [ToSet(Names) -> SUBSET (Devices \cup {None})]
      /\ stats \in [Keys -> [Ops -> Nat] \cup {None}]
  BY NoneNotNat DEF Init
<1>4. /\ changes \in 0..MaxChanges /\ line \in 0..(Len(Lines) + 1)
      /\ devIds \in Seq(Keys) /\ listing \subseteq ToSet(Names)
      /\ found \in ToSet(Names) \cup {None} /\ pc = "idle"
      /\ DOMAIN total = {"bytes", "ios"}
  BY DEF Init
<1> QED BY <1>1, <1>2, <1>3, <1>4 DEF TypeOK

LEMMA TypeStep == TypeOK /\ NamesInv /\ NamesInv' /\ [Next]_vars => TypeOK'
<1> SUFFICES ASSUME TypeOK, NamesInv, NamesInv', [Next]_vars PROVE TypeOK'
  OBVIOUS
<1> USE DEF TypeOK
<1>1. /\ nodes' \in [ToSet(Names) -> Devices \cup {None}]
      /\ stood' \in [ToSet(Names) -> SUBSET (Devices \cup {None})]
      /\ stats' \in [Keys -> [Ops -> Nat] \cup {None}]
      /\ count' \in Counts /\ content' \in Counts
      /\ devIds' \in Seq(Keys)
  BY DEF NamesInv, NodesInv, StatsInv, LineInv
<1>2. ASSUME NEW d \in Devices, NEW op \in Ops, Request(d, op) PROVE TypeOK'
  BY <1>1, <1>2 DEF Request
<1>3. CASE RemoveGroup
  <2>1. {exists', stayed', pressure'} \subseteq BOOLEAN
    BY <1>3, Zenon DEF RemoveGroup
  <2> QED BY <1>1, <1>3, <2>1 DEF RemoveGroup
<1>4. CASE CreateGroup
  <2>1. {exists', stayed', pressure'} \subseteq BOOLEAN
    BY <1>4, Zenon DEF CreateGroup
  <2> QED BY <1>1, <1>4, <2>1 DEF CreateGroup
<1>5. ASSUME NEW n \in ToSet(Names), NEW d \in Devices \cup {None}, Mknod(n, d)
      PROVE  TypeOK'
  BY <1>1, <1>5 DEF Mknod
<1>6. CASE IoServiceBytes
  BY <1>1, <1>6, NoneNotNat DEF IoServiceBytes, Begin
<1>7. CASE IoServiced
  BY <1>1, <1>7 DEF IoServiced, ReadFails
<1>8. CASE ReadLimits
  BY <1>1, <1>8 DEF ReadLimits, ReadFails
<1>9. CASE OpenStat
  BY <1>1, <1>9 DEF OpenStat, Begin
<1>10. CASE ScanStat
  BY <1>1, <1>10 DEF ScanStat
<1>11. CASE WalkDir
  BY <1>1, <1>11 DEF WalkDir
<1>12. CASE WalkNode
  <2>1. PICK i \in DOMAIN Names :
          /\ found' = IF nodes[Names[i]] = Device THEN Names[i] ELSE found
          /\ listing' = listing \ {Names[i]}
    BY <1>12 DEF WalkNode
  <2>2. Names[i] \in ToSet(Names)
    BY DEF ToSet
  <2>3. found' \in ToSet(Names) \cup {None} /\ listing' \subseteq ToSet(Names)
    BY <2>1, <2>2
  <2> QED BY <1>1, <1>12, <2>3 DEF WalkNode
<1>13. CASE WalkDone
  BY <1>1, <1>13 DEF WalkDone
<1>14. CASE LineDone
  BY <1>1, <1>14 DEF LineDone
<1>15. CASE StatPressure
  BY <1>1, <1>15 DEF StatPressure
<1>16. CASE GetPressure
  BY <1>1, <1>16 DEF GetPressure
<1>17. CASE Return
  <2>1. {exists', stayed', pressure'} \subseteq BOOLEAN
    BY <1>17, Zenon DEF Return
  <2>2. {count', bytes', content', begun'} \subseteq Counts
    BY <1>1, <1>17, NoneNotNat DEF Return
  <2>3. /\ changes' \in 0..MaxChanges /\ line' \in 0..(Len(Lines) + 1)
        /\ listing' \subseteq ToSet(Names)
        /\ found' \in ToSet(Names) \cup {None} /\ pc' = "idle"
        /\ DOMAIN total' = {"bytes", "ios"}
    BY <1>17 DEF Return
  <2> QED BY <1>1, <2>1, <2>2, <2>3
<1>18. CASE UNCHANGED vars
  BY <1>18 DEF vars
<1> QED BY <1>2, <1>3, <1>4, <1>5, <1>6, <1>7, <1>8, <1>9, <1>10, <1>11, <1>12, <1>13,
           <1>14, <1>15, <1>16, <1>17, <1>18 DEF Next

(* Every variable of CgroupIO keeps its type. *)
THEOREM TypeCorrect == Spec => []TypeOK
<1> QED BY TypeInit, TypeStep, NamesInit, NamesStep, PTL DEF Spec

-----------------------------------------------------------------------------
(* All devices *)

HIDE CgroupIOAssumption

(* Nothing changed in /dev since the call began. *)
Still == \A n \in ToSet(Names) : stood[n] = {nodes[n]}

LineShown(k) ==
  FoundMetrics(k) => \A d \in ToSet(Lines[k]) : stats[NameOf(d)] = Metrics(k)

(* The places of the names that were looked at and stand for the device. *)
Matches == {i \in DOMAIN Names : nodes[Names[i]] = Device /\ Names[i] \notin listing}

(* WalkDir goes in order, and the last match is what was found. *)
WalkInv ==
  /\ \A i, j \in DOMAIN Names : i < j /\ Names[i] \in listing =>
       Names[j] \in listing \/ nodes[Names[j]] = None
  /\ \A n \in ToSet(Names) \ listing : nodes[n] = Device => found # None
  /\ found # None =>
       \E i \in Matches : found = Names[i] /\ \A j \in Matches : j <= i

Calling == {"line", "walk", "pressure", "stats"}

(* The lines so far are shown, and the names of the next one are right. *)
Shown ==
  /\ \A k \in DOMAIN Lines : k < line => LineShown(k)
  /\ \A j \in DOMAIN devIds : devIds[j] = NameOf(Lines[line][j])
  /\ pc \in {"pressure", "stats"} => line > Len(Lines)
  /\ pc = "walk" => WalkInv

ShownInv == pc \in Calling /\ stayed /\ Still => Shown

LEMMA NamesDistinct ==
  /\ DOMAIN Names = 1..Len(Names) /\ Len(Names) \in Nat
  /\ \A i, j \in DOMAIN Names : Names[i] = Names[j] => i = j
  /\ \A i \in DOMAIN Names : Names[i] \in ToSet(Names) /\ Names[i] \notin Devices \cup {None}
BY CgroupIOAssumption DEF ToSet, IsInjective

(* The name of a device is that of its last node, or the device itself. *)
LEMMA NameIs ==
  ASSUME NEW d
  PROVE  /\ (\A i \in DOMAIN Names : nodes[Names[i]] # d) => NameOf(d) = d
         /\ \A i \in DOMAIN Names :
              /\ nodes[Names[i]] = d
              /\ \A j \in DOMAIN Names : nodes[Names[j]] = d => j <= i
              => NameOf(d) = Names[i]
<1> DEFINE is == {i \in DOMAIN Names : nodes[Names[i]] = d}
<1>1. (\A i \in DOMAIN Names : nodes[Names[i]] # d) => NameOf(d) = d
  BY DEF NameOf
<1>2. ASSUME NEW i \in DOMAIN Names, nodes[Names[i]] = d,
             \A j \in DOMAIN Names : nodes[Names[j]] = d => j <= i
      PROVE  NameOf(d) = Names[i]
  <2>1. i \in is /\ \A j \in is : i >= j
    BY <1>2
  <2>2. Max(is) \in is /\ \A j \in is : Max(is) >= j
    BY <2>1 DEF Max
  <2>3. Max(is) = i
    <3>1. i \in 1..Len(Names) /\ Max(is) \in 1..Len(Names)
      BY <2>1, <2>2, NamesDistinct
    <3>2. i >= Max(is) /\ Max(is) >= i
      BY <2>1, <2>2
    <3> HIDE DEF is
    <3> QED BY <3>1, <3>2, NamesDistinct
  <2>4. is # {}
    BY <2>1
  <2> QED BY <2>3, <2>4 DEF NameOf
<1> QED BY <1>1, <1>2

(* There is a last node of those that stand for a device. *)
LEMMA LastNode ==
  ASSUME NEW d, NEW i \in DOMAIN Names, nodes[Names[i]] = d
  PROVE  \E l \in DOMAIN Names :
           nodes[Names[l]] = d /\ \A j \in DOMAIN Names : nodes[Names[j]] = d => j <= l
<1> DEFINE n == Len(Names)
           T == {m \in 0..n : (n - m) \in DOMAIN Names /\ nodes[Names[n - m]] = d}
<1>1. n \in Nat /\ DOMAIN Names = 1..n
  BY NamesDistinct
<1>2. T \in SUBSET Nat /\ n - i \in T
  <2> HIDE DEF n
  <2>1. n - i \in 0..n /\ n - (n - i) = i
    BY <1>1
  <2> QED BY <1>1, <2>1
<1>3. PICK m \in T : \A k \in T : m <= k
  <2> HIDE DEF T
  <2> QED BY <1>2, LeastNumber
<1>4. ASSUME NEW j \in DOMAIN Names, nodes[Names[j]] = d PROVE j <= n - m
  <2> HIDE DEF n
  <2>1. n - j \in 0..n /\ n - (n - j) = j
    BY <1>1
  <2>2. n - j \in T
    BY <1>4, <2>1
  <2>3. m <= n - j /\ m \in Nat
    BY <1>2, <1>3, <2>2
  <2> QED BY <1>1, <2>3
<1> QED BY <1>3, <1>4

(* No two devices have one name. *)
LEMMA NamesOfDevices ==
  ASSUME NEW d \in Devices, NEW e \in Devices, NameOf(d) = NameOf(e)
  PROVE  d = e
<1>1. ASSUME NEW c \in Devices
      PROVE  \/ NameOf(c) = c
             \/ \E l \in DOMAIN Names : NameOf(c) = Names[l] /\ nodes[Names[l]] = c
  <2>1. CASE \A i \in DOMAIN Names : nodes[Names[i]] # c
    BY <2>1, NameIs
  <2>2. ASSUME NEW i \in DOMAIN Names, nodes[Names[i]] = c
        PROVE  \E l \in DOMAIN Names : NameOf(c) = Names[l] /\ nodes[Names[l]] = c
    BY <2>2, LastNode, NameIs
  <2> QED BY <2>1, <2>2
<1> QED BY <1>1, NamesDistinct

LEMMA ShownInit == Init => ShownInv
BY DEF Init, ShownInv, Calling

(* A node that changes during a call is not still. *)
LEMMA ShownNode ==
  ASSUME NamesInv, NEW n \in ToSet(Names), NEW d \in Devices \cup {None}, Mknod(n, d)
  PROVE  ShownInv'
<1>1. SUFFICES ASSUME pc' \in Calling, Still' PROVE FALSE
  BY DEF ShownInv
<1>2. /\ pc' = pc /\ nodes[n] # d
      /\ nodes' = [nodes EXCEPT ![n] = d]
      /\ stood' = IF pc = "idle" THEN stood ELSE [stood EXCEPT ![n] = @ \cup {d}]
  BY DEF Mknod
<1>3. nodes[n] \in stood[n] /\ nodes'[n] = d /\ stood'[n] = stood[n] \cup {d}
  BY <1>1, <1>2 DEF Calling, NamesInv, NodesInv
<1>4. stood'[n] = {nodes'[n]}
  BY <1>1 DEF Still
<1> QED BY <1>2, <1>3, <1>4

(* A step that leaves nodes, lines and names alone. *)
LEMMA ShownFrame ==
  ASSUME NamesInv, ShownInv,
         UNCHANGED <<nodes, stood, content, line, devIds, listing, found, stats>>,
         stayed' => stayed,
         \/ pc' = pc
         \/ pc' \notin Calling
         \/ {pc, pc'} \subseteq {"line", "pressure", "stats"} /\ line > Len(Lines)
  PROVE  ShownInv'
<1> SUFFICES ASSUME pc' \in Calling, stayed', Still' PROVE Shown'
  BY DEF ShownInv
<1>1. Still /\ pc \in Calling
  BY DEF Still, Calling
<1>2. Shown
  BY <1>1 DEF ShownInv
<1>3. pc' = "walk" => pc = "walk" /\ WalkInv
  BY <1>2 DEF Calling, Shown
<1>4. \A d : NameOf(d)' = NameOf(d)
  BY DEF NameOf
<1>5. WalkInv => WalkInv'
  BY DEF WalkInv, Matches, Device
<1>6. \A k : LineShown(k) => LineShown(k)'
  BY <1>4 DEF LineShown, FoundMetrics, Metrics
<1> QED BY <1>2, <1>3, <1>4, <1>5, <1>6 DEF Shown, Calling

LEMMA ShownScan == ASSUME NamesInv, ShownInv, ScanStat PROVE ShownInv'
<1>1. /\ UNCHANGED <<stayed, devIds>> /\ pc = "opened" /\ pc' = "line"
      /\ line' = IF stayed THEN 1 ELSE Len(Lines) + 1
  BY DEF ScanStat
<1>2. devIds = <<>>
  BY <1>1 DEF NamesInv, LineInv
<1>3. \A k \in DOMAIN Lines : k >= 1
  BY CgroupIOAssumption
<1> QED BY <1>1, <1>2, <1>3 DEF ShownInv, Shown

(* Of a step within the walk, what stays and what is left to show. *)
LEMMA ShownWalk ==
  ASSUME NamesInv, ShownInv,
         UNCHANGED <<nodes, stood, stayed, content, line, devIds, stats>>,
         pc \in {"line", "walk"}, pc' = "walk",
         stayed /\ Still /\ Shown => WalkInv'
  PROVE  ShownInv'
<1> SUFFICES ASSUME stayed, Still PROVE Shown'
  BY DEF ShownInv, Still
<1>1. Shown
  BY DEF ShownInv, Calling
<1>2. \A d : NameOf(d)' = NameOf(d)
  BY DEF NameOf
<1>3. \A k : LineShown(k) => LineShown(k)'
  BY <1>2 DEF LineShown, FoundMetrics, Metrics
<1> QED BY <1>1, <1>2, <1>3 DEF Shown

LEMMA DeviceType ==
  ASSUME NamesInv, pc = "walk" \/ (pc = "line" /\ line <= Len(Lines)),
         Len(devIds) < Len(Lines[line])
  PROVE  Device \in Devices /\ Device # None
<1>1. line \in DOMAIN Lines /\ Len(devIds) \in Nat
  BY CgroupIOAssumption DEF NamesInv, LineInv
<1>2. Lines[line] \in Seq(Devices) /\ None \notin Devices
  BY <1>1, CgroupIOAssumption
<1> QED BY <1>1, <1>2 DEF Device

LEMMA ShownWalkDir == ASSUME NamesInv, ShownInv, WalkDir PROVE ShownInv'
<1>1. /\ UNCHANGED <<nodes, stood, stayed, content, line, devIds, stats>>
      /\ pc = "line" /\ pc' = "walk"
      /\ line <= Len(Lines) /\ Len(devIds) < Len(Lines[line])
      /\ listing' = {n \in ToSet(Names) : nodes[n] # None} /\ found' = None
  BY DEF WalkDir
<1>2. Device # None /\ Device' = Device
  BY <1>1, DeviceType DEF Device
<1>3. WalkInv'
  BY <1>1, <1>2, NamesDistinct DEF WalkInv
<1> QED BY <1>1, <1>3, ShownWalk

(* A later match replaces an earlier one: nothing behind the node that is  *)
(* looked at was looked at before.                                         *)
LEMMA ShownWalkNode == ASSUME NamesInv, ShownInv, WalkNode PROVE ShownInv'
<1>1. /\ UNCHANGED <<nodes, stood, stayed, content, line, devIds, stats>>
      /\ pc = "walk" /\ pc' = "walk"
  BY DEF WalkNode
<1>2. PICK i \in DOMAIN Names :
        /\ Names[i] \in listing /\ \A j \in 1..(i - 1) : Names[j] \notin listing
        /\ found' = IF nodes[Names[i]] = Device THEN Names[i] ELSE found
        /\ listing' = listing \ {Names[i]}
  BY DEF WalkNode
<1>3. Device # None /\ Device' = Device
  BY <1>1, DeviceType DEF Device, NamesInv, LineInv
<1>4. Names[i] \in ToSet(Names) /\ Names[i] # None
  BY NamesDistinct
<1>5. ASSUME WalkInv PROVE WalkInv'
  <2>1. ASSUME NEW a \in DOMAIN Names, NEW b \in DOMAIN Names, a < b, Names[a] \in listing'
        PROVE  Names[b] \in listing' \/ nodes[Names[b]] = None
    <3>1. Names[b] \in listing \/ nodes[Names[b]] = None
      BY <1>2, <1>5, <2>1 DEF WalkInv
    <3>2. b # i
      <4>1. a \notin 1..(i - 1)
        BY <1>2, <2>1
      <4> QED BY <2>1, <4>1, NamesDistinct
    <3>3. Names[b] # Names[i]
      BY <3>2, NamesDistinct
    <3> QED BY <1>2, <3>1, <3>3
  <2>2. \A n \in ToSet(Names) \ listing' : nodes[n] = Device => found' # None
    BY <1>2, <1>4, <1>5 DEF WalkInv
  <2>3. Matches' = {j \in DOMAIN Names : nodes[Names[j]] = Device /\ Names[j] \notin listing'}
    BY <1>1, <1>3 DEF Matches
  <2>4. CASE nodes[Names[i]] = Device
    <3>1. i \in Matches' /\ found' = Names[i]
      BY <1>2, <2>3, <2>4
    <3>2. ASSUME NEW j \in Matches' PROVE j <= i
      <4>1. CASE j = i
        BY <4>1, NamesDistinct
      <4>2. CASE j # i
        <5>1. j \in DOMAIN Names /\ nodes[Names[j]] = Device /\ Names[j] # Names[i]
          BY <2>3, <3>2, <4>2, NamesDistinct
        <5>2. Names[j] \notin listing
          BY <1>2, <2>3, <3>2, <5>1
        <5>3. ~(i < j)
          BY <1>2, <1>3, <1>5, <5>1, <5>2 DEF WalkInv
        <5> QED BY <5>1, <5>3, NamesDistinct
      <4> QED BY <4>1, <4>2
    <3> QED BY <1>1, <1>3, <2>1, <2>2, <3>1, <3>2 DEF WalkInv
  <2>5. CASE nodes[Names[i]] # Device
    <3>1. Matches' = Matches
      <4>1. \A j \in DOMAIN Names :
              nodes[Names[j]] = Device => (Names[j] \in listing' <=> Names[j] \in listing)
        BY <1>2, <2>5
      <4> QED BY <2>3, <4>1 DEF Matches
    <3>2. found' = found
      BY <1>2, <2>5
    <3> QED BY <1>1, <1>3, <1>5, <2>1, <2>2, <3>1, <3>2 DEF WalkInv
  <2> QED BY <2>4, <2>5
<1> QED BY <1>1, <1>5, ShownWalk DEF Shown

(* At the end of a walk, what was found is the name of the device. *)
LEMMA WalkFinds ==
  ASSUME WalkInv, listing = {}
  PROVE  (IF found = None THEN Device ELSE found) = NameOf(Device)
<1>1. CASE found = None
  <2>1. \A i \in DOMAIN Names : nodes[Names[i]] # Device
    BY <1>1, NamesDistinct DEF WalkInv
  <2> QED BY <1>1, <2>1, NameIs
<1>2. CASE found # None
  <2>1. PICK i \in Matches : found = Names[i] /\ \A j \in Matches : j <= i
    BY <1>2 DEF WalkInv
  <2>2. Matches = {j \in DOMAIN Names : nodes[Names[j]] = Device}
    BY DEF Matches
  <2>3. NameOf(Device) = Names[i]
    BY <2>1, <2>2, NameIs
  <2> QED BY <1>2, <2>1, <2>3
<1> QED BY <1>1, <1>2

LEMMA ShownWalkDone == ASSUME NamesInv, ShownInv, WalkDone PROVE ShownInv'
<1> DEFINE id == IF found = None THEN Device ELSE found
<1>1. /\ UNCHANGED <<nodes, stood, stayed, content, line, listing, found, stats>>
      /\ pc = "walk" /\ pc' = "line" /\ listing = {} /\ devIds' = Append(devIds, id)
  BY DEF WalkDone
<1> SUFFICES ASSUME stayed, Still PROVE Shown'
  BY <1>1 DEF ShownInv, Still
<1>2. Shown /\ WalkInv
  BY <1>1 DEF ShownInv, Calling, Shown
<1>3. id = NameOf(Device)
  BY <1>1, <1>2, WalkFinds
<1>4. \A d : NameOf(d)' = NameOf(d)
  BY <1>1 DEF NameOf
<1>5. \A k : LineShown(k) => LineShown(k)'
  BY <1>1, <1>4 DEF LineShown, FoundMetrics, Metrics
<1>6. /\ DOMAIN devIds = 1..Len(devIds) /\ Len(devIds) \in Nat
      /\ DOMAIN devIds' = 1..(Len(devIds) + 1)
      /\ \A j \in DOMAIN devIds' : devIds'[j] = IF j = Len(devIds) + 1 THEN id ELSE devIds[j]
  <2>1. devIds \in Seq(Keys)
    BY DEF NamesInv, LineInv
  <2> HIDE DEF id
  <2> QED BY <1>1, <2>1
<1>7. ASSUME NEW j \in DOMAIN devIds' PROVE devIds'[j] = NameOf(Lines[line][j])
  <2>1. CASE j = Len(devIds) + 1
    BY <1>3, <1>6, <2>1 DEF Device
  <2>2. CASE j # Len(devIds) + 1
    <3>1. j \in DOMAIN devIds /\ devIds'[j] = devIds[j]
      BY <1>6, <1>7, <2>2
    <3> QED BY <1>2, <3>1 DEF Shown
  <2> QED BY <2>1, <2>2
<1> QED BY <1>1, <1>2, <1>4, <1>5, <1>7 DEF Shown

(* A device is on one line only. *)
LEMMA OneLine ==
  ASSUME NEW k \in DOMAIN Lines, NEW l \in DOMAIN Lines,
         NEW d \in ToSet(Lines[k]), d \in ToSet(Lines[l])
  PROVE  k = l
<1>1. PICK i \in DOMAIN Lines[k] : d = Lines[k][i]
  BY DEF ToSet
<1>2. PICK j \in DOMAIN Lines[l] : d = Lines[l][j]
  BY DEF ToSet
<1> QED BY <1>1, <1>2, CgroupIOAssumption

LEMMA LineDevices ==
  ASSUME NEW k \in DOMAIN Lines
  PROVE  /\ ToSet(Lines[k]) \subseteq Devices
         /\ DOMAIN Lines[k] = 1..Len(Lines[k])
BY CgroupIOAssumption DEF ToSet

LEMMA NameOfType == ASSUME NEW d \in Devices PROVE NameOf(d) \in Keys
<1>1. CASE \A i \in DOMAIN Names : nodes[Names[i]] # d
  BY <1>1, NameIs DEF Keys
<1>2. ASSUME NEW i \in DOMAIN Names, nodes[Names[i]] = d PROVE NameOf(d) \in Keys
  BY <1>2, LastNode, NameIs, NamesDistinct DEF Keys
<1> QED BY <1>1, <1>2

(* The metrics of a line overwrite no device of a line before. *)
LEMMA ShownLineDone == ASSUME NamesInv, ShownInv, LineDone PROVE ShownInv'
<1>1. /\ UNCHANGED <<nodes, stood, stayed, content, listing, found, pc>>
      /\ pc = "line" /\ line <= Len(Lines) /\ Len(devIds) = Len(Lines[line])
      /\ line' = line + 1 /\ devIds' = <<>>
      /\ stats' = IF FoundMetrics(line)
                  THEN [key \in Keys |->
                          IF key \in ToSet(devIds) THEN Metrics(line) ELSE stats[key]]
                  ELSE stats
  BY DEF LineDone
<1> SUFFICES ASSUME stayed, Still PROVE Shown'
  BY <1>1 DEF ShownInv, Still
<1>2. Shown
  BY <1>1 DEF ShownInv, Calling
<1>3. line \in DOMAIN Lines /\ line \in Nat /\ devIds \in Seq(Keys)
  BY <1>1, CgroupIOAssumption DEF NamesInv, LineInv
<1>4. DOMAIN devIds = DOMAIN Lines[line]
  BY <1>1, <1>3, LineDevices
<1>5. /\ \A d : NameOf(d)' = NameOf(d)
      /\ \A k : Metrics(k)' = Metrics(k) /\ (FoundMetrics(k)' <=> FoundMetrics(k))
  BY <1>1 DEF NameOf, Metrics, FoundMetrics
<1>6. ASSUME NEW d \in Devices
      PROVE  NameOf(d) \in ToSet(devIds) <=> d \in ToSet(Lines[line])
  <2>1. ASSUME NameOf(d) \in ToSet(devIds) PROVE d \in ToSet(Lines[line])
    <3>1. PICK j \in DOMAIN devIds : NameOf(d) = devIds[j]
      BY <2>1 DEF ToSet
    <3>2. NameOf(d) = NameOf(Lines[line][j]) /\ Lines[line][j] \in ToSet(Lines[line])
      BY <1>2, <1>4, <3>1 DEF Shown, ToSet
    <3>3. d = Lines[line][j]
      BY <1>3, <3>2, LineDevices, NamesOfDevices
    <3> QED BY <3>2, <3>3
  <2>2. ASSUME d \in ToSet(Lines[line]) PROVE NameOf(d) \in ToSet(devIds)
    <3>1. PICK j \in DOMAIN Lines[line] : d = Lines[line][j]
      BY <2>2 DEF ToSet
    <3>2. devIds[j] = NameOf(d) /\ j \in DOMAIN devIds
      BY <1>2, <1>4, <3>1 DEF Shown
    <3> QED BY <3>2 DEF ToSet
  <2> QED BY <2>1, <2>2
<1>7. ASSUME NEW k \in DOMAIN Lines, k < line + 1, FoundMetrics(k),
             NEW d \in ToSet(Lines[k])
      PROVE  stats'[NameOf(d)] = Metrics(k)
  <2>1. d \in Devices /\ NameOf(d) \in Keys
    BY LineDevices, NameOfType
  <2>2. CASE k = line
    BY <1>1, <1>6, <1>7, <2>1, <2>2
  <2>3. CASE k # line
    <3>1. d \notin ToSet(Lines[line])
      BY <1>3, <2>3, OneLine
    <3>2. stats'[NameOf(d)] = stats[NameOf(d)]
      BY <1>1, <1>6, <2>1, <3>1
    <3>3. k < line
      <4>1. k \in Nat
        BY CgroupIOAssumption
      <4> QED BY <1>3, <1>7, <2>3, <4>1
    <3> QED BY <1>2, <1>7, <3>2, <3>3 DEF Shown, LineShown
  <2> QED BY <2>2, <2>3
<1>8. \A k \in DOMAIN Lines : k < line' => LineShown(k)'
  BY <1>1, <1>5, <1>7 DEF LineShown
<1> QED BY <1>1, <1>8 DEF Shown

LEMMA ShownStep == NamesInv /\ ShownInv /\ [Next]_vars => ShownInv'
<1> SUFFICES ASSUME NamesInv, ShownInv, [Next]_vars PROVE ShownInv'
  OBVIOUS
<1>1. ASSUME NEW d \in Devices, NEW op \in Ops, Request(d, op) PROVE ShownInv'
  BY <1>1, ShownFrame DEF Request
<1>2. CASE RemoveGroup
  BY <1>2, ShownFrame DEF RemoveGroup
<1>3. CASE CreateGroup
  BY <1>3, ShownFrame DEF CreateGroup
<1>4. CASE IoServiceBytes
  BY <1>4 DEF IoServiceBytes, ShownInv, Calling
<1>5. CASE IoServiced \/ ReadLimits
  BY <1>5 DEF IoServiced, ReadLimits, ReadFails, ShownInv, Calling
<1>6. CASE OpenStat
  BY <1>6 DEF OpenStat, ShownInv, Calling
<1>7. CASE StatPressure
  BY <1>7, ShownFrame DEF StatPressure, Calling
<1>8. CASE GetPressure
  <2>1. /\ UNCHANGED <<nodes, stood, stayed, content, line, devIds, listing, found, stats>>
        /\ pc = "pressure" /\ pc' \in {"stats", "error"}
    BY <1>8 DEF GetPressure
  <2> SUFFICES ASSUME stayed, Still PROVE ShownInv'
    BY <2>1 DEF ShownInv, Still
  <2>2. line > Len(Lines)
    BY <2>1 DEF ShownInv, Calling, Shown
  <2> QED BY <2>1, <2>2, ShownFrame DEF Calling
<1>9. CASE Return
  BY <1>9 DEF Return, ShownInv, Calling
<1>10. CASE UNCHANGED vars
  BY <1>10, ShownFrame DEF vars
<1> QED BY <1>1, <1>2, <1>3, <1>4, <1>5, <1>6, <1>7, <1>8, <1>9, <1>10, ShownNode,
           ShownScan, ShownWalkDir, ShownWalkNode, ShownWalkDone, ShownLineDone DEF Next

(* If neither the group nor /dev changes while Get runs, IOSubsystem.Stats *)
(* has every device of every line of io.stat that has metrics, under the   *)
(* last of its names, with the metrics of that line.                       *)
THEOREM StatsCorrect == Spec => []StatsComplete
<1>1. NamesInv /\ ShownInv => StatsComplete
  <2> SUFFICES ASSUME NamesInv, ShownInv, pc = "stats", stayed, Still,
                      NEW k \in DOMAIN Lines, FoundMetrics(k), NEW d \in ToSet(Lines[k])
               PROVE  stats[NameOf(d)] = Metrics(k)
    BY DEF StatsComplete, Still
  <2>1. Shown /\ line > Len(Lines)
    BY DEF ShownInv, Calling, Shown
  <2>2. k < line
    <3>1. line \in Nat /\ k \in 1..Len(Lines) /\ Len(Lines) \in Nat
      BY CgroupIOAssumption DEF NamesInv, LineInv
    <3> QED BY <2>1, <3>1
  <2> QED BY <2>1, <2>2 DEF Shown, LineShown
<1> QED BY <1>1, NamesInit, NamesStep, ShownInit, ShownStep, PTL DEF Spec

-----------------------------------------------------------------------------
(* Sums over finite sets *)

(* The element that a sum over a set takes first. *)
Pick(s) == CHOOSE x \in s : TRUE

(* f has the sum of g over every subset of S. *)
Sums(g, S, f) ==
  f = [s \in SUBSET S |-> IF s = {} THEN 0 ELSE g[Pick(s)] + f[s \ {Pick(s)}]]

LEMMA PickIn == ASSUME NEW s, s # {} PROVE Pick(s) \in s
BY DEF Pick

(* What holds of a set if it holds without any one of its elements, holds  *)
(* of every finite set.                                                    *)
LEMMA SubsetInduction ==
  ASSUME NEW S, IsFiniteSet(S), NEW Q \in SUBSET (SUBSET S),
         \A s \in SUBSET S : (\A x \in s : s \ {x} \in Q) => s \in Q
  PROVE  Q = SUBSET S
<1> SUFFICES ASSUME (SUBSET S) \ Q # {} PROVE FALSE
  OBVIOUS
<1> DEFINE T == {Cardinality(s) : s \in (SUBSET S) \ Q}
<1>1. \A s \in SUBSET S : IsFiniteSet(s) /\ Cardinality(s) \in Nat
  BY FS_Subset, FS_CardinalityType
<1>2. T \in SUBSET Nat /\ T # {}
  BY <1>1
<1>3. PICK m \in T : \A n \in T : m <= n
  <2> HIDE DEF T
  <2> QED BY <1>2, LeastNumber
<1>4. PICK s \in (SUBSET S) \ Q : m = Cardinality(s)
  BY <1>3
<1>5. ASSUME NEW x \in s PROVE s \ {x} \in Q
  <2>1. Cardinality(s \ {x}) = m - 1
    BY <1>1, <1>4, FS_RemoveElement
  <2>2. ASSUME s \ {x} \notin Q PROVE FALSE
    <3>1. m - 1 \in T
      BY <2>1, <2>2
    <3> HIDE DEF T
    <3> QED BY <1>2, <1>3, <3>1
  <2> QED BY <2>2
<1> QED BY <1>4, <1>5

(* Such an f exists: it is built up from the small subsets. *)
LEMMA SumsExist ==
  ASSUME NEW S, IsFiniteSet(S), NEW g \in [S -> Nat]
  PROVE  \E f \in [SUBSET S -> Nat] : Sums(g, S, f)
<1> DEFINE Small(n) == {s \in SUBSET S : Cardinality(s) <= n}
           Step(f, s) == IF s = {} THEN 0 ELSE g[Pick(s)] + f[s \ {Pick(s)}]
           Has(n) == \E f \in [Small(n) -> Nat] : \A s \in Small(n) : f[s] = Step(f, s)
           T == {n \in Nat : ~Has(n)}
<1>1. \A s \in SUBSET S : /\ IsFiniteSet(s) /\ Cardinality(s) \in Nat
                          /\ Cardinality(s) <= Cardinality(S)
  BY FS_Subset, FS_CardinalityType
<1>2. \A s \in SUBSET S : s # {} =>
        /\ Pick(s) \in S /\ s \ {Pick(s)} \in SUBSET S
        /\ Cardinality(s \ {Pick(s)}) = Cardinality(s) - 1
  BY <1>1, PickIn, FS_RemoveElement
<1>3. \A s \in SUBSET S : Cardinality(s) <= 0 <=> s = {}
  BY <1>1, FS_EmptySet
<1>4. Has(0)
  <2>1. \A s \in Small(0) : s = {}
    BY <1>3
  <2>2. [s \in Small(0) |-> 0] \in [Small(0) -> Nat]
    OBVIOUS
  <2> QED BY <2>1, <2>2
<1>5. ASSUME NEW n \in Nat, Has(n) PROVE Has(n + 1)
  <2>1. PICK f \in [Small(n) -> Nat] : \A s \in Small(n) : f[s] = Step(f, s)
    BY <1>5
  <2>2. \A s \in Small(n + 1) : s # {} => s \ {Pick(s)} \in Small(n)
    BY <1>1, <1>2
  <2>3. \A s \in Small(n) : s \in Small(n + 1)
    BY <1>1
  <2> DEFINE h == [s \in Small(n + 1) |-> Step(f, s)]
  <2>4. \A s \in Small(n + 1) : Step(f, s) \in Nat
    BY <1>2, <2>1, <2>2
  <2>5. \A s \in Small(n) : h[s] = f[s]
    BY <2>1, <2>3
  <2>6. \A s \in Small(n + 1) : h[s] = Step(h, s)
    BY <2>2, <2>5
  <2> QED BY <2>4, <2>6
<1>6. T = {}
  <2> SUFFICES ASSUME T # {} PROVE FALSE
    OBVIOUS
  <2>1. PICK m \in T : \A n \in T : m <= n
    <3>1. T \in SUBSET Nat
      OBVIOUS
    <3> HIDE DEF T
    <3> QED BY <3>1, LeastNumber
  <2>2. m \in Nat /\ m # 0 /\ ~Has(m)
    <3> HIDE DEF Has
    <3> QED BY <1>4, <2>1
  <2>3. m - 1 \in Nat /\ m - 1 \notin T /\ (m - 1) + 1 = m
    <3> HIDE DEF T
    <3> QED BY <2>1, <2>2
  <2>4. Has(m - 1)
    BY <2>3
  <2> HIDE DEF Has
  <2> QED BY <1>5, <2>2, <2>3, <2>4
<1>7. Has(Cardinality(S))
  <2> HIDE DEF Has
  <2> QED BY <1>6, FS_CardinalityType
<1>8. Small(Cardinality(S)) = SUBSET S
  BY <1>1
<1>9. PICK f \in [SUBSET S -> Nat] : \A s \in SUBSET S : f[s] = Step(f, s)
  BY <1>7, <1>8
<1>10. f = [s \in SUBSET S |-> f[s]]
  OBVIOUS
<1>11. Sums(g, S, f)
  BY <1>9, <1>10 DEF Sums
<1> QED BY <1>11

(* The sum of what g gives for the elements of S. *)
SumsOf(g, S) == CHOOSE f : Sums(g, S, f)
SumOver(g, S) == SumsOf(g, S)[S]

LEMMA SumsChosen ==
  ASSUME NEW S, IsFiniteSet(S), NEW g \in [S -> Nat]
  PROVE  /\ SumsOf(g, S)[{}] = 0
         /\ \A s \in SUBSET S :
              s # {} => SumsOf(g, S)[s] = g[Pick(s)] + SumsOf(g, S)[s \ {Pick(s)}]
<1>1. Sums(g, S, SumsOf(g, S))
  BY SumsExist DEF SumsOf
<1> HIDE DEF SumsOf
<1>2. {} \in SUBSET S
  OBVIOUS
<1> QED BY <1>1, <1>2 DEF Sums

(* The sums of a larger function are larger. *)
LEMMA SumsMonotone ==
  ASSUME NEW S, IsFiniteSet(S), NEW g \in [S -> Nat], NEW h \in [S -> Nat],
         \A x \in S : g[x] <= h[x]
  PROVE  \A s \in SUBSET S : /\ SumsOf(g, S)[s] \in Nat /\ SumsOf(h, S)[s] \in Nat
                            /\ SumsOf(g, S)[s] <= SumsOf(h, S)[s]
<1> DEFINE f == SumsOf(g, S)
           e == SumsOf(h, S)
           Q == {s \in SUBSET S : f[s] \in Nat /\ e[s] \in Nat /\ f[s] <= e[s]}
<1>1. /\ f[{}] = 0
      /\ \A s \in SUBSET S : s # {} => f[s] = g[Pick(s)] + f[s \ {Pick(s)}]
  BY SumsChosen
<1>2. /\ e[{}] = 0
      /\ \A s \in SUBSET S : s # {} => e[s] = h[Pick(s)] + e[s \ {Pick(s)}]
  BY SumsChosen
<1> HIDE DEF f, e
<1>3. {} \in Q
  BY <1>1, <1>2
<1>4. ASSUME NEW s \in SUBSET S, s # {}, s \ {Pick(s)} \in Q PROVE s \in Q
  <2>1. g[Pick(s)] \in Nat /\ h[Pick(s)] \in Nat /\ g[Pick(s)] <= h[Pick(s)]
    BY <1>4, PickIn
  <2>2. /\ f[s] = g[Pick(s)] + f[s \ {Pick(s)}] /\ e[s] = h[Pick(s)] + e[s \ {Pick(s)}]
        /\ f[s \ {Pick(s)}] \in Nat /\ e[s \ {Pick(s)}] \in Nat
        /\ f[s \ {Pick(s)}] <= e[s \ {Pick(s)}]
    BY <1>1, <1>2, <1>4
  <2>3. f[s] \in Nat /\ e[s] \in Nat /\ f[s] <= e[s]
    BY <2>1, <2>2
  <2> QED BY <2>3
<1>5. Q = SUBSET S
  <2> HIDE DEF Q
  <2>1. Q \in SUBSET (SUBSET S)
    BY DEF Q
  <2>2. ASSUME NEW s \in SUBSET S, \A x \in s : s \ {x} \in Q PROVE s \in Q
    <3>1. CASE s = {}
      BY <1>3, <3>1
    <3>2. CASE s # {}
      BY <1>4, <2>2, <3>2, PickIn
    <3> QED BY <3>1, <3>2
  <2> QED BY <2>1, <2>2, SubsetInduction
<1> QED BY <1>5 DEF f, e

(* Any element may be taken first. *)
LEMMA SumsAdd ==
  ASSUME NEW S, IsFiniteSet(S), NEW g \in [S -> Nat], NEW t \in SUBSET S, NEW x \in t
  PROVE  SumsOf(g, S)[t] = g[x] + SumsOf(g, S)[t \ {x}]
<1> DEFINE f == SumsOf(g, S)
           Q == {s \in SUBSET S : f[s] \in Nat /\ \A y \in s : f[s] = g[y] + f[s \ {y}]}
<1>1. /\ f[{}] = 0
      /\ \A s \in SUBSET S : s # {} => f[s] = g[Pick(s)] + f[s \ {Pick(s)}]
  BY SumsChosen
<1> HIDE DEF f
<1>2. ASSUME NEW s \in SUBSET S, \A y \in s : s \ {y} \in Q PROVE s \in Q
  <2>1. CASE s = {}
    BY <1>1, <2>1
  <2>2. CASE s # {}
    <3>1. Pick(s) \in s /\ g[Pick(s)] \in Nat
      BY <2>2, PickIn
    <3>2. f[s] = g[Pick(s)] + f[s \ {Pick(s)}] /\ f[s \ {Pick(s)}] \in Nat
      BY <1>1, <1>2, <2>2, <3>1
    <3>3. ASSUME NEW y \in s PROVE f[s] = g[y] + f[s \ {y}]
      <4>1. CASE y = Pick(s)
        BY <3>2, <4>1
      <4>2. CASE y # Pick(s)
        <5> DEFINE r == (s \ {y}) \ {Pick(s)}
        <5>1. r = (s \ {Pick(s)}) \ {y}
          OBVIOUS
        <5>2. s \ {Pick(s)} \in Q /\ s \ {y} \in Q
          BY <1>2, <3>1
        <5>3. f[s \ {Pick(s)}] = g[y] + f[r] /\ f[s \ {y}] = g[Pick(s)] + f[r]
          BY <3>1, <4>2, <5>1, <5>2
        <5>4. f[r] \in Nat
          <6>1. r \in SUBSET S
            OBVIOUS
          <6> QED BY <6>1, SumsMonotone DEF f
        <5>5. g[y] \in Nat
          OBVIOUS
        <5> HIDE DEF r
        <5> QED BY <3>1, <3>2, <5>3, <5>4, <5>5
      <4> QED BY <4>1, <4>2
    <3>4. f[s] \in Nat
      BY <3>1, <3>2
    <3> QED BY <3>3, <3>4
  <2> QED BY <2>1, <2>2
<1>3. Q = SUBSET S
  <2> HIDE DEF Q
  <2>1. Q \in SUBSET (SUBSET S)
    BY DEF Q
  <2> QED BY <1>2, <2>1, SubsetInduction
<1>4. t \in Q
  BY <1>3
<1> QED BY <1>4 DEF f

-----------------------------------------------------------------------------
(* Totals *)

Direct == {"read", "write"}
OfDevice(counts) == [d \in Devices |-> counts[d]["read"] + counts[d]["write"]]
OfPair(counts) == [p \in Devices \X Direct |-> counts[p[1]][p[2]]]

LEMMA CountsAre ==
  ASSUME NEW counts \in Counts
  PROVE  /\ \A d \in Devices, op \in Ops : counts[d][op] \in Nat
         /\ OfDevice(counts) \in [Devices -> Nat]
         /\ OfPair(counts) \in [Devices \X Direct -> Nat]
<1>1. \A d \in Devices, op \in Ops : counts[d][op] \in Nat
  BY DEF Counts
<1>2. \A d \in Devices : counts[d]["read"] + counts[d]["write"] \in Nat
  BY <1>1 DEF Ops
<1>3. \A p \in Devices \X Direct : counts[p[1]][p[2]] \in Nat
  BY <1>1 DEF Ops, Direct
<1> QED BY <1>1, <1>2, <1>3 DEF OfDevice, OfPair

LEMMA Finite == IsFiniteSet(Devices) /\ IsFiniteSet(Devices \X Direct)
<1>1. IsFiniteSet(Direct)
  <2>1. Direct = {"read"} \cup {"write"}
    BY DEF Direct
  <2> QED BY <2>1, FS_Singleton, FS_Union
<1> QED BY <1>1, CgroupIOAssumption, FS_Product

(* The sum of the code, over devices, and the one of the property, over    *)
(* pairs of device and direction.                                          *)
LEMMA SumIs ==
  ASSUME NEW counts
  PROVE  Sum(counts) = SumOver(OfDevice(counts), Devices)
<1>1. \A f : Sums(OfDevice(counts), Devices, f) <=>
        f = [s \in SUBSET Devices |->
              IF s = {} THEN 0
              ELSE (counts[Pick(s)]["read"] + counts[Pick(s)]["write"]) + f[s \ {Pick(s)}]]
  BY PickIn DEF Sums, OfDevice
<1>2. SumsOf(OfDevice(counts), Devices) =
        CHOOSE f : f = [s \in SUBSET Devices |->
              IF s = {} THEN 0
              ELSE (counts[Pick(s)]["read"] + counts[Pick(s)]["write"]) + f[s \ {Pick(s)}]]
  BY <1>1 DEF SumsOf
<1> QED BY <1>2 DEF SumOver, Sum, MapThenSumSet, MapThenFoldSet, Pick

LEMMA ReadsAndWritesIs ==
  ASSUME NEW counts
  PROVE  ReadsAndWrites(counts) = SumOver(OfPair(counts), Devices \X Direct)
<1> DEFINE P == Devices \X Direct
<1>1. \A f : Sums(OfPair(counts), P, f) <=>
        f = [s \in SUBSET P |->
              IF s = {} THEN 0 ELSE counts[Pick(s)[1]][Pick(s)[2]] + f[s \ {Pick(s)}]]
  BY PickIn DEF Sums, OfPair
<1>2. SumsOf(OfPair(counts), P) =
        CHOOSE f : f = [s \in SUBSET P |->
              IF s = {} THEN 0 ELSE counts[Pick(s)[1]][Pick(s)[2]] + f[s \ {Pick(s)}]]
  BY <1>1 DEF SumsOf
<1> QED BY <1>2 DEF SumOver, ReadsAndWrites, MapThenSumSet, MapThenFoldSet, Pick, Direct

LEMMA SameSum ==
  ASSUME NEW counts \in Counts
  PROVE  ReadsAndWrites(counts) = Sum(counts) /\ Sum(counts) \in Nat
<1> DEFINE P == Devices \X Direct
           g == OfDevice(counts)
           h == OfPair(counts)
           f == SumsOf(g, Devices)
           e == SumsOf(h, P)
           Q == {s \in SUBSET Devices : e[s \X Direct] = f[s]}
<1>1. g \in [Devices -> Nat] /\ h \in [P -> Nat] /\ IsFiniteSet(Devices) /\ IsFiniteSet(P)
  BY CountsAre, Finite
<1>2. /\ \A d \in Devices : g[d] = h[<<d, "read">>] + h[<<d, "write">>]
      /\ \A p \in P : h[p] \in Nat
  BY <1>1 DEF OfDevice, OfPair, Direct
<1> HIDE DEF g, h
<1>3. /\ f[{}] = 0 /\ e[{}] = 0
      /\ \A s \in SUBSET Devices : f[s] \in Nat
      /\ \A s \in SUBSET P : e[s] \in Nat
  <2>1. \A d \in Devices : g[d] <= g[d]
    BY <1>1
  <2>2. \A p \in P : h[p] <= h[p]
    BY <1>1
  <2> HIDE DEF P
  <2> QED BY <1>1, <2>1, <2>2, SumsChosen, SumsMonotone
<1>4. ASSUME NEW s \in SUBSET Devices, NEW d \in s
      PROVE  f[s] = g[d] + f[s \ {d}]
  BY <1>1, SumsAdd
<1>5. ASSUME NEW t \in SUBSET P, NEW p \in t
      PROVE  e[t] = h[p] + e[t \ {p}]
  <2> HIDE DEF P
  <2> QED BY <1>1, SumsAdd
<1> HIDE DEF f, e
<1>6. ASSUME NEW s \in SUBSET Devices, \A d \in s : s \ {d} \in Q PROVE s \in Q
  <2>1. CASE s = {}
    <3>1. s \X Direct = {}
      BY <2>1
    <3> QED BY <1>3, <2>1, <3>1
  <2>2. ASSUME NEW d \in s PROVE e[s \X Direct] = f[s]
    <3> DEFINE r == <<d, "read">>
               w == <<d, "write">>
               t == (s \ {d}) \X Direct
    <3>1. /\ r \in s \X Direct /\ w \in (s \X Direct) \ {r}
          /\ ((s \X Direct) \ {r}) \ {w} = t
      BY DEF Direct
    <3>2. s \X Direct \in SUBSET P /\ (s \X Direct) \ {r} \in SUBSET P /\ t \in SUBSET P
      OBVIOUS
    <3>3. r \in P /\ w \in P /\ d \in Devices
      BY DEF Direct
    <3> HIDE DEF t, P
    <3>4. e[s \X Direct] = h[r] + e[(s \X Direct) \ {r}]
      BY <1>5, <3>1, <3>2
    <3>5. e[(s \X Direct) \ {r}] = h[w] + e[t]
      BY <1>5, <3>1, <3>2
    <3>6. e[t] = f[s \ {d}] /\ e[t] \in Nat
      BY <1>3, <1>6, <3>2 DEF t
    <3>7. f[s] = g[d] + f[s \ {d}] /\ g[d] = h[r] + h[w]
      BY <1>2, <1>4, <3>3
    <3>8. h[r] \in Nat /\ h[w] \in Nat
      BY <1>2, <3>3
    <3> HIDE DEF r, w
    <3> QED BY <3>4, <3>5, <3>6, <3>7, <3>8
  <2> QED BY <2>1, <2>2
<1>7. Q = SUBSET Devices
  <2> HIDE DEF Q
  <2>1. Q \in SUBSET (SUBSET Devices)
    BY DEF Q
  <2> QED BY <1>1, <1>6, <2>1, SubsetInduction
<1>8. Devices \in Q
  BY <1>7
<1>9. e[P] = f[Devices] /\ f[Devices] \in Nat
  BY <1>3, <1>8
<1>10. Sum(counts) = f[Devices] /\ ReadsAndWrites(counts) = e[P]
  BY SumIs, ReadsAndWritesIs DEF SumOver, f, e, g, h
<1> QED BY <1>9, <1>10

(* More requests of every device are more in total. *)
LEMMA SumMonotone ==
  ASSUME NEW a \in Counts, NEW b \in Counts,
         \A d \in Devices, op \in Ops : a[d][op] <= b[d][op]
  PROVE  Sum(a) <= Sum(b)
<1>1. OfDevice(a) \in [Devices -> Nat] /\ OfDevice(b) \in [Devices -> Nat]
  BY CountsAre
<1>2. \A d \in Devices : OfDevice(a)[d] <= OfDevice(b)[d]
  <2> SUFFICES ASSUME NEW d \in Devices PROVE OfDevice(a)[d] <= OfDevice(b)[d]
    OBVIOUS
  <2>1. /\ a[d]["read"] \in Nat /\ a[d]["write"] \in Nat
        /\ b[d]["read"] \in Nat /\ b[d]["write"] \in Nat
        /\ a[d]["read"] <= b[d]["read"] /\ a[d]["write"] <= b[d]["write"]
    BY CountsAre DEF Ops
  <2> QED BY <2>1 DEF OfDevice
<1>3. SumOver(OfDevice(a), Devices) <= SumOver(OfDevice(b), Devices)
  BY <1>1, <1>2, Finite, SumsMonotone DEF SumOver
<1> QED BY <1>3, SumIs

AtMost(a, b) == \A d \in Devices, op \in Ops : a[d][op] <= b[d][op]

(* The files are read in this order, of counts that only grow. *)
TotalInv ==
  stayed =>
    /\ pc \in {"io_serviced", "limits", "total"} => AtMost(begun, bytes) /\ AtMost(bytes, count)
    /\ pc \in {"limits", "total"} =>
         /\ total.bytes = Size * Sum(bytes)
         /\ Sum(bytes) <= total.ios /\ total.ios <= Sum(count) /\ total.ios \in Nat

LEMMA TotalInit == Init => TotalInv
BY DEF Init, TotalInv

LEMMA TotalRequest ==
  ASSUME TypeOK, TotalInv, NEW d \in Devices, NEW op \in Ops, Request(d, op)
  PROVE  TotalInv'
<1>1. /\ UNCHANGED <<stayed, pc, begun, bytes, total>>
      /\ count' = [count EXCEPT ![d][op] = @ + 1]
  BY DEF Request
<1>2. count \in Counts /\ bytes \in Counts
  BY DEF TypeOK
<1>3. AtMost(count, count') /\ count' \in Counts
  <2>1. \A c \in Devices, o \in Ops : count[c][o] \in Nat
    BY <1>2, CountsAre
  <2>2. \A c \in Devices, o \in Ops :
          count'[c][o] = IF c = d /\ o = op THEN count[c][o] + 1 ELSE count[c][o]
    BY <1>1, <1>2 DEF Counts
  <2>3. count' \in Counts
    BY <1>1, <1>2, <2>1 DEF Counts
  <2> QED BY <2>1, <2>2, <2>3 DEF AtMost
<1>4. Sum(count) <= Sum(count') /\ Sum(count) \in Nat /\ Sum(count') \in Nat
  BY <1>2, <1>3, SumMonotone, SameSum DEF AtMost
<1>5. AtMost(bytes, count) => AtMost(bytes, count')
  <2>1. \A c \in Devices, o \in Ops :
          bytes[c][o] \in Nat /\ count[c][o] \in Nat /\ count'[c][o] \in Nat
    BY <1>2, <1>3, CountsAre
  <2> QED BY <1>3, <2>1 DEF AtMost
<1>6. Sum(bytes)' = Sum(bytes) /\ Sum(count)' = Sum(count') /\ AtMost(begun, bytes)' = AtMost(begun, bytes)
      /\ AtMost(bytes, count)' = AtMost(bytes, count')
  BY <1>1 DEF AtMost
<1>7. \A n \in Nat : n <= Sum(count) => n <= Sum(count')
  BY <1>4
<1> QED BY <1>1, <1>5, <1>6, <1>7 DEF TotalInv

(* A step that leaves the counts alone. *)
LEMMA TotalFrame ==
  ASSUME TotalInv, UNCHANGED <<count, begun, bytes, total>>, stayed' => stayed,
         \/ pc' = pc \/ pc' \notin {"io_serviced", "limits", "total"}
         \/ {pc, pc'} \subseteq {"limits", "total"}
  PROVE  TotalInv'
BY DEF TotalInv, AtMost

LEMMA TotalServiceBytes == ASSUME TypeOK, TotalInv, IoServiceBytes PROVE TotalInv'
<1>1. /\ UNCHANGED <<exists, count>> /\ stayed' = exists
      /\ \/ pc' = "io_serviced" /\ bytes' = IF exists THEN count ELSE NoCounts
         \/ ~exists /\ pc' = "error"
      /\ begun' = count
  BY DEF IoServiceBytes, Begin
<1>2. \A d \in Devices, op \in Ops : count[d][op] <= count[d][op]
  <2>1. count \in Counts
    BY DEF TypeOK
  <2> QED BY <2>1, CountsAre
<1>3. stayed' => AtMost(begun', bytes') /\ AtMost(bytes', count')
  BY <1>1, <1>2 DEF AtMost
<1> QED BY <1>1, <1>3 DEF TotalInv, AtMost

LEMMA TotalServiced == ASSUME TypeOK, StayedInv, TotalInv, IoServiced PROVE TotalInv'
<1>1. CASE pc' = "error"
  BY <1>1 DEF TotalInv
<1>2. CASE pc' # "error"
  <2>1. /\ pc = "io_serviced" /\ pc' = "limits"
        /\ total' = [bytes |-> Size * Sum(bytes), ios |-> IF exists THEN Sum(count) ELSE 0]
        /\ UNCHANGED <<exists, stayed, count, begun, bytes>>
    BY <1>2 DEF IoServiced, ReadFails
  <2>2. bytes \in Counts /\ count \in Counts
    BY DEF TypeOK
  <2>3. ASSUME stayed
        PROVE  /\ exists
               /\ AtMost(begun, bytes) /\ AtMost(bytes, count)
               /\ Sum(bytes) <= Sum(count) /\ Sum(bytes) \in Nat /\ Sum(count) \in Nat
    <3>1. exists /\ AtMost(begun, bytes) /\ AtMost(bytes, count)
      BY <2>1, <2>3 DEF TotalInv, StayedInv
    <3> QED BY <2>2, <3>1, SumMonotone, SameSum DEF AtMost
  <2>4. total'.bytes = Size * Sum(bytes) /\ (exists => total'.ios = Sum(count))
    BY <2>1
  <2>5. Sum(bytes)' = Sum(bytes) /\ Sum(count)' = Sum(count)
    BY <2>1
  <2>6. /\ AtMost(begun, bytes) => AtMost(begun, bytes)'
        /\ AtMost(bytes, count) => AtMost(bytes, count)'
    BY <2>1 DEF AtMost
  <2>7. Sum(count) \in Nat => Sum(count) <= Sum(count)
    OBVIOUS
  <2>8. stayed' = stayed
    BY <2>1
  <2>9. ASSUME stayed
        PROVE  /\ AtMost(begun, bytes)' /\ AtMost(bytes, count)'
               /\ total'.bytes = Size * Sum(bytes)'
               /\ Sum(bytes)' <= total'.ios /\ total'.ios <= Sum(count)' /\ total'.ios \in Nat
    BY <2>3, <2>4, <2>5, <2>6, <2>7, <2>9
  <2> QED BY <2>8, <2>9 DEF TotalInv
<1> QED BY <1>1, <1>2

LEMMA TotalStep == TypeOK /\ StayedInv /\ TotalInv /\ [Next]_vars => TotalInv'
<1> SUFFICES ASSUME TypeOK, StayedInv, TotalInv, [Next]_vars PROVE TotalInv'
  OBVIOUS
<1>1. CASE RemoveGroup
  BY <1>1 DEF RemoveGroup, TotalInv
<1>2. CASE CreateGroup
  <2>1. stayed' = stayed /\ ~stayed
    BY <1>2 DEF CreateGroup, StayedInv
  <2> QED BY <2>1 DEF TotalInv
<1>3. ASSUME NEW n \in ToSet(Names), NEW d \in Devices \cup {None}, Mknod(n, d)
      PROVE  TotalInv'
  BY <1>3, TotalFrame DEF Mknod
<1>4. CASE ReadLimits
  <2>1. /\ UNCHANGED <<count, begun, bytes, total, stayed>>
        /\ pc = "limits" /\ pc' \in {"total", "error"}
    BY <1>4 DEF ReadLimits, ReadFails
  <2> QED BY <2>1, TotalFrame
<1>5. CASE OpenStat
  BY <1>5 DEF OpenStat, TotalInv
<1>6. CASE ScanStat
  BY <1>6, TotalFrame DEF ScanStat
<1>7. CASE WalkDir \/ WalkNode \/ WalkDone \/ LineDone
  <2>1. UNCHANGED <<count, begun, bytes, total, stayed>> /\ (pc' = pc \/ pc' \in {"line", "walk"})
    BY <1>7 DEF WalkDir, WalkNode, WalkDone, LineDone
  <2> QED BY <2>1, TotalFrame
<1>8. CASE StatPressure \/ GetPressure
  <2>1. /\ UNCHANGED <<count, begun, bytes, total, stayed>>
        /\ pc' \in {"pressure", "stats", "error"}
    BY <1>8 DEF StatPressure, GetPressure
  <2> QED BY <2>1, TotalFrame
<1>9. CASE Return
  BY <1>9 DEF Return, TotalInv
<1>10. CASE UNCHANGED vars
  BY <1>10, TotalFrame DEF vars
<1> QED BY <1>1, <1>2, <1>3, <1>4, <1>5, <1>6, <1>7, <1>8, <1>9, <1>10, TotalRequest,
           TotalServiceBytes, TotalServiced DEF Next

(* The totals that BlockIOSubsystem.Get returns of a group that stayed are *)
(* counts of reads and writes that it had during the call, and no bytes    *)
(* are shown whose request is not counted: for any number of devices.      *)
THEOREM TotalCorrect == Spec => []TotalWithinCall
<1>1. TypeOK /\ TotalInv => TotalWithinCall
  <2> SUFFICES ASSUME TypeOK, TotalInv, pc = "total", stayed
               PROVE  /\ ReadsAndWrites(begun) <= total.ios
                      /\ total.ios <= ReadsAndWrites(count)
                      /\ Size * ReadsAndWrites(begun) <= total.bytes
                      /\ total.bytes <= Size * total.ios
    BY DEF TotalWithinCall
  <2>1. begun \in Counts /\ bytes \in Counts /\ count \in Counts
    BY DEF TypeOK
  <2>2. /\ ReadsAndWrites(begun) = Sum(begun) /\ Sum(begun) \in Nat
        /\ Sum(bytes) \in Nat
        /\ ReadsAndWrites(count) = Sum(count) /\ Sum(count) \in Nat
    BY <2>1, SameSum
  <2>3. /\ AtMost(begun, bytes)
        /\ total.bytes = Size * Sum(bytes) /\ total.ios \in Nat
        /\ Sum(bytes) <= total.ios /\ total.ios <= Sum(count)
    BY DEF TotalInv
  <2>4. Sum(begun) <= Sum(bytes)
    BY <2>1, <2>3, SumMonotone DEF AtMost
  <2>5. \A n, a, b \in Nat : a <= b => n * a <= n * b
    OBVIOUS
  <2>6. Size \in Nat
    BY CgroupIOAssumption
  <2>7. Size * Sum(begun) <= Size * Sum(bytes) /\ Size * Sum(bytes) <= Size * total.ios
    BY <2>2, <2>3, <2>4, <2>5, <2>6
  <2> QED BY <2>2, <2>3, <2>4, <2>7
<1> QED BY <1>1, TypeInit, TypeStep, NamesInit, NamesStep, StayedInit, StayedStep, TotalInit,
           TotalStep, PTL DEF Spec
=============================================================================
