-------------------------- MODULE CgroupReaderProofs --------------------------
(* Proofs about CgroupReader, for any groups, controllers and setups, and  *)
(* about Mounts, where the Reader's mount points come from, for any mounts *)
(* of any filesystems.  The two have their state apart: Spec is that of    *)
(* CgroupReader, MountsSpec that of Mounts.                                *)
EXTENDS CgroupReader, Mounts, WellFoundedInduction, TLAPS

-----------------------------------------------------------------------------
(* All controllers or an error *)

(* What a call must read, and how far it has got. *)
Wanted == {con \in DOMAIN paths : ~Ignored(paths[con])}

StatsInv ==
  pc = "stats" => todo \subseteq Wanted /\ stats.got = Wanted \ todo

(* The stats that a call starts from have no controllers. *)
LEMMA NothingYet == ASSUME NEW ps PROVE CommonMetadata(ps).got = {}
BY DEF CommonMetadata, NoStats

LEMMA EnterStatsInv ==
  ASSUME NEW ps, EnterStats(ps), UNCHANGED setup
  PROVE  StatsInv'
<1>1. todo' = {con \in DOMAIN paths' :
                 ~(setup'.ignoreRoot /\ paths'[con] = Root
                                    /\ setup'.override # Root)}
  BY DEF EnterStats, Ignored
<1>2. stats'.got = {}
  BY NothingYet DEF EnterStats
<1> QED BY <1>1, <1>2 DEF StatsInv, Wanted, Ignored

(* A step that leaves the call alone, or is not yet or no more in "stats". *)
LEMMA StatsFrame ==
  ASSUME StatsInv, UNCHANGED <<setup, pc, paths, todo, stats>>
  PROVE  StatsInv'
BY DEF StatsInv, Wanted, Ignored

LEMMA StatsInit == Init => StatsInv
BY DEF Init, StatsInv

LEMMA StatsStep == StatsInv /\ [Next]_vars => StatsInv'
<1> SUFFICES ASSUME StatsInv, [Next]_vars PROVE StatsInv'
  OBVIOUS
<1>1. ASSUME NEW v \in {"V1", "V2"}, NEW g \in Groups, Run(v, g)
      PROVE  StatsInv'
  BY <1>1, StatsFrame DEF Run, call
<1>2. ASSUME NEW h \in Hierarchies, NEW g \in Groups, Move(h, g) \/ RemoveGroup(h, g) \/ CreateGroup(h, g)
      PROVE  StatsInv'
  BY <1>2, StatsFrame DEF Move, RemoveGroup, CreateGroup, call
<1>3. CASE ReadVersion
  BY <1>3 DEF ReadVersion, StatsInv
<1>4. CASE ReadControllerList
  BY <1>4 DEF ReadControllerList, StatsInv
<1>5. CASE ReadPaths
  <2> DEFINE ps == IF version = "V1"
                   THEN [con \in V1Controllers |-> Overridden(home[con])]
                   ELSE NoPaths
  <2>1. CASE setup.v2Loc # "none"
    BY <1>5, <2>1 DEF ReadPaths, StatsInv
  <2>2. CASE setup.v2Loc = "none"
    <3>1. EnterStats(ps) /\ UNCHANGED setup
      BY <1>5, <2>2 DEF ReadPaths, world
    <3> QED BY <3>1, EnterStatsInv
  <2> QED BY <2>1, <2>2
<1>6. CASE ReadDir
  <2>1. PICK ps : EnterStats(ps)
    BY <1>6 DEF ReadDir
  <2>2. UNCHANGED setup
    BY <1>6 DEF ReadDir, world
  <2> QED BY <2>1, <2>2, EnterStatsInv
<1>7. ASSUME NEW con \in todo, ReadController(con) PROVE StatsInv'
  <2>1. /\ pc = "stats" /\ pc' = "stats"
        /\ todo' = todo \ {con}
        /\ UNCHANGED <<setup, paths>>
    BY <1>7 DEF ReadController, world
  <2>2. stats'.got = stats.got \cup {con}
    BY <1>7 DEF ReadController, ReadUsage
  <2>3. Wanted' = Wanted
    BY <2>1 DEF Wanted, Ignored
  <2> QED BY <2>1, <2>2, <2>3 DEF StatsInv
<1>8. CASE Fail
  BY <1>8 DEF Fail, Return, world, StatsInv
<1>9. CASE Finish
  BY <1>9 DEF Finish, Return, world, StatsInv
<1>10. CASE UNCHANGED vars
  BY <1>10, StatsFrame DEF vars
<1> QED BY <1>1, <1>2, <1>3, <1>4, <1>5, <1>6, <1>7, <1>8, <1>9, <1>10 DEF Next

(* GetStatsForPid returns the stats of every controller that is not        *)
(* ignored, or an error, whatever happens to the groups while it runs.     *)
THEOREM AllOrNothingCorrect == Spec => []AllOrNothing
<1>1. StatsInv => AllOrNothing
  BY DEF StatsInv, Wanted, AllOrNothing, Finished
<1> QED BY <1>1, StatsInit, StatsStep, PTL DEF Spec

-----------------------------------------------------------------------------
(* Types *)

(* Until the controllers are read, none is to be and none was. *)
IdleInv == pc # "stats" => todo = {} /\ stats.got = {}

LEMMA IdleInit == Init => IdleInv
BY DEF Init, IdleInv, NoStats

LEMMA IdleStep == IdleInv /\ [Next]_vars => IdleInv'
BY DEF Next, Run, Move, RemoveGroup, CreateGroup, ReadVersion, ReadControllerList, ReadPaths, ReadDir,
       EnterStats, ReadController, Fail, Finish, Return, NoStats, vars, call, world,
       IdleInv

LEMMA TypeInit == Init => TypeOK
BY CgroupAssumption DEF Init, TypeOK, NoStats, NoPaths

LEMMA CommonMetadataType ==
  ASSUME NEW ps, \A con \in DOMAIN ps : ps[con] \in Groups
  PROVE  CommonMetadata(ps) \in
           [path : Groups \cup {None}, id : Groups \cup {None, Dot}, got : {{}},
            ns : {0}, from : {None}, life : {0}]
<1> DEFINE shared == {ps[con] : con \in DOMAIN ps}
                       \ (IF version = "V1" /\ setup.ignoreRoot THEN {Root} ELSE {})
<1>1. CASE shared = {}
  BY <1>1 DEF CommonMetadata, NoStats
<1>2. CASE shared # {} /\ Cardinality(shared) > 1
  BY <1>2 DEF CommonMetadata, NoStats
<1>3. CASE shared # {} /\ ~(Cardinality(shared) > 1)
  <2> DEFINE g == CHOOSE g \in shared : TRUE
  <2>1. g \in Groups
    BY <1>3
  <2>2. CommonMetadata(ps) = [NoStats EXCEPT !.path = g, !.id = g]
    BY <1>3 DEF CommonMetadata
  <2> QED BY <2>1, <2>2 DEF NoStats
<1> QED BY <1>1, <1>2, <1>3

LEMMA EnterStatsType ==
  ASSUME TypeOK, NEW ps, \A con \in DOMAIN ps : ps[con] \in Groups,
         DOMAIN ps \subseteq {"cpu", "cpuacct", "memory"}, EnterStats(ps),
         UNCHANGED <<exists, home, usage, made, setup, version, last>>, line2' \in Groups
  PROVE  TypeOK'
<1>1. stats' \in [path : Groups \cup {None}, id : Groups \cup {None, Dot}, got : {{}},
                  ns : {0}, from : {None}, life : {0}]
  BY CommonMetadataType DEF EnterStats
<1>2. 0 \in 0..MaxMade /\ 0 \in 0..(NsPerUs * MaxUsage)
  BY CgroupAssumption
<1>3. stats' \in [path : Groups \cup {None}, id : Groups \cup {None, Dot},
                  got : SUBSET DOMAIN ps, ns : 0..(NsPerUs * MaxUsage),
                  from : Groups \cup {None}, life : 0..MaxMade]
  BY <1>1, <1>2
<1> QED BY <1>3 DEF EnterStats, TypeOK

(* Nanoseconds are no fewer than microseconds, and order them. *)
NS(v, us) == IF v = "V1" THEN UsageV1(us) ELSE UsageV2(us)

LEMMA NSInOrder ==
  ASSUME NEW v, NEW a \in 0..MaxUsage, NEW b \in 0..MaxUsage, a <= b
  PROVE  /\ NS(v, a) \in 0..(NsPerUs * MaxUsage)
         /\ NS(v, b) \in Nat /\ NS(v, a) <= NS(v, b)
<1> USE CgroupAssumption
<1>1. /\ NsPerUs * a \in Nat /\ NsPerUs * b \in Nat /\ NsPerUs * MaxUsage \in Nat
      /\ NsPerUs * a <= NsPerUs * b
      /\ NsPerUs * b <= NsPerUs * MaxUsage
      /\ a <= NsPerUs * a
  OBVIOUS
<1> QED BY <1>1 DEF NS, UsageV1, UsageV2

LEMMA ReadUsageIs ==
  ASSUME NEW con
  PROVE  LET us == IF Present(con) THEN usage[version][paths[con]] ELSE 0
             life == IF Present(con) THEN made[version][paths[con]] ELSE 0
         IN ReadUsage(con) = [stats EXCEPT !.ns = NS(version, us), !.from = paths[con],
                                           !.life = life]
BY DEF ReadUsage, NS

LEMMA ReadUsageType ==
  ASSUME TypeOK, NEW con \in todo
  PROVE  /\ ReadUsage(con) \in
              [path : Groups \cup {None}, id : Groups \cup {None, Dot},
               got : SUBSET DOMAIN paths, ns : 0..(NsPerUs * MaxUsage),
               from : Groups \cup {None}, life : 0..MaxMade]
         /\ ReadUsage(con).got = stats.got
<1> DEFINE us == IF Present(con) THEN usage[version][paths[con]] ELSE 0
<1>1. paths[con] \in Groups
  BY DEF TypeOK
<1>2. us \in 0..MaxUsage
  BY <1>1, CgroupAssumption DEF TypeOK
<1>3. NS(version, us) \in 0..(NsPerUs * MaxUsage)
  BY <1>2, NSInOrder
<1>4. (IF Present(con) THEN made[version][paths[con]] ELSE 0) \in 0..MaxMade
  BY <1>1, CgroupAssumption DEF TypeOK
<1> QED BY <1>1, <1>3, <1>4, ReadUsageIs DEF TypeOK

LEMMA TypeStep == TypeOK /\ IdleInv /\ [Next]_vars => TypeOK'
<1> SUFFICES ASSUME TypeOK, IdleInv, [Next]_vars PROVE TypeOK'
  OBVIOUS
<1>1. ASSUME NEW v \in {"V1", "V2"}, NEW g \in Groups, Run(v, g)
      PROVE  TypeOK'
  BY <1>1, CgroupAssumption DEF Run, call, TypeOK
<1>2. ASSUME NEW h \in Hierarchies, NEW g \in Groups, Move(h, g) \/ RemoveGroup(h, g)
      PROVE  TypeOK'
  <2>1. home' \in [Hierarchies -> Groups] /\ exists' \in [Hierarchies -> SUBSET Groups]
    BY <1>2 DEF Move, RemoveGroup, TypeOK
  <2>2. UNCHANGED <<usage, made, call>>
    BY <1>2 DEF Move, RemoveGroup
  <2> QED BY <2>1, <2>2 DEF call, TypeOK
<1>12. ASSUME NEW h \in Hierarchies, NEW g \in Groups, CreateGroup(h, g)
       PROVE  TypeOK'
  <2>1. exists' \in [Hierarchies -> SUBSET Groups] /\ UNCHANGED <<home, call>>
    BY <1>12 DEF CreateGroup, TypeOK
  <2>2. /\ usage' \in [{"V1", "V2"} -> [Groups -> 0..MaxUsage]]
        /\ made' \in [{"V1", "V2"} -> [Groups -> 1..MaxMade]]
    BY <1>12, CgroupAssumption DEF CreateGroup, TypeOK
  <2> QED BY <2>1, <2>2 DEF call, TypeOK
<1>3. CASE ReadVersion
  BY <1>3 DEF ReadVersion, world, TypeOK, Hierarchies
<1>4. CASE ReadControllerList
  BY <1>4 DEF ReadControllerList, world, TypeOK
<1>5. CASE ReadPaths
  <2> DEFINE ps == IF version = "V1"
                   THEN [con \in V1Controllers |-> Overridden(home[con])]
                   ELSE NoPaths
  <2>1. \A g \in Groups : Overridden(g) \in Groups
    BY CgroupAssumption DEF Overridden, TypeOK, Setup
  <2>2. /\ DOMAIN ps \subseteq {"cpu", "cpuacct", "memory"}
        /\ \A con \in DOMAIN ps : ps[con] \in Groups
    BY <2>1, CgroupAssumption DEF TypeOK, Hierarchies, NoPaths
  <2>3. /\ UNCHANGED <<exists, home, usage, made, setup, version, last>>
        /\ line2' \in Groups
    BY <1>5, <2>1 DEF ReadPaths, world, TypeOK, Hierarchies
  <2>4. CASE setup.v2Loc # "none"
    <3>1. pc' = "dir" /\ paths' = ps /\ UNCHANGED <<todo, stats>>
      BY <1>5, <2>4 DEF ReadPaths
    <3>2. todo = {} /\ stats.got = {}
      BY <1>5 DEF ReadPaths, IdleInv
    <3> QED BY <2>2, <2>3, <3>1, <3>2 DEF TypeOK
  <2>5. CASE setup.v2Loc = "none"
    BY <1>5, <2>2, <2>3, <2>5, EnterStatsType DEF ReadPaths
  <2> QED BY <2>4, <2>5
<1>6. CASE ReadDir
  <2> DEFINE ps == IF version = "V2" THEN [con \in StatFiles(line2) |-> line2] ELSE paths
  <2>1. /\ DOMAIN ps \subseteq {"cpu", "cpuacct", "memory"}
        /\ \A con \in DOMAIN ps : ps[con] \in Groups
    BY CgroupAssumption DEF TypeOK, StatFiles
  <2>2. EnterStats(ps) /\ UNCHANGED <<exists, home, usage, made, setup, version, line2, last>>
    BY <1>6 DEF ReadDir, world
  <2> QED BY <2>1, <2>2, EnterStatsType DEF TypeOK
<1>7. ASSUME NEW con \in todo, ReadController(con) PROVE TypeOK'
  <2>1. /\ UNCHANGED <<exists, home, usage, made, setup, pc, version, line2, paths, last>>
        /\ todo' = todo \ {con}
    BY <1>7 DEF ReadController, world
  <2> DEFINE read == IF con = UsageController THEN ReadUsage(con) ELSE stats
  <2>2. stats' = [read EXCEPT !.got = @ \cup {con}]
    BY <1>7 DEF ReadController
  <2>3. read \in [path : Groups \cup {None}, id : Groups \cup {None, Dot},
                  got : SUBSET DOMAIN paths, ns : 0..(NsPerUs * MaxUsage),
                  from : Groups \cup {None}, life : 0..MaxMade]
    BY ReadUsageType DEF TypeOK
  <2>4. con \in DOMAIN paths
    BY DEF TypeOK
  <2>5. stats' \in [path : Groups \cup {None}, id : Groups \cup {None, Dot},
                    got : SUBSET DOMAIN paths, ns : 0..(NsPerUs * MaxUsage),
                    from : Groups \cup {None}, life : 0..MaxMade]
    BY <2>2, <2>3, <2>4
  <2> QED BY <2>1, <2>5 DEF TypeOK
<1>8. ASSUME NEW k, Return(k),
             k # None =>
               k \in [version : {"V1", "V2"}, got : SUBSET {"cpu", "cpuacct", "memory"},
                         ns : 0..(NsPerUs * MaxUsage), from : Groups \cup {None},
                         life : 0..MaxMade]
      PROVE  TypeOK'
  <2>1. 0 \in 0..MaxMade /\ 0 \in 0..(NsPerUs * MaxUsage)
    BY CgroupAssumption
  <2> QED BY <1>8, <2>1, CgroupAssumption DEF Return, world, TypeOK, NoStats, NoPaths
<1>9. CASE Fail
  BY <1>8, <1>9 DEF Fail, TypeOK
<1>10. CASE Finish
  <2>1. stats.got \subseteq {"cpu", "cpuacct", "memory"}
    BY DEF TypeOK
  <2> QED BY <1>8, <1>10, <2>1 DEF Finish, TypeOK
<1>11. CASE UNCHANGED vars
  BY <1>11 DEF vars, TypeOK
<1> QED BY <1>1, <1>2, <1>3, <1>4, <1>5, <1>6, <1>7, <1>9, <1>10, <1>11, <1>12 DEF Next

(* Every variable of the reader and of the kernel keeps its type, for any  *)
(* groups, controllers and setups.                                         *)
THEOREM TypeCorrect == Spec => []TypeOK
<1> QED BY TypeInit, TypeStep, IdleInit, IdleStep, PTL DEF Spec

-----------------------------------------------------------------------------
(* The override *)

(* A process is in some group. *)
HasGroups == \A s \in Setups : V1Controllers # {} \/ s.v2Loc # "none"

(* With the override, the paths are the root's: of all V1 controllers, or  *)
(* of those that the root of the V2 hierarchy shows.                       *)
PathsInv ==
  /\ pc = "controllers" => setup.v2Loc = "mounted"
  /\ pc \in {"paths", "dir"} /\ version = "V2" => setup.v2Loc # "none"
  /\ setup.override = Root =>
       /\ pc = "dir" => line2 = Root /\ (version = "V1" => DOMAIN paths = V1Controllers)
       /\ pc = "stats" =>
            DOMAIN paths = IF version = "V1" THEN V1Controllers ELSE StatFiles(Root)

LEMMA PathsInit == Init => PathsInv
BY DEF Init, PathsInv

LEMMA PathsStep ==
  ASSUME HasGroups, TypeOK, PathsInv, [Next]_vars
  PROVE  PathsInv'
<1> USE DEF PathsInv
<1>1. ASSUME NEW v \in {"V1", "V2"}, NEW g \in Groups, Run(v, g)
      PROVE  PathsInv'
  BY <1>1 DEF Run, call
<1>2. ASSUME NEW h \in Hierarchies, NEW g \in Groups, Move(h, g) \/ RemoveGroup(h, g) \/ CreateGroup(h, g)
      PROVE  PathsInv'
  BY <1>2 DEF Move, RemoveGroup, CreateGroup, call
<1>3. CASE ReadVersion
  BY <1>3 DEF ReadVersion, world, HasGroups, TypeOK
<1>4. CASE ReadControllerList
  BY <1>4 DEF ReadControllerList, world
<1>5. CASE ReadPaths
  <2> DEFINE ps == IF version = "V1"
                   THEN [con \in V1Controllers |-> Overridden(home[con])]
                   ELSE NoPaths
  <2>1. /\ pc = "paths" /\ line2' = Overridden(home["unified"])
        /\ UNCHANGED <<setup, version>>
    BY <1>5 DEF ReadPaths, world
  <2>2. setup.override = Root => line2' = Root
    BY <2>1, CgroupAssumption DEF Overridden
  <2>3. version = "V1" => DOMAIN ps = V1Controllers
    OBVIOUS
  <2>4. CASE setup.v2Loc # "none"
    BY <1>5, <2>1, <2>2, <2>3, <2>4 DEF ReadPaths
  <2>5. CASE setup.v2Loc = "none"
    <3>1. version = "V1"
      BY <2>1, <2>5 DEF TypeOK
    <3>2. EnterStats(ps)
      BY <1>5, <2>5 DEF ReadPaths
    <3> QED BY <2>1, <2>3, <3>1, <3>2 DEF EnterStats
  <2> QED BY <2>4, <2>5
<1>6. CASE ReadDir
  BY <1>6 DEF ReadDir, EnterStats, world, TypeOK
<1>7. ASSUME NEW con \in todo, ReadController(con) PROVE PathsInv'
  BY <1>7 DEF ReadController, world
<1>8. CASE Fail
  BY <1>8 DEF Fail, Return
<1>9. CASE Finish
  BY <1>9 DEF Finish, Return
<1>10. CASE UNCHANGED vars
  BY <1>10 DEF vars
<1> QED BY <1>1, <1>2, <1>3, <1>4, <1>5, <1>6, <1>7, <1>8, <1>9, <1>10 DEF Next

(* With the override that Docker needs, every controller of the process is *)
(* read, though root groups are ignored.                                   *)
THEOREM OverrideCorrect ==
  ASSUME HasGroups
  PROVE  Spec => []OverrideReadsAll
<1>1. TypeOK /\ PathsInv /\ StatsInv => OverrideReadsAll
  <2> SUFFICES ASSUME TypeOK, PathsInv, StatsInv, Finished, setup.override = Root
               PROVE  stats.got = IF version = "V1" THEN V1Controllers ELSE StatFiles(Root)
    BY DEF OverrideReadsAll
  <2>1. stats.got = Wanted
    BY DEF StatsInv, Finished
  <2>2. DOMAIN paths = IF version = "V1" THEN V1Controllers ELSE StatFiles(Root)
    BY DEF PathsInv, Finished
  <2> QED BY <2>1, <2>2 DEF Wanted, Ignored
<1>2. TypeOK /\ PathsInv /\ [Next]_vars => PathsInv'
  BY PathsStep
<1> QED
  BY <1>1, <1>2, PathsInit, StatsInit, StatsStep, TypeInit, TypeStep, IdleInit,
     IdleStep, PTL DEF Spec

-----------------------------------------------------------------------------
(* The usage of one group *)

(* A reading of ns, in that life of the group g, is no more than what the  *)
(* group has used by now if that is the life it is in; it has been in none *)
(* later, and in none if it was not there to be read.                      *)
UsedWithin(v, g, life, ns) ==
  /\ g \in Groups
  /\ life <= made[v][g]
  /\ life = made[v][g] => ns <= NS(v, usage[v][g])
  /\ life = 0 => ns = 0

(* So are what the call has read and what the call before did; and of the  *)
(* same life of the same group, the call has read no less.                 *)
UsageInv ==
  /\ pc = "stats" /\ UsageController \in stats.got =>
       UsedWithin(version, stats.from, stats.life, stats.ns)
  /\ last # None /\ (IF last.version = "V1" THEN "cpuacct" ELSE "cpu") \in last.got =>
       UsedWithin(last.version, last.from, last.life, last.ns)
  /\ /\ pc = "stats" /\ last # None /\ last.version = version
     /\ UsageController \in stats.got \cap last.got
     /\ stats.from = last.from /\ stats.life = last.life
     => stats.ns >= last.ns

LEMMA UsageInit == Init => UsageInv
BY DEF Init, UsageInv

(* A step that neither runs nor makes a group changes no usage. *)
LEMMA UsageFrame ==
  ASSUME UNCHANGED <<usage, made, setup>>, NEW v, NEW f, NEW life, NEW ns
  PROVE  UsedWithin(v, f, life, ns)' <=> UsedWithin(v, f, life, ns)
BY DEF UsedWithin, NS, UsageV1, UsageV2

(* A group's usage only grows while it is the same group. *)
LEMMA UsageGrows ==
  ASSUME TypeOK, NEW v \in {"V1", "V2"}, NEW g \in Groups, Run(v, g),
         NEW w \in {"V1", "V2"}, NEW f, NEW life \in Nat, NEW ns \in Nat,
         UsedWithin(w, f, life, ns)
  PROVE  UsedWithin(w, f, life, ns)'
<1>1. /\ usage[w][f] \in 0..MaxUsage /\ usage'[w][f] \in 0..MaxUsage
      /\ usage[w][f] <= usage'[w][f] /\ f \in Groups
  BY CgroupAssumption DEF Run, TypeOK, UsedWithin
<1>2. setup' = setup /\ made' = made
  BY DEF Run, call
<1>3. NS(w, usage[w][f]) <= NS(w, usage'[w][f]) /\ NS(w, usage'[w][f]) \in Nat
      /\ NS(w, usage[w][f]) \in Nat
  BY <1>1, NSInOrder, CgroupAssumption
<1> QED BY <1>1, <1>2, <1>3 DEF UsedWithin, NS, UsageV1, UsageV2

(* A group that is made anew begins another life. *)
LEMMA UsageAnew ==
  ASSUME TypeOK, NEW h \in Hierarchies, NEW g \in Groups, CreateGroup(h, g),
         NEW w \in {"V1", "V2"}, NEW f, NEW life \in Nat, NEW ns \in Nat,
         UsedWithin(w, f, life, ns)
  PROVE  UsedWithin(w, f, life, ns)'
<1>1. f \in Groups /\ setup' = setup /\ made[w][f] \in Nat
  BY CgroupAssumption DEF CreateGroup, UsedWithin, call, TypeOK
<1>2. CASE h = UsageHierarchy(w) /\ f = g
  <2>1. made'[w][f] = made[w][f] + 1
    BY <1>1, <1>2 DEF CreateGroup, TypeOK
  <2> QED BY <1>1, <2>1 DEF UsedWithin
<1>3. CASE ~(h = UsageHierarchy(w) /\ f = g)
  <2>1. made'[w][f] = made[w][f] /\ usage'[w][f] = usage[w][f]
    BY <1>1, <1>3 DEF CreateGroup, TypeOK
  <2> QED BY <1>1, <2>1 DEF UsedWithin, NS, UsageV1, UsageV2
<1> QED BY <1>2, <1>3

(* A controller is read from the life its group is in, or found missing. *)
LEMMA ReadUsageWithin ==
  ASSUME TypeOK, NEW con \in todo
  PROVE  /\ ReadUsage(con).from = paths[con]
         /\ ReadUsage(con).life \in Nat /\ ReadUsage(con).ns \in Nat
         /\ UsedWithin(version, paths[con], ReadUsage(con).life, ReadUsage(con).ns)
         /\ ReadUsage(con).life # 0 =>
              /\ ReadUsage(con).life = made[version][paths[con]]
              /\ ReadUsage(con).ns = NS(version, usage[version][paths[con]])
<1>1. paths[con] \in Groups
  BY DEF TypeOK
<1>2. /\ usage[version][paths[con]] \in 0..MaxUsage
      /\ made[version][paths[con]] \in 1..MaxMade
  BY <1>1 DEF TypeOK
<1>3. 0 \in 0..MaxUsage /\ NS(version, 0) = 0
  BY CgroupAssumption DEF NS, UsageV1, UsageV2
<1>4. NS(version, usage[version][paths[con]]) \in Nat
  BY <1>2, <1>3, NSInOrder
<1>5. stats \in [path : Groups \cup {None}, id : Groups \cup {None, Dot},
                 got : SUBSET DOMAIN paths, ns : 0..(NsPerUs * MaxUsage),
                 from : Groups \cup {None}, life : 0..MaxMade]
  BY DEF TypeOK
<1>6. CASE Present(con)
  <2>1. ReadUsage(con) = [stats EXCEPT !.ns = NS(version, usage[version][paths[con]]),
                                       !.from = paths[con],
                                       !.life = made[version][paths[con]]]
    BY <1>6 DEF ReadUsage, NS
  <2>2. /\ ReadUsage(con).from = paths[con]
        /\ ReadUsage(con).life = made[version][paths[con]]
        /\ ReadUsage(con).ns = NS(version, usage[version][paths[con]])
    BY <1>5, <2>1
  <2> QED BY <1>1, <1>2, <1>4, <2>2 DEF UsedWithin
<1>7. CASE ~Present(con)
  <2>1. ReadUsage(con) = [stats EXCEPT !.ns = NS(version, 0), !.from = paths[con],
                                       !.life = 0]
    BY <1>7 DEF ReadUsage, NS
  <2>2. ReadUsage(con).from = paths[con] /\ ReadUsage(con).life = 0 /\ ReadUsage(con).ns = 0
    BY <1>3, <1>5, <2>1
  <2> QED BY <1>1, <1>2, <2>2 DEF UsedWithin
<1> QED BY <1>6, <1>7

LEMMA UsageStep ==
  ASSUME TypeOK, IdleInv, UsageInv, [Next]_vars
  PROVE  UsageInv'
<1> USE DEF UsageInv, UsageController
<1>0. /\ stats.ns \in Nat /\ stats.life \in Nat /\ version \in {"V1", "V2"}
      /\ last # None => last.ns \in Nat /\ last.life \in Nat /\ last.version \in {"V1", "V2"}
  BY CgroupAssumption DEF TypeOK
<1>1. ASSUME NEW v \in {"V1", "V2"}, NEW g \in Groups, Run(v, g)
      PROVE  UsageInv'
  <2>1. UNCHANGED <<pc, version, stats, last>>
    BY <1>1 DEF Run, call
  <2> QED BY <1>0, <1>1, <2>1, UsageGrows
<1>2. ASSUME NEW h \in Hierarchies, NEW g \in Groups, CreateGroup(h, g)
      PROVE  UsageInv'
  <2>1. UNCHANGED <<pc, version, stats, last>>
    BY <1>2 DEF CreateGroup, call
  <2> QED BY <1>0, <1>2, <2>1, UsageAnew
<1>3. ASSUME NEW h \in Hierarchies, NEW g \in Groups, Move(h, g) \/ RemoveGroup(h, g)
      PROVE  UsageInv'
  BY <1>3, UsageFrame DEF Move, RemoveGroup, call
<1>4. ASSUME ReadVersion \/ ReadControllerList PROVE UsageInv'
  BY <1>4, UsageFrame DEF ReadVersion, ReadControllerList, world
<1>5. ASSUME ReadPaths \/ ReadDir PROVE UsageInv'
  <2>1. UNCHANGED <<version, last, usage, made, setup>> /\ (pc' = "stats" => stats'.got = {})
    BY <1>5, NothingYet DEF ReadPaths, ReadDir, EnterStats, world
  <2> QED BY <2>1, UsageFrame
<1>7. ASSUME NEW con \in todo, ReadController(con) PROVE UsageInv'
  <2>1. /\ pc = "stats"
        /\ UNCHANGED <<exists, home, usage, made, setup, pc, version, line2, paths, last>>
    BY <1>7 DEF ReadController, world
  <2>2. CASE con = UsageController
    <3> DEFINE read == ReadUsage(con)
               g == paths[con]
    <3>1. /\ stats'.got = stats.got \cup {con} /\ stats'.ns = read.ns
          /\ stats'.from = g /\ stats'.life = read.life
      BY <1>7, <2>2, ReadUsageType, ReadUsageWithin DEF ReadController
    <3>2. /\ UsedWithin(version, g, read.life, read.ns)
          /\ read.life # 0 => /\ read.life = made[version][g]
                              /\ read.ns = NS(version, usage[version][g])
      BY ReadUsageWithin
    <3> HIDE DEF read, g
    <3>3. UsedWithin(version, stats.from, stats.life, stats.ns)'
      BY <2>1, <3>1, <3>2 DEF UsedWithin, NS, UsageV1, UsageV2
    <3>4. ASSUME last # None, last.version = version, con \in last.got,
                 last.from = g, last.life = read.life
          PROVE  read.ns >= last.ns
      <4>1. UsedWithin(version, g, read.life, last.ns)
        BY <2>2, <3>4
      <4>2. CASE read.life = 0
        BY <3>2, <4>1, <4>2 DEF UsedWithin
      <4>3. CASE read.life # 0
        BY <3>2, <4>1, <4>3 DEF UsedWithin
      <4> QED BY <4>2, <4>3
    <3>5. last # None /\ (IF last.version = "V1" THEN "cpuacct" ELSE "cpu") \in last.got =>
            UsedWithin(last.version, last.from, last.life, last.ns)'
      BY <2>1, UsageFrame
    <3> QED BY <2>1, <2>2, <3>1, <3>3, <3>4, <3>5
  <2>3. CASE con # UsageController
    <3>1. /\ stats'.got = stats.got \cup {con} /\ stats'.ns = stats.ns
          /\ stats'.from = stats.from /\ stats'.life = stats.life
      BY <1>7, <2>3 DEF ReadController, TypeOK
    <3> QED BY <2>1, <2>3, <3>1, UsageFrame
  <2> QED BY <2>2, <2>3
<1>8. ASSUME NEW k, Return(k), pc = "stats" \/ k \in {last, None},
             k # None /\ k # last =>
               /\ k.version = version /\ k.got = stats.got /\ k.ns = stats.ns
               /\ k.from = stats.from /\ k.life = stats.life
      PROVE  UsageInv'
  <2>1. UNCHANGED <<usage, made, setup>> /\ pc' = "idle" /\ last' = k
    BY <1>8 DEF Return, world
  <2> QED BY <1>8, <2>1, UsageFrame
<1>9. CASE Fail
  BY <1>8, <1>9 DEF Fail
<1>10. CASE Finish
  BY <1>8, <1>10 DEF Finish
<1>11. CASE UNCHANGED vars
  BY <1>11, UsageFrame DEF vars
<1> QED BY <1>1, <1>2, <1>3, <1>4, <1>5, <1>7, <1>9, <1>10, <1>11 DEF Next

(* FillPercentages never finds that the usage of one group went back,      *)
(* whatever groups there are and with any override, as long as it is the   *)
(* same group and not one that was made anew under its path.               *)
THEOREM UsageCorrect == Spec => []SameGroupNonNegative
<1>1. UsageInv => SameGroupNonNegative
  BY DEF UsageInv, SameGroupNonNegative, HasPrev, Finished
<1>2. TypeOK /\ IdleInv /\ UsageInv /\ [Next]_vars => UsageInv'
  BY UsageStep
<1> QED BY <1>1, <1>2, UsageInit, TypeInit, TypeStep, IdleInit, IdleStep, PTL DEF Spec

-----------------------------------------------------------------------------
(* Mounts: the mount table *)

(* Each mount is there once, below the root, and shows in its directory    *)
(* unless another came there since the call began.                         *)
TableInv ==
  /\ mounts # <<>> /\ mounts[1] = RootFS
  /\ IsInjective(mounts)
  /\ os = "windows" => OneVolume(mounts)
  /\ kept \subseteq ToSet(mounts)
  /\ \A e \in kept, m \in ToSet(mounts) : m.dir = e.dir => m = e \/ e.dir \in covered

(* What is listed, or will be, of the mounts that stayed.                  *)
ListInv ==
  /\ at = "entries" =>
       /\ os = "darwin"
       /\ \A i \in DOMAIN mounts : mounts[i] \in kept => i <= num
  /\ at = "drives" =>
       /\ os = "windows"
       /\ \A e \in kept : Accepts(e) => e.dir \in drives \/ e \in ToSet(list)
  /\ at # "listed" => measured = [e \in Mountable |-> Absent]
  /\ DevicesListed
  /\ UsageOfOwnDevice

(* Of the mounts that stayed, those that the Reader found are the ones     *)
(* that it looked for.                                                     *)
ReaderInv ==
  at = "reader" =>
    /\ (\E e \in kept : e.type = "cgroup2" /\ HasPrefix(e.dir)) => reader.v2 # Absent
    /\ \A s \in Enabled :
      /\ (\E e \in kept : e.type = "cgroup" /\ s \in e.subsystems /\ HasPrefix(e.dir)) =>
           reader.v1[s] # Absent
      /\ reader.v1[s] # Absent => HasPrefix(reader.v1[s])
      /\ \A e \in kept :
           e.dir = reader.v1[s] => \/ e.dir \in covered
                                   \/ e.type = "cgroup" /\ s \in e.subsystems
-----------------------------------------------------------------------------
(* Places in the mount table *)

LEMMA Places ==
  ASSUME NEW S, NEW l \in Seq(S)
  PROVE  /\ Len(l) \in Nat /\ DOMAIN l = 1..Len(l)
         /\ \A i \in DOMAIN l : l[i] \in S
OBVIOUS

(* The least of a set of numbers, and the last of a bounded one. *)
LEMMA LeastNumber ==
  ASSUME NEW T \in SUBSET Nat, T # {}
  PROVE  \E m \in T : \A n \in T : m <= n
<1> DEFINE R == OpToRel(<, Nat)
<1>1. PICK m \in T : \A n \in T : <<n, m>> \notin R
  <2>1. IsWellFoundedOn(R, Nat)
    BY NatLessThanWellFounded, Zenon
  <2> HIDE DEF R
  <2> QED BY <2>1, WFMin
<1>2. \A n \in T : n < m => <<n, m>> \in R
  BY DEF OpToRel
<1> HIDE DEF R
<1>3. \A n \in T : ~(n < m)
  BY <1>1, <1>2
<1> QED BY <1>3

LEMMA GreatestNumber ==
  ASSUME NEW b \in Nat, NEW T \in SUBSET (0..b), T # {}
  PROVE  \E m \in T : \A n \in T : n <= m
<1> DEFINE D == {b - n : n \in T}
<1>1. D \in SUBSET Nat /\ D # {}
  <2>1. \A n \in T : b - n \in Nat
    OBVIOUS
  <2> QED BY <2>1
<1> HIDE DEF D
<1>2. PICK d \in D : \A n \in D : d <= n
  BY <1>1, LeastNumber
<1>3. PICK m \in T : d = b - m
  BY DEF D
<1>4. \A n \in T : b - n \in D
  BY DEF D
<1>5. \A n \in T : b - m <= b - n
  BY <1>2, <1>3, <1>4
<1> QED BY <1>5

(* A mount is put at the end of the table, or leaves its place to the next. *)
LEMMA AppendPlaces ==
  ASSUME NEW S, NEW l \in Seq(S), NEW e \in S
  PROVE  /\ Append(l, e) \in Seq(S)
         /\ DOMAIN Append(l, e) = 1..(Len(l) + 1)
         /\ \A i \in DOMAIN l : Append(l, e)[i] = l[i]
         /\ Append(l, e)[Len(l) + 1] = e
OBVIOUS

LEMMA RemovePlaces ==
  ASSUME NEW S, NEW l \in Seq(S), NEW i \in DOMAIN l
  PROVE  /\ RemoveAt(l, i) \in Seq(S)
         /\ DOMAIN RemoveAt(l, i) = 1..(Len(l) - 1)
         /\ \A j \in 1..(Len(l) - 1) :
              RemoveAt(l, i)[j] = IF j < i THEN l[j] ELSE l[j + 1]
<1> DEFINE a == SubSeq(l, 1, i - 1)
           b == SubSeq(l, i + 1, Len(l))
<1>1. Len(l) \in Nat /\ i \in 1..Len(l)
  OBVIOUS
<1>2. a \in Seq(S) /\ Len(a) = i - 1 /\ \A j \in 1..(i - 1) : a[j] = l[j]
  BY <1>1
<1>3. b \in Seq(S) /\ Len(b) = Len(l) - i /\ \A j \in 1..(Len(l) - i) : b[j] = l[i + j]
  BY <1>1
<1> HIDE DEF a, b
<1>4. /\ a \o b \in Seq(S) /\ Len(a \o b) = Len(l) - 1
      /\ \A j \in 1..(Len(l) - 1) :
           (a \o b)[j] = IF j <= i - 1 THEN a[j] ELSE b[j - (i - 1)]
  BY <1>1, <1>2, <1>3
<1>5. DOMAIN (a \o b) = 1..(Len(l) - 1)
  BY <1>4
<1>6. ASSUME NEW j \in 1..(Len(l) - 1) PROVE (a \o b)[j] = IF j < i THEN l[j] ELSE l[j + 1]
  <2>1. CASE j < i
    BY <1>1, <1>2, <1>4, <2>1
  <2>2. CASE ~(j < i)
    <3>1. (a \o b)[j] = b[j - (i - 1)] /\ j - (i - 1) \in 1..(Len(l) - i)
      BY <1>1, <1>4, <2>2
    <3>2. i + (j - (i - 1)) = j + 1
      BY <1>1
    <3> QED BY <1>3, <2>2, <3>1, <3>2
  <2> QED BY <2>1, <2>2
<1>7. RemoveAt(l, i) = a \o b
  BY DEF RemoveAt, a, b
<1> QED BY <1>4, <1>5, <1>6, <1>7

(* The mount that shows in a directory is the last one there. *)
LEMMA ShownIs ==
  ASSUME MountsTypeOK, NEW dir, On(dir) # {}
  PROVE  \E i \in On(dir) : Shown(dir) = mounts[i] /\ \A j \in On(dir) : j <= i
<1>1. Len(mounts) \in Nat /\ DOMAIN mounts = 1..Len(mounts)
  BY Places DEF MountsTypeOK
<1>2. On(dir) \in SUBSET (0..Len(mounts))
  BY <1>1 DEF On
<1>3. \E i \in On(dir) : \A j \in On(dir) : j <= i
  BY <1>1, <1>2, GreatestNumber
<1> QED BY <1>3 DEF Shown

(* What stayed where nothing else came is what shows there. *)
LEMMA KeptShows ==
  ASSUME MountsTypeOK, TableInv, NEW e \in kept, e.dir \notin covered
  PROVE  On(e.dir) # {} /\ Shown(e.dir) = e
<1>1. On(e.dir) # {}
  BY DEF TableInv, ToSet, On
<1>2. PICK i \in On(e.dir) : Shown(e.dir) = mounts[i]
  BY <1>1, ShownIs
<1>3. mounts[i] = e
  BY <1>2 DEF On, TableInv, ToSet
<1> QED BY <1>1, <1>2, <1>3

LEMMA TableInit == MountsInit => TableInv
BY MountsAssumption DEF MountsInit, TableInv

LEMMA TableMount ==
  ASSUME MountsTypeOK, TableInv, NEW e \in Mountable, MountFS(e)
  PROVE  TableInv'
<1> DEFINE n == Len(mounts)
<1>1. /\ mounts' = Append(mounts, e) /\ e \notin ToSet(mounts)
      /\ UNCHANGED <<os, kept>>
      /\ os = "windows" => On(e.dir) = {}
      /\ covered' = IF On(e.dir) = {} THEN covered ELSE covered \cup {e.dir}
  BY DEF MountFS, config
<1>2. n \in Nat /\ DOMAIN mounts = 1..n
  BY Places DEF MountsTypeOK
<1>3. /\ DOMAIN mounts' = 1..(n + 1)
      /\ \A i \in DOMAIN mounts : mounts'[i] = mounts[i]
      /\ mounts'[n + 1] = e
      /\ mounts' \in Seq(Mountable)
  BY <1>1, AppendPlaces DEF MountsTypeOK
<1> HIDE DEF n
<1>4. ToSet(mounts') = ToSet(mounts) \cup {e}
  BY <1>2, <1>3 DEF ToSet
<1>5. 1 \in DOMAIN mounts /\ mounts'[1] = RootFS /\ mounts' # <<>>
  <2>1. n >= 1
    BY <1>2 DEF TableInv, n, MountsTypeOK
  <2> QED BY <1>2, <1>3, <2>1 DEF TableInv
<1>6. IsInjective(mounts)'
  BY <1>1, <1>2, <1>3 DEF TableInv, IsInjective, ToSet
<1>7. ASSUME os = "windows" PROVE OneVolume(mounts)'
  BY <1>1, <1>2, <1>3, <1>7 DEF TableInv, OneVolume, On
<1>8. \A k \in kept, m \in ToSet(mounts') : m.dir = k.dir => m = k \/ k.dir \in covered'
  BY <1>1, <1>4 DEF TableInv, ToSet, On
<1>9. kept' \subseteq ToSet(mounts')
  BY <1>1, <1>4 DEF TableInv
<1> QED BY <1>1, <1>5, <1>6, <1>7, <1>8, <1>9 DEF TableInv

LEMMA TableUnmount ==
  ASSUME MountsTypeOK, TableInv, NEW i \in DOMAIN mounts, Unmount(i)
  PROVE  TableInv'
<1> DEFINE n == Len(mounts)
<1>1. /\ mounts' = RemoveAt(mounts, i) /\ i # 1
      /\ UNCHANGED <<os, covered>>
      /\ kept' = kept \ {mounts[i]}
  BY DEF Unmount, config
<1>2. n \in Nat /\ DOMAIN mounts = 1..n /\ i \in 2..n
  BY <1>1, Places DEF MountsTypeOK
<1>3. /\ DOMAIN mounts' = 1..(n - 1)
      /\ \A j \in 1..(n - 1) : mounts'[j] = IF j < i THEN mounts[j] ELSE mounts[j + 1]
      /\ mounts' \in Seq(Mountable)
  BY <1>1, RemovePlaces DEF MountsTypeOK
<1> HIDE DEF n
<1>4. /\ \A j \in DOMAIN mounts' : j < i => j \in DOMAIN mounts /\ mounts'[j] = mounts[j]
      /\ \A j \in DOMAIN mounts' : j >= i => j + 1 \in DOMAIN mounts /\ mounts'[j] = mounts[j + 1]
  BY <1>2, <1>3
<1>5. 1 \in DOMAIN mounts' /\ mounts'[1] = RootFS /\ mounts' # <<>>
  BY <1>2, <1>3 DEF TableInv
<1>6. \A j, k \in DOMAIN mounts' :
        \E p, q \in DOMAIN mounts : /\ mounts'[j] = mounts[p] /\ mounts'[k] = mounts[q]
                                    /\ p = q => j = k
  BY <1>2, <1>3, <1>4
<1>7. IsInjective(mounts)'
  BY <1>6 DEF TableInv, IsInjective
<1>8. ASSUME os = "windows" PROVE OneVolume(mounts)'
  BY <1>1, <1>6, <1>8 DEF TableInv, OneVolume
<1>9. ToSet(mounts') \subseteq ToSet(mounts)
  BY <1>6 DEF ToSet
<1>10. ASSUME NEW j \in DOMAIN mounts, j # i PROVE mounts[j] \in ToSet(mounts')
  <2>1. CASE j < i
    BY <1>2, <1>3, <2>1 DEF ToSet
  <2>2. CASE j > i
    <3>1. j - 1 \in DOMAIN mounts' /\ mounts'[j - 1] = mounts[j]
      BY <1>2, <1>3, <2>2
    <3> QED BY <3>1 DEF ToSet
  <2> QED BY <1>2, <1>10, <2>1, <2>2
<1>11. kept' \subseteq ToSet(mounts')
  BY <1>1, <1>10 DEF TableInv, ToSet
<1>12. \A k \in kept', m \in ToSet(mounts') : m.dir = k.dir => m = k \/ k.dir \in covered'
  BY <1>1, <1>9 DEF TableInv
<1> QED BY <1>1, <1>5, <1>7, <1>8, <1>11, <1>12 DEF TableInv

(* A call begins with all mounts. *)
LEMMA TableBegin ==
  ASSUME MountsTypeOK, TableInv, Begin
  PROVE  TableInv'
<1>1. /\ UNCHANGED <<mounts, os>> /\ kept' = ToSet(mounts)
      /\ covered' = {d \in Dirs : \E i, j \in On(d) : i # j}
  BY DEF Begin, config
<1>2. ASSUME NEW e \in ToSet(mounts), NEW m \in ToSet(mounts), m.dir = e.dir, m # e
      PROVE  e.dir \in covered'
  <2>1. PICK i \in DOMAIN mounts, j \in DOMAIN mounts : mounts[i] = e /\ mounts[j] = m
    BY DEF ToSet
  <2>2. i \in On(e.dir) /\ j \in On(e.dir) /\ i # j
    BY <1>2, <2>1 DEF On
  <2>3. e.dir \in Dirs
    BY <1>2, <2>1, Places, MountsAssumption DEF MountsTypeOK, Mount
  <2> QED BY <1>1, <2>2, <2>3
<1> QED BY <1>1, <1>2 DEF TableInv

LEMMA TableStep == MountsTypeOK /\ TableInv /\ [MountsNext]_mountsVars => TableInv'
<1> SUFFICES ASSUME MountsTypeOK, TableInv, [MountsNext]_mountsVars PROVE TableInv'
  OBVIOUS
<1>1. CASE UNCHANGED <<mounts, os, kept, covered>>
  BY <1>1 DEF TableInv, OneVolume
<1>2. CASE Begin
  BY <1>2, TableBegin
<1>3. CASE UNCHANGED <<mounts, os>> /\ kept' = {}
  BY <1>3 DEF TableInv, OneVolume
<1>4. ASSUME NEW e \in Mountable, MountFS(e) PROVE TableInv'
  BY <1>4, TableMount
<1>5. ASSUME NEW i \in DOMAIN mounts, Unmount(i) PROVE TableInv'
  BY <1>5, TableUnmount
<1> QED BY <1>1, <1>2, <1>3, <1>4, <1>5
      DEF MountsNext, mountsVars, GetUsage, parseMounts, GetfsstatSize, Getfsstat,
          GetAccessPaths, GetFilesystemType, DrivesListed, Done, NewReader, ReaderDone,
          table, config

-----------------------------------------------------------------------------
(* Types *)

LEMMA ShownType ==
  ASSUME MountsTypeOK, NEW dir
  PROVE  Shown(dir) \in Mountable
<1>1. CASE On(dir) = {}
  BY <1>1, MountsAssumption DEF Shown
<1>2. CASE On(dir) # {}
  <2>1. PICK i \in On(dir) : Shown(dir) = mounts[i]
    BY <1>2, ShownIs
  <2> QED BY <2>1, Places DEF On, MountsTypeOK
<1> QED BY <1>1, <1>2

(* What a filter lets pass and keeps was there. *)
LEMMA ListedFrom ==
  ASSUME NEW l
  PROVE  /\ filterDuplicates(l) \subseteq {l[i] : i \in Accepted(l)}
         /\ Accepted(l) \subseteq DOMAIN l
BY DEF filterDuplicates, Accepted

LEMMA MountFields ==
  ASSUME NEW e \in Mountable
  PROVE  e.dev \in Devices /\ e.dir \in Dirs /\ e.dir # Absent /\ e.dev # Absent
BY MountsAssumption DEF Mount

(* The entries of Getfsstat's buffer that pass are mounts. *)
Buffer == [i \in 1..num |-> IF i \in DOMAIN mounts THEN mounts[i] ELSE Zero]

LEMMA BufferAccepted ==
  ASSUME MountsTypeOK
  PROVE  /\ \A i \in Accepted(Buffer) : i \in DOMAIN mounts /\ Buffer[i] = mounts[i]
         /\ \A i \in DOMAIN mounts : i <= num => i \in DOMAIN Buffer /\ Buffer[i] = mounts[i]
<1>1. ~Accepts(Zero)
  BY MountsAssumption DEF Accepts, avoidFileSystem, IsAbs, Zero
<1>2. Len(mounts) \in Nat /\ DOMAIN mounts = 1..Len(mounts)
  BY Places DEF MountsTypeOK
<1> QED BY <1>1, <1>2 DEF Buffer, Accepted, MountsTypeOK

LEMMA MountsTypeInit == MountsInit => MountsTypeOK
BY MountsAssumption DEF MountsInit, MountsTypeOK, NoReader

LEMMA MountsTypeTable ==
  ASSUME MountsTypeOK,
         \/ \E e \in Mountable : MountFS(e)
         \/ \E i \in DOMAIN mounts : Unmount(i)
  PROVE  MountsTypeOK'
<1>1. ASSUME NEW e \in Mountable, MountFS(e) PROVE MountsTypeOK'
  <2>1. mounts' \in Seq(Mountable)
    BY <1>1, AppendPlaces DEF MountFS, MountsTypeOK
  <2>2. covered' \subseteq Dirs /\ changes' \in 0..MaxChanges
    BY <1>1, MountFields, MountsAssumption DEF MountFS, MountsTypeOK
  <2> QED BY <1>1, <2>1, <2>2 DEF MountFS, MountsTypeOK, config, fs
<1>2. ASSUME NEW i \in DOMAIN mounts, Unmount(i) PROVE MountsTypeOK'
  <2>1. mounts' \in Seq(Mountable)
    BY <1>2, RemovePlaces DEF Unmount, MountsTypeOK
  <2>2. kept' \subseteq Mountable /\ changes' \in 0..MaxChanges
    BY <1>2, MountsAssumption DEF Unmount, MountsTypeOK
  <2> QED BY <1>2, <2>1, <2>2 DEF Unmount, MountsTypeOK, config, fs
<1> QED BY <1>1, <1>2

LEMMA MountsTypeBegin ==
  ASSUME MountsTypeOK, Begin
  PROVE  /\ UNCHANGED <<mounts, changes, config>>
         /\ kept' \subseteq Mountable /\ covered' \subseteq Dirs
BY Places DEF MountsTypeOK, Begin, ToSet

LEMMA MountsTypeListing ==
  ASSUME MountsTypeOK,
         \/ parseMounts \/ GetfsstatSize \/ Getfsstat \/ GetAccessPaths \/ DrivesListed
         \/ \E d \in drives : GetFilesystemType(d)
  PROVE  MountsTypeOK'
<1>1. CASE parseMounts
  <2>1. listed' \subseteq Mountable
    BY <1>1, ListedFrom, Places DEF parseMounts, Publish, MountsTypeOK
  <2> QED BY <1>1, <2>1, MountsTypeBegin DEF parseMounts, Publish, MountsTypeOK, config
<1>2. CASE GetfsstatSize
  <2>1. num' \in Nat
    BY <1>2, Places DEF GetfsstatSize, MountsTypeOK
  <2> QED BY <1>2, <2>1, MountsTypeBegin DEF GetfsstatSize, MountsTypeOK, config
<1>3. CASE Getfsstat
  <2>1. listed' = filterDuplicates(Buffer)
    BY <1>3 DEF Getfsstat, Publish, Buffer
  <2>2. listed' \subseteq Mountable
    BY <2>1, ListedFrom, BufferAccepted, Places DEF MountsTypeOK
  <2> QED BY <1>3, <2>2 DEF Getfsstat, Publish, MountsTypeOK, config, table
<1>4. CASE GetAccessPaths
  <2>1. drives' \subseteq Dirs
    BY <1>4, MountFields, Places DEF GetAccessPaths, MountsTypeOK, ToSet
  <2> QED BY <1>4, <2>1, MountsTypeBegin DEF GetAccessPaths, MountsTypeOK, config
<1>5. CASE DrivesListed
  <2>1. listed' \subseteq Mountable /\ list' \in Seq(Mountable)
    BY <1>5, Places DEF DrivesListed, MountsTypeOK, ToSet
  <2> QED BY <1>5, <2>1 DEF DrivesListed, MountsTypeOK, config, table
<1>6. ASSUME NEW d \in drives, GetFilesystemType(d) PROVE MountsTypeOK'
  <2>1. Append(list, Shown(d)) \in Seq(Mountable)
    BY ShownType, AppendPlaces DEF MountsTypeOK
  <2>2. /\ list' \in {list, Append(list, Shown(d)), <<>>}
        /\ drives' \subseteq drives /\ at' \in {at, "idle"}
    BY <1>6 DEF GetFilesystemType
  <2>3. list \in Seq(Mountable) /\ <<>> \in Seq(Mountable)
    BY DEF MountsTypeOK
  <2>4. list' \in Seq(Mountable)
    BY <2>1, <2>2, <2>3, Zenon
  <2> QED BY <1>6, <2>2, <2>4 DEF GetFilesystemType, MountsTypeOK, config, table
<1> QED BY <1>1, <1>2, <1>3, <1>4, <1>5, <1>6

(* The directories that the Reader is given: NewReader chooses, for a V1   *)
(* subsystem and for V2, one of the mounts it looks for, if there are any. *)
FirstOf(T) == CHOOSE i \in T : \A j \in T : i <= j
LastOf(T) == CHOOSE i \in T : \A j \in T : j <= i

LEMMA ChosenMounts ==
  ASSUME MountsTypeOK
  PROVE  /\ \A s : V1Mount(s) # {} => FirstOf(V1Mount(s)) \in V1Mount(s)
         /\ CgroupMounts("cgroup2") # {} =>
              LastOf(CgroupMounts("cgroup2")) \in CgroupMounts("cgroup2")
<1>1. Len(mounts) \in Nat /\ DOMAIN mounts = 1..Len(mounts)
  BY Places DEF MountsTypeOK
<1>2. ASSUME NEW s, V1Mount(s) # {} PROVE FirstOf(V1Mount(s)) \in V1Mount(s)
  <2>1. V1Mount(s) \in SUBSET Nat
    BY <1>1 DEF V1Mount, CgroupMounts
  <2>2. \E i \in V1Mount(s) : \A j \in V1Mount(s) : i <= j
    BY <1>2, <2>1, LeastNumber
  <2> QED BY <2>2 DEF FirstOf
<1>3. ASSUME CgroupMounts("cgroup2") # {}
      PROVE  LastOf(CgroupMounts("cgroup2")) \in CgroupMounts("cgroup2")
  <2>1. CgroupMounts("cgroup2") \in SUBSET (0..Len(mounts))
    BY <1>1 DEF CgroupMounts
  <2>2. \E i \in CgroupMounts("cgroup2") : \A j \in CgroupMounts("cgroup2") : j <= i
    BY <1>1, <1>3, <2>1, GreatestNumber
  <2> QED BY <2>2 DEF LastOf
<1> QED BY <1>2, <1>3

LEMMA NewReaderIs ==
  ASSUME NewReader
  PROVE  reader' =
           [v1 |-> [s \in Enabled |-> IF V1Mount(s) = {} THEN Absent
                                      ELSE mounts[FirstOf(V1Mount(s))].dir],
            v2 |-> IF CgroupMounts("cgroup2") = {} THEN Absent
                   ELSE mounts[LastOf(CgroupMounts("cgroup2"))].dir]
BY DEF NewReader, FirstOf, LastOf

LEMMA MountsTypeReader ==
  ASSUME MountsTypeOK, NewReader
  PROVE  MountsTypeOK'
<1>1. \A i \in DOMAIN mounts : mounts[i].dir \in Dirs
  BY Places, MountFields DEF MountsTypeOK
<1>2. \A s \in Enabled : V1Mount(s) # {} => mounts[FirstOf(V1Mount(s))].dir \in Dirs
  BY <1>1, ChosenMounts DEF V1Mount, CgroupMounts
<1>3. CgroupMounts("cgroup2") # {} => mounts[LastOf(CgroupMounts("cgroup2"))].dir \in Dirs
  BY <1>1, ChosenMounts DEF CgroupMounts
<1>4. reader' \in [v1 : [Enabled -> Dirs \cup {Absent}], v2 : Dirs \cup {Absent}]
  BY <1>2, <1>3, NewReaderIs
<1> QED BY <1>4, MountsTypeBegin DEF NewReader, MountsTypeOK, config

LEMMA MountsTypeStep == MountsTypeOK /\ [MountsNext]_mountsVars => MountsTypeOK'
<1> SUFFICES ASSUME MountsTypeOK, [MountsNext]_mountsVars PROVE MountsTypeOK'
  OBVIOUS
<1>1. ASSUME NEW e \in Mountable, GetUsage(e) PROVE MountsTypeOK'
  <2>1. Shown(e.dir).dev \in Devices
    BY ShownType, MountFields
  <2> QED BY <1>1, <2>1 DEF GetUsage, MountsTypeOK, table, config
<1>2. CASE Done
  BY <1>2 DEF Done, MountsTypeOK, config
<1>3. CASE ReaderDone
  BY <1>3 DEF ReaderDone, NoReader, MountsTypeOK, config
<1>4. CASE UNCHANGED mountsVars
  BY <1>4 DEF mountsVars, MountsTypeOK
<1> QED BY <1>1, <1>2, <1>3, <1>4, MountsTypeTable, MountsTypeListing, MountsTypeReader
      DEF MountsNext

(* Type correctness, for any mounts, directories and subsystems. *)
THEOREM MountsTypeCorrect == MountsSpec => []MountsTypeOK
BY MountsTypeInit, MountsTypeStep, PTL DEF MountsSpec
-----------------------------------------------------------------------------
(* The list of filesystems *)

(* The entries that pass have directories, whose lengths are numbers. *)
Measurable(l) ==
  /\ DOMAIN l \subseteq Nat
  /\ \A i \in Accepted(l) : l[i] \in Mountable

(* filterDuplicates keeps one mount of each device that passes, with a     *)
(* directory that is as short as any.                                      *)
LEMMA FilterKeeps ==
  ASSUME NEW l, Measurable(l), NEW i \in Accepted(l)
  PROVE  \E f \in filterDuplicates(l) :
           f.dev = l[i].dev /\ LenOf[f.dir] <= LenOf[l[i].dir]
<1>1. \A j \in Accepted(l) : LenOf[l[j].dir] \in Nat
  BY MountFields, MountsAssumption DEF Measurable
<1>2. CASE ~IsPath(l[i].dev)
  <2>1. l[i] \in filterDuplicates(l)
    BY <1>2 DEF filterDuplicates
  <2> QED BY <1>1, <2>1
<1>3. CASE IsPath(l[i].dev)
  <2> DEFINE same == {j \in Accepted(l) : l[j].dev = l[i].dev}
             lengths == {LenOf[l[j].dir] : j \in same}
  <2>1. lengths \in SUBSET Nat /\ LenOf[l[i].dir] \in lengths
    BY <1>1
  <2> HIDE DEF lengths
  <2>2. PICK n \in lengths : \A m \in lengths : n <= m
    BY <2>1, LeastNumber
  <2> DEFINE shortest == {j \in same : LenOf[l[j].dir] = n}
  <2>3. shortest \in SUBSET Nat /\ shortest # {}
    <3>1. same \subseteq Nat
      BY DEF Measurable, Accepted
    <3> QED BY <2>2, <3>1 DEF lengths
  <2> HIDE DEF shortest
  <2>4. PICK k \in shortest : \A j \in shortest : k <= j
    BY <2>3, LeastNumber
  <2>5. k \in same /\ LenOf[l[k].dir] = n /\ k \in Nat /\ n \in Nat
    BY <2>1, <2>2, <2>3, <2>4 DEF shortest
  <2>6. ASSUME NEW j \in Accepted(l), l[j].dev = l[k].dev
        PROVE  \/ LenOf[l[j].dir] > LenOf[l[k].dir]
               \/ LenOf[l[j].dir] = LenOf[l[k].dir] /\ j >= k
    <3>1. j \in same /\ LenOf[l[j].dir] \in lengths
      BY <2>5, <2>6 DEF lengths
    <3>2. n <= LenOf[l[j].dir] /\ LenOf[l[j].dir] \in Nat
      BY <1>1, <2>2, <3>1
    <3>3. CASE LenOf[l[j].dir] = n
      <4>1. j \in shortest
        BY <3>1, <3>3 DEF shortest
      <4> QED BY <2>3, <2>4, <2>5, <3>3, <4>1
    <3> QED BY <2>5, <3>2, <3>3
  <2>7. l[k] \in filterDuplicates(l)
    BY <2>5, <2>6 DEF filterDuplicates
  <2>8. n <= LenOf[l[i].dir]
    BY <2>1, <2>2
  <2> QED BY <2>5, <2>7, <2>8
<1> QED BY <1>2, <1>3

(* And no more than one, if the device is a path. *)
LEMMA FilterOnce ==
  ASSUME NEW l, Measurable(l),
         NEW e \in filterDuplicates(l), NEW f \in filterDuplicates(l),
         e.dev = f.dev, IsPath(e.dev)
  PROVE  e = f
<1>1. \A j \in Accepted(l) : LenOf[l[j].dir] \in Nat /\ j \in Nat
  BY MountFields, MountsAssumption DEF Measurable, Accepted
<1>2. PICK i \in Accepted(l) :
        /\ e = l[i]
        /\ \A j \in Accepted(l) :
             l[j].dev = e.dev => \/ LenOf[l[j].dir] > LenOf[e.dir]
                                 \/ LenOf[l[j].dir] = LenOf[e.dir] /\ j >= i
  BY DEF filterDuplicates
<1>3. PICK k \in Accepted(l) :
        /\ f = l[k]
        /\ \A j \in Accepted(l) :
             l[j].dev = f.dev => \/ LenOf[l[j].dir] > LenOf[f.dir]
                                 \/ LenOf[l[j].dir] = LenOf[f.dir] /\ j >= k
  BY DEF filterDuplicates
<1>4. i = k
  BY <1>1, <1>2, <1>3
<1> QED BY <1>2, <1>3, <1>4

(* What is listed from l has all devices of l that pass. *)
LEMMA ListingComplete ==
  ASSUME NEW l, Measurable(l), listed' = filterDuplicates(l), UNCHANGED config,
         \A e \in kept' : Accepts(e) => \E i \in Accepted(l) : l[i] = e
  PROVE  DevicesListed'
<1>1. ASSUME NEW e \in kept', Accepts(e)
      PROVE  \E f \in listed' : f.dev = e.dev /\ LenOf[f.dir] <= LenOf[e.dir]
  BY <1>1, FilterKeeps
<1>2. ASSUME NEW e \in listed', NEW f \in listed', e.dev = f.dev, e # f
      PROVE  KindOf[e.dev] = "name"
  <2>1. e \in Mountable
    BY ListedFrom DEF Measurable
  <2> QED BY <1>2, <2>1, FilterOnce, MountFields DEF IsPath
<1>3. \A e : Accepts(e)' = Accepts(e)
  BY DEF Accepts, avoidFileSystem, IsPath, config
<1> QED BY <1>1, <1>2, <1>3 DEF DevicesListed

LEMMA ListInit == MountsInit => ListInv
BY DEF MountsInit, ListInv, DevicesListed, UsageOfOwnDevice

(* Whatever becomes of the table, fewer mounts stayed and more are covered. *)
LEMMA ListTable ==
  ASSUME ListInv, UNCHANGED <<config, fs>>, kept' \subseteq kept, covered \subseteq covered',
         \A i \in DOMAIN mounts' :
           mounts'[i] \in kept' => \E j \in DOMAIN mounts : mounts[j] = mounts'[i] /\ i <= j,
         DOMAIN mounts \subseteq Nat, DOMAIN mounts' \subseteq Nat, num \in Nat
  PROVE  ListInv'
<1>1. \A e : Accepts(e)' = Accepts(e)
  BY DEF Accepts, avoidFileSystem, IsPath, config
<1>2. DevicesListed' /\ UsageOfOwnDevice'
  BY <1>1 DEF ListInv, DevicesListed, UsageOfOwnDevice, fs, config
<1>3. ASSUME at = "entries", NEW i \in DOMAIN mounts', mounts'[i] \in kept' PROVE i <= num
  <2>1. PICK j \in DOMAIN mounts : mounts[j] = mounts'[i] /\ i <= j
    BY <1>3
  <2>2. j <= num
    BY <1>3, <2>1 DEF ListInv
  <2> QED BY <2>1, <2>2
<1> QED BY <1>1, <1>2, <1>3 DEF ListInv, fs, config

LEMMA ListMoves ==
  ASSUME MountsTypeOK, TableInv, ListInv,
         \/ \E e \in Mountable : MountFS(e)
         \/ \E i \in DOMAIN mounts : Unmount(i)
  PROVE  ListInv'
<1> DEFINE n == Len(mounts)
<1>1. n \in Nat /\ DOMAIN mounts = 1..n /\ num \in Nat
  BY Places DEF MountsTypeOK
<1>2. ASSUME NEW e \in Mountable, MountFS(e) PROVE ListInv'
  <2>1. /\ e \notin ToSet(mounts) /\ mounts' = Append(mounts, e)
        /\ kept' = kept /\ covered \subseteq covered' /\ UNCHANGED <<config, fs>>
    BY <1>2 DEF MountFS
  <2>2. /\ DOMAIN mounts' = 1..(n + 1)
        /\ \A i \in DOMAIN mounts : mounts'[i] = mounts[i]
        /\ mounts'[n + 1] = e
    BY <2>1, AppendPlaces DEF MountsTypeOK
  <2>3. e \notin kept
    BY <2>1 DEF TableInv
  <2> HIDE DEF n
  <2>4. ASSUME NEW i \in DOMAIN mounts', mounts'[i] \in kept'
        PROVE  i \in DOMAIN mounts /\ mounts[i] = mounts'[i] /\ i <= i
    <3>1. i # n + 1
      BY <2>1, <2>2, <2>3, <2>4
    <3> QED BY <1>1, <2>2, <3>1
  <2> QED BY <1>1, <2>1, <2>2, <2>4, ListTable
<1>3. ASSUME NEW i \in DOMAIN mounts, Unmount(i) PROVE ListInv'
  <2>1. /\ mounts' = RemoveAt(mounts, i) /\ kept' = kept \ {mounts[i]} /\ covered' = covered
        /\ UNCHANGED <<config, fs>>
    BY <1>3 DEF Unmount
  <2>2. /\ DOMAIN mounts' = 1..(n - 1)
        /\ \A j \in 1..(n - 1) : mounts'[j] = IF j < i THEN mounts[j] ELSE mounts[j + 1]
    BY <2>1, RemovePlaces DEF MountsTypeOK
  <2> HIDE DEF n
  <2>3. ASSUME NEW j \in DOMAIN mounts'
        PROVE  \E k \in DOMAIN mounts : mounts[k] = mounts'[j] /\ j <= k
    <3>1. CASE j < i
      BY <1>1, <2>2, <3>1
    <3>2. CASE ~(j < i)
      <4>1. j + 1 \in DOMAIN mounts /\ mounts[j + 1] = mounts'[j] /\ j <= j + 1
        BY <1>1, <2>2, <3>2
      <4> QED BY <4>1
    <3> QED BY <3>1, <3>2
  <2> QED BY <1>1, <2>1, <2>2, <2>3, ListTable
<1> QED BY <1>2, <1>3

(* Before anything is listed, no usage is known. *)
LEMMA NothingMeasured ==
  ASSUME measured' = [e \in Mountable |-> Absent], listed' \subseteq Mountable
  PROVE  UsageOfOwnDevice'
BY DEF UsageOfOwnDevice

LEMMA ListUnix ==
  ASSUME MountsTypeOK, ListInv, parseMounts
  PROVE  ListInv'
<1>1. /\ at = "idle" /\ at' = "listed" /\ listed' = filterDuplicates(mounts)
      /\ kept' = ToSet(mounts) /\ UNCHANGED <<mounts, measured, config>>
  BY DEF parseMounts, Begin, Publish, config
<1>2. Measurable(mounts)
  BY Places, ListedFrom DEF Measurable, MountsTypeOK
<1>3. \A e \in kept' : Accepts(e) => \E i \in Accepted(mounts) : mounts[i] = e
  BY <1>1 DEF Accepted, ToSet
<1>4. listed' \subseteq Mountable
  BY <1>1, <1>2, ListedFrom DEF Measurable
<1>5. DevicesListed' /\ UsageOfOwnDevice'
  BY <1>1, <1>2, <1>3, <1>4, ListingComplete, NothingMeasured DEF ListInv
<1> QED BY <1>1, <1>5 DEF ListInv

LEMMA ListDarwin ==
  ASSUME MountsTypeOK, TableInv, ListInv, GetfsstatSize \/ Getfsstat
  PROVE  ListInv'
<1>1. CASE GetfsstatSize
  <2>1. /\ at = "idle" /\ at' = "entries" /\ num' = Len(mounts)
        /\ UNCHANGED <<mounts, measured, os>> /\ os = "darwin"
    BY <1>1 DEF GetfsstatSize, Begin, config
  <2>2. \A i \in DOMAIN mounts : i <= Len(mounts)
    BY Places DEF MountsTypeOK
  <2> QED BY <2>1, <2>2 DEF ListInv, DevicesListed, UsageOfOwnDevice
<1>2. CASE Getfsstat
  <2>1. /\ at = "entries" /\ at' = "listed" /\ listed' = filterDuplicates(Buffer)
        /\ UNCHANGED <<kept, measured, config>>
    BY <1>2 DEF Getfsstat, Publish, Buffer, table
  <2>2. Measurable(Buffer)
    BY BufferAccepted, Places DEF Measurable, Buffer, MountsTypeOK
  <2>3. ASSUME NEW e \in kept, Accepts(e)
        PROVE  \E i \in Accepted(Buffer) : Buffer[i] = e
    <3>1. PICK i \in DOMAIN mounts : mounts[i] = e
      BY DEF TableInv, ToSet
    <3>2. i <= num
      BY <2>1, <3>1 DEF ListInv
    <3> QED BY <2>3, <3>1, <3>2, BufferAccepted DEF Accepted
  <2>4. listed' \subseteq Mountable
    BY <2>1, <2>2, ListedFrom DEF Measurable
  <2>5. DevicesListed' /\ UsageOfOwnDevice'
    BY <2>1, <2>2, <2>3, <2>4, ListingComplete, NothingMeasured DEF ListInv
  <2> QED BY <2>1, <2>5 DEF ListInv
<1> QED BY <1>1, <1>2

(* On Windows, a mount that stayed is the only one of its drive. *)
LEMMA DriveShows ==
  ASSUME MountsTypeOK, TableInv, os = "windows", NEW e \in kept
  PROVE  Shown(e.dir) = e
<1>1. PICK i \in DOMAIN mounts : mounts[i] = e
  BY DEF TableInv, ToSet
<1>2. i \in On(e.dir) /\ \A j \in On(e.dir) : j = i
  BY <1>1 DEF On, TableInv, OneVolume
<1> QED BY <1>1, <1>2, ShownIs

LEMMA ListWindows ==
  ASSUME MountsTypeOK, TableInv, ListInv,
         GetAccessPaths \/ DrivesListed \/ \E d \in drives : GetFilesystemType(d)
  PROVE  ListInv'
<1>1. CASE GetAccessPaths
  <2>1. /\ at = "idle" /\ at' = "drives" /\ drives' = {e.dir : e \in ToSet(mounts)}
        /\ kept' = ToSet(mounts) /\ UNCHANGED <<measured, os>> /\ os = "windows"
    BY <1>1 DEF GetAccessPaths, Begin, config
  <2> QED BY <2>1 DEF ListInv, DevicesListed, UsageOfOwnDevice
<1>2. ASSUME NEW d \in drives, GetFilesystemType(d) PROVE ListInv'
  <2>1. /\ at = "drives" /\ UNCHANGED <<kept, measured, config>> /\ os = "windows"
    BY <1>2 DEF GetFilesystemType, table, ListInv
  <2>2. \A e : Accepts(e)' = Accepts(e)
    BY <2>1 DEF Accepts, avoidFileSystem, IsPath, config
  <2>3. CASE at' = "idle"
    BY <2>1, <2>3 DEF ListInv, DevicesListed, UsageOfOwnDevice
  <2>4. CASE at' # "idle"
    <3>1. /\ at' = "drives" /\ drives' = drives \ {d}
          /\ list' = IF Accepts(Shown(d)) THEN Append(list, Shown(d)) ELSE list
      BY <1>2, <2>1, <2>4 DEF GetFilesystemType
    <3>2. /\ ToSet(list) \subseteq ToSet(list')
          /\ Accepts(Shown(d)) => Shown(d) \in ToSet(list')
      <4>1. Len(list) \in Nat /\ DOMAIN list = 1..Len(list)
        BY Places DEF MountsTypeOK
      <4>2. CASE Accepts(Shown(d))
        <5>1. /\ DOMAIN list' = 1..(Len(list) + 1)
              /\ \A i \in DOMAIN list : list'[i] = list[i]
              /\ list'[Len(list) + 1] = Shown(d)
          BY <3>1, <4>2, AppendPlaces, ShownType DEF MountsTypeOK
        <5> QED BY <4>1, <5>1 DEF ToSet
      <4> QED BY <3>1, <4>2
    <3>3. ASSUME NEW e \in kept, Accepts(e) PROVE e.dir \in drives' \/ e \in ToSet(list')
      <4>1. e.dir \in drives \/ e \in ToSet(list)
        BY <2>1, <3>3 DEF ListInv
      <4>2. e.dir = d => Shown(d) = e
        BY <2>1, DriveShows
      <4> QED BY <3>1, <3>2, <3>3, <4>1, <4>2
    <3> QED BY <2>1, <2>2, <3>1, <3>3 DEF ListInv, DevicesListed, UsageOfOwnDevice, config
  <2> QED BY <2>3, <2>4
<1>3. CASE DrivesListed
  <2>1. /\ at = "drives" /\ drives = {} /\ at' = "listed" /\ listed' = ToSet(list)
        /\ UNCHANGED <<kept, measured, config>> /\ os = "windows"
    BY <1>3 DEF DrivesListed, table, ListInv
  <2>2. \A e : Accepts(e)' = Accepts(e)
    BY <2>1 DEF Accepts, avoidFileSystem, IsPath, config
  <2>3. listed' \subseteq Mountable
    BY <2>1, Places DEF MountsTypeOK, ToSet
  <2>4. \A e \in listed' : LenOf[e.dir] \in Nat
    BY <2>3, MountFields, MountsAssumption
  <2>5. \A e \in kept' : Accepts(e) => e \in listed'
    BY <2>1 DEF ListInv
  <2>6. DevicesListed'
    BY <2>1, <2>2, <2>4, <2>5 DEF DevicesListed, config
  <2>7. UsageOfOwnDevice'
    BY <2>1, <2>3, NothingMeasured DEF ListInv
  <2> QED BY <2>1, <2>6, <2>7 DEF ListInv
<1> QED BY <1>1, <1>2, <1>3

(* GetUsage finds a mount that stayed, where no other came. *)
LEMMA ListUsage ==
  ASSUME MountsTypeOK, TableInv, ListInv, NEW e \in Mountable, GetUsage(e)
  PROVE  ListInv'
<1>1. /\ at = "listed" /\ at' = "listed" /\ e \in listed
      /\ measured' = [measured EXCEPT ![e] = Shown(e.dir).dev]
      /\ UNCHANGED <<listed, table, config>>
  BY DEF GetUsage
<1>2. DevicesListed'
  BY <1>1 DEF ListInv, DevicesListed, Accepts, avoidFileSystem, IsPath, table, config
<1>3. e \in kept /\ e.dir \notin covered => Shown(e.dir) = e
  BY KeptShows
<1>4. UsageOfOwnDevice'
  BY <1>1, <1>3 DEF ListInv, UsageOfOwnDevice, MountsTypeOK, table
<1> QED BY <1>1, <1>2, <1>4 DEF ListInv

LEMMA ListStep ==
  MountsTypeOK /\ TableInv /\ ListInv /\ [MountsNext]_mountsVars => ListInv'
<1> SUFFICES ASSUME MountsTypeOK, TableInv, ListInv, [MountsNext]_mountsVars PROVE ListInv'
  OBVIOUS
<1>1. CASE Done
  BY <1>1 DEF Done, ListInv, DevicesListed, UsageOfOwnDevice
<1>2. CASE NewReader \/ ReaderDone
  BY <1>2 DEF NewReader, ReaderDone, Begin, ListInv, DevicesListed, UsageOfOwnDevice
<1>3. CASE UNCHANGED mountsVars
  BY <1>3 DEF mountsVars, ListInv, DevicesListed, UsageOfOwnDevice, Accepts, avoidFileSystem,
              IsPath
<1> QED BY <1>1, <1>2, <1>3, ListMoves, ListUnix, ListDarwin, ListWindows, ListUsage
      DEF MountsNext

(* GetFilesystems lists every device that stayed mounted where the filter  *)
(* lets it pass, with a directory as short as any, and once if it is a     *)
(* path, on each operating system and whatever is mounted meanwhile.       *)
THEOREM ListedCorrect == MountsSpec => []DevicesListed
<1>1. ListInv => DevicesListed
  BY DEF ListInv
<1> QED BY <1>1, MountsTypeInit, MountsTypeStep, TableInit, TableStep, ListInit, ListStep, PTL
        DEF MountsSpec

(* The usage under a mount that stayed and was not covered is its own. *)
THEOREM UsageOwnCorrect == MountsSpec => []UsageOfOwnDevice
<1>1. ListInv => UsageOfOwnDevice
  BY DEF ListInv
<1> QED BY <1>1, MountsTypeInit, MountsTypeStep, TableInit, TableStep, ListInit, ListStep, PTL
        DEF MountsSpec

-----------------------------------------------------------------------------
(* The mount points of the Reader *)

LEMMA ReaderInit == MountsInit => ReaderInv
BY DEF MountsInit, ReaderInv

(* The Reader keeps what it found, of mounts of which fewer stay. *)
LEMMA ReaderFrame ==
  ASSUME ReaderInv, UNCHANGED <<reader, config>>, at' = "reader" => at = "reader",
         kept' \subseteq kept, covered \subseteq covered'
  PROVE  ReaderInv'
<1>1. \A d : HasPrefix(d)' = HasPrefix(d)
  BY DEF HasPrefix, IsAbs, config
<1> QED BY <1>1 DEF ReaderInv

LEMMA ReaderMade ==
  ASSUME MountsTypeOK, NewReader
  PROVE  ReaderInv'
<1>1. /\ UNCHANGED <<mounts, config>> /\ kept' = ToSet(mounts)
      /\ covered' = {d \in Dirs : \E i, j \in On(d) : i # j}
  BY DEF NewReader, Begin
<1>2. \A d : HasPrefix(d)' = HasPrefix(d)
  BY <1>1 DEF HasPrefix, IsAbs, config
<1>3. \A i \in DOMAIN mounts : mounts[i].dir \in Dirs /\ mounts[i].dir # Absent
  BY Places, MountFields DEF MountsTypeOK
<1>4. ASSUME NEW e \in kept', e.type = "cgroup2", HasPrefix(e.dir)
      PROVE  reader'.v2 # Absent
  <2>1. CgroupMounts("cgroup2") # {}
    BY <1>1, <1>4 DEF CgroupMounts, ToSet
  <2>2. LastOf(CgroupMounts("cgroup2")) \in DOMAIN mounts
    BY <2>1, ChosenMounts DEF CgroupMounts
  <2> QED BY <1>3, <2>1, <2>2, NewReaderIs
<1>5. ASSUME NEW s \in Enabled
      PROVE  /\ (\E e \in kept' : e.type = "cgroup" /\ s \in e.subsystems /\ HasPrefix(e.dir)) =>
                  reader'.v1[s] # Absent
             /\ reader'.v1[s] # Absent => HasPrefix(reader'.v1[s])
             /\ \A e \in kept' :
                  e.dir = reader'.v1[s] => \/ e.dir \in covered'
                                           \/ e.type = "cgroup" /\ s \in e.subsystems
  <2> DEFINE i == FirstOf(V1Mount(s))
  <2>1. CASE V1Mount(s) = {}
    <3>1. reader'.v1[s] = Absent
      BY <2>1, NewReaderIs
    <3>2. ~\E e \in kept' : e.type = "cgroup" /\ s \in e.subsystems /\ HasPrefix(e.dir)
      BY <1>1, <2>1 DEF V1Mount, CgroupMounts, ToSet
    <3>3. \A e \in kept' : e.dir # Absent
      BY <1>1, <1>3 DEF ToSet
    <3> QED BY <3>1, <3>2, <3>3
  <2>2. CASE V1Mount(s) # {}
    <3>1. i \in V1Mount(s)
      BY <2>2, ChosenMounts
    <3>2. /\ i \in DOMAIN mounts /\ mounts[i].type = "cgroup" /\ HasPrefix(mounts[i].dir)
          /\ s \in mounts[i].subsystems
      BY <3>1 DEF V1Mount, CgroupMounts
    <3>3. reader'.v1[s] = mounts[i].dir
      BY <2>2, NewReaderIs
    <3> HIDE DEF i
    <3>4. ASSUME NEW e \in kept', e.dir = mounts[i].dir, e # mounts[i]
          PROVE  e.dir \in covered'
      <4>1. PICK j \in DOMAIN mounts : mounts[j] = e
        BY <1>1, <3>4 DEF ToSet
      <4>2. i \in On(e.dir) /\ j \in On(e.dir) /\ i # j
        BY <3>2, <3>4, <4>1 DEF On
      <4> QED BY <1>1, <1>3, <4>1, <4>2
    <3> QED BY <1>3, <3>2, <3>3, <3>4
  <2> QED BY <2>1, <2>2
<1> QED BY <1>2, <1>4, <1>5 DEF ReaderInv

LEMMA ReaderStep == MountsTypeOK /\ ReaderInv /\ [MountsNext]_mountsVars => ReaderInv'
<1> SUFFICES ASSUME MountsTypeOK, ReaderInv, [MountsNext]_mountsVars PROVE ReaderInv'
  OBVIOUS
<1>1. ASSUME NEW e \in Mountable, MountFS(e) \/ GetUsage(e) PROVE ReaderInv'
  BY <1>1, ReaderFrame DEF MountFS, GetUsage, fs, table
<1>2. ASSUME NEW i \in DOMAIN mounts, Unmount(i) PROVE ReaderInv'
  BY <1>2, ReaderFrame DEF Unmount, fs
<1>3. ASSUME at' # "reader" PROVE ReaderInv'
  BY <1>3 DEF ReaderInv
<1>4. CASE UNCHANGED mountsVars
  BY <1>4, ReaderFrame DEF mountsVars, config
<1>5. ASSUME NEW d \in drives, GetFilesystemType(d) PROVE ReaderInv'
  BY <1>5, <1>3 DEF GetFilesystemType
<1> QED BY <1>1, <1>2, <1>3, <1>4, <1>5, ReaderMade
      DEF MountsNext, parseMounts, Publish, GetfsstatSize, Getfsstat, GetAccessPaths,
          DrivesListed, Done, ReaderDone

(* The Reader finds the controllers that stayed mounted, under hostfs if   *)
(* it is set, and where it looks for one that one is mounted, as long as   *)
(* the mount stays and none covers it.                                     *)
THEOREM ServesCorrect == MountsSpec => []MountpointServes
<1>1. ASSUME MountsTypeOK, TableInv, ReaderInv PROVE MountpointServes
  <2>1. ASSUME at = "reader", NEW s \in Enabled,
               reader.v1[s] \in {e.dir : e \in kept} \ covered
        PROVE  /\ Shown(reader.v1[s]).type = "cgroup"
               /\ s \in Shown(reader.v1[s]).subsystems
    <3>1. PICK e \in kept : e.dir = reader.v1[s] /\ e.dir \notin covered
      BY <2>1
    <3>2. Shown(e.dir) = e
      BY <1>1, <3>1, KeptShows
    <3> QED BY <1>1, <2>1, <3>1, <3>2 DEF ReaderInv
  <2> QED BY <1>1, <2>1 DEF ReaderInv, MountpointServes
<1> QED BY <1>1, MountsTypeInit, MountsTypeStep, TableInit, TableStep, ReaderInit, ReaderStep,
           PTL DEF MountsSpec
=============================================================================
