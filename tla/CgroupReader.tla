----------------------------- MODULE CgroupReader -----------------------------
(***************************************************************************)
(* metric/system/cgroup.Reader: GetStatsForPid of one process, again and   *)
(* again, and what FillPercentages compares with the call before.  A call  *)
(* reads /proc/[pid]/cgroup twice and then the files of the groups named   *)
(* there, while the process is moved between groups and empty groups are   *)
(* removed and made anew under the same path.                              *)
(***************************************************************************)
EXTENDS Integers, FiniteSets

CONSTANTS
  Groups,         \* cgroup paths
  Root,           \* the path "/"
  V1Controllers,  \* the V1 hierarchies: of "cpu", "cpuacct" and "memory"
  V2Controllers,  \* of each V2 group: what its cgroup.controllers lists
  Setups,         \* the setups of a Reader and its host, see Setup
  NsPerUs,        \* nanoseconds in a microsecond
  MaxUsage,       \* bound: CPU time of a group, in microseconds
  MaxMade,        \* bound: how often a group whose usage is kept is made
  None,           \* no group, or an empty string
  Dot             \* the string "."

(* ReaderOptions.IgnoreRootCgroups and CgroupsHierarchyOverride; where the *)
(* V2 hierarchy is found, or "none" if it is not or no process has a line  *)
(* for it; whether the kernel has *.pressure files.                        *)
Setup == [ignoreRoot : BOOLEAN, override : Groups \cup {None},
          v2Loc : {"mounted", "hostfs", "none"}, pressure : BOOLEAN]

ASSUME CgroupAssumption ==
  /\ Root \in Groups
  /\ V1Controllers \subseteq {"cpu", "cpuacct", "memory"}
  /\ V2Controllers \in [Groups -> SUBSET {"cpu", "memory"}]
  /\ Setups \subseteq Setup
  /\ NsPerUs \in Nat \ {0} /\ MaxUsage \in Nat /\ MaxMade \in Nat \ {0}
  /\ None \notin Groups /\ Dot \notin Groups \cup {None}

VARIABLES
  exists,  \* of each hierarchy: the groups that have a directory
  home,    \* of each hierarchy: the group of the process
  usage,   \* of the V1 and V2 groups: their CPU time, in microseconds
  made,    \* history: how often each of them has been made
  setup,   \* the Reader's setup
  pc,      \* where GetStatsForPid is
  version, \* what CgroupsVersion returned
  line2,   \* the path on the "0::/" line, as last read
  paths,   \* PathList.V1 or PathList.V2: the group of each controller
  todo,    \* the controllers that are still to be read
  stats,   \* the StatsV1 or StatsV2 that the call builds
  last     \* what the call before returned, or None

Hierarchies == V1Controllers \cup {"unified"}

world == <<exists, home, usage, made, setup>>
call == <<setup, pc, version, line2, paths, todo, stats, last>>
vars == <<exists, home, usage, made, setup, pc, version, line2, paths, todo, stats,
          last>>

(* Path and ID; the controllers whose Get succeeded; NS of the CPU usage   *)
(* and the group it is of; history: which of the groups that had this path *)
(* one after another it is of, none if its files were missing.             *)
NoStats == [path |-> None, id |-> None, got |-> {}, ns |-> 0, from |-> None,
            life |-> 0]
NoPaths == [con \in {} |-> Root]

Init ==
  /\ exists = [h \in Hierarchies |-> Groups]
  /\ home \in [Hierarchies -> Groups]
  /\ usage = [v \in {"V1", "V2"} |-> [g \in Groups |-> 0]]
  /\ made = [v \in {"V1", "V2"} |-> [g \in Groups |-> 1]]
  /\ setup \in Setups
  /\ pc = "idle"
  /\ version = "V1"
  /\ line2 = Root
  /\ paths = NoPaths
  /\ todo = {}
  /\ stats = NoStats
  /\ last = None

-----------------------------------------------------------------------------
(* The kernel. *)

(* The hierarchy whose groups have the usage. *)
UsageHierarchy(v) == IF v = "V1" THEN "cpuacct" ELSE "unified"

Run(v, g) ==
  /\ UsageHierarchy(v) \in Hierarchies /\ g \in exists[UsageHierarchy(v)]
  /\ usage[v][g] < MaxUsage
  /\ usage' = [usage EXCEPT ![v][g] = @ + 1]
  /\ UNCHANGED <<exists, home, made, call>>

(* The process is moved, in one hierarchy, during a call or between two. *)
Move(h, g) ==
  /\ g \in exists[h]
  /\ home' = [home EXCEPT ![h] = g]
  /\ UNCHANGED <<exists, usage, made, call>>

(* A group that is empty can be removed. *)
RemoveGroup(h, g) ==
  /\ g \in exists[h] \ {Root, home[h]}
  /\ exists' = [exists EXCEPT ![h] = @ \ {g}]
  /\ UNCHANGED <<home, usage, made, call>>

(* One that is made where one was removed has used nothing. *)
CreateGroup(h, g) ==
  /\ g \notin exists[h]
  /\ \A v \in {"V1", "V2"} : h = UsageHierarchy(v) => made[v][g] < MaxMade
  /\ exists' = [exists EXCEPT ![h] = @ \cup {g}]
  /\ usage' = [v \in {"V1", "V2"} |->
                 IF h = UsageHierarchy(v) THEN [usage[v] EXCEPT ![g] = 0] ELSE usage[v]]
  /\ made' = [v \in {"V1", "V2"} |->
                IF h = UsageHierarchy(v) THEN [made[v] EXCEPT ![g] = @ + 1] ELSE made[v]]
  /\ UNCHANGED <<home, call>>

-----------------------------------------------------------------------------
(* CgroupsVersion, first read: V2 if there is nothing but the V2 line, V1  *)
(* if there is none or its hierarchy is not mounted.                       *)
ReadVersion ==
  /\ pc = "idle"
  /\ line2' = home["unified"]
  /\ version' = IF V1Controllers = {} THEN "V2" ELSE "V1"
  /\ pc' = IF V1Controllers # {} /\ setup.v2Loc = "mounted"
             THEN "controllers" ELSE "paths"
  /\ UNCHANGED <<world, paths, todo, stats, last>>

(* CgroupsVersion with both: V2 if its group has any controllers. *)
ReadControllerList ==
  /\ pc = "controllers"
  /\ line2 \in exists["unified"]
  /\ version' = IF V2Controllers[line2] # {} THEN "V2" ELSE "V1"
  /\ pc' = "paths"
  /\ UNCHANGED <<world, line2, paths, todo, stats, last>>

(* The override replaces every path. *)
Overridden(g) == IF setup.override = None THEN g ELSE setup.override

(* Mutant: the override does not count. *)
IgnoredWhateverOverride(g) == setup.ignoreRoot /\ g = Root

(* GetV1StatsForProcess, GetV2StatsForProcess: root groups are skipped. *)
Ignored(g) == setup.ignoreRoot /\ g = Root /\ setup.override # Root

(* getCommonCgroupMetadata; filepath.Base("") is ".". *)
CommonMetadata(ps) ==
  LET shared == {ps[con] : con \in DOMAIN ps}
                  \ (IF version = "V1" /\ setup.ignoreRoot THEN {Root} ELSE {})
  IN IF shared = {} THEN [NoStats EXCEPT !.id = Dot]
     ELSE IF Cardinality(shared) > 1 THEN NoStats
     ELSE LET g == CHOOSE g \in shared : TRUE
          IN [NoStats EXCEPT !.path = g, !.id = g]

EnterStats(ps) ==
  /\ pc' = "stats"
  /\ paths' = ps
  /\ todo' = {con \in DOMAIN ps : ~Ignored(ps[con])}
  /\ stats' = CommonMetadata(ps)

(* ProcessCgroupPaths: the V1 lines, and the path on the V2 line, whose    *)
(* directory is listed next whichever version is asked for.                *)
ReadPaths ==
  /\ pc = "paths"
  /\ line2' = Overridden(home["unified"])
  /\ LET ps == IF version = "V1"
               THEN [con \in V1Controllers |-> Overridden(home[con])]
               ELSE NoPaths
     IN IF setup.v2Loc # "none"
        THEN pc' = "dir" /\ paths' = ps /\ UNCHANGED <<todo, stats>>
        ELSE EnterStats(ps)
  /\ UNCHANGED <<world, version, last>>

(* The V2 controllers are the *.stat files; every group has a cpu.stat. *)
StatFiles(g) == {"cpu"} \cup V2Controllers[g]

ReadDir ==
  /\ pc = "dir"
  /\ line2 \in exists["unified"]
  /\ EnterStats(IF version = "V2" THEN [con \in StatFiles(line2) |-> line2]
                                  ELSE paths)
  /\ UNCHANGED <<world, version, line2, last>>

-----------------------------------------------------------------------------
(* The controller whose Get reads the CPU usage. *)
UsageController == IF version = "V1" THEN "cpuacct" ELSE "cpu"

(* The group of a controller still has its files. *)
Present(con) ==
  paths[con] \in exists[IF version = "V1" THEN con ELSE "unified"]

(* CPUAccountingSubsystem.Get: cpuacct.usage has nanoseconds. *)
UsageV1(us) == NsPerUs * us

(* CPUSubsystem.Get: without cpu.pressure, cpu.stat is not read; it has    *)
(* microseconds.                                                           *)
UsageV2(us) == IF setup.pressure THEN us ELSE 0

(* A missing file is no error in either and leaves zeros. *)
ReadUsage(con) ==
  LET us == IF Present(con) THEN usage[version][paths[con]] ELSE 0
  IN [stats EXCEPT !.ns = IF version = "V1" THEN UsageV1(us) ELSE UsageV2(us),
                   !.from = paths[con],
                   !.life = IF Present(con) THEN made[version][paths[con]] ELSE 0]

(* MemorySubsystem.Get of V2 needs memory.stat; the others need no file. *)
Readable(con) == Present(con) \/ version = "V1" \/ con # "memory"

(* Mutant: a controller that cannot be read is left out. *)
ReadControllerSkipping(con) ==
  /\ pc = "stats"
  /\ todo' = todo \ {con}
  /\ LET read == IF con = UsageController THEN ReadUsage(con) ELSE stats
     IN stats' = IF Readable(con) THEN [read EXCEPT !.got = @ \cup {con}]
                                  ELSE stats
  /\ UNCHANGED <<world, pc, version, line2, paths, last>>

(* getStatsV1, getStatsV2. *)
ReadController(con) ==
  /\ pc = "stats"
  /\ Readable(con)
  /\ todo' = todo \ {con}
  /\ LET read == IF con = UsageController THEN ReadUsage(con) ELSE stats
     IN stats' = [read EXCEPT !.got = @ \cup {con}]
  /\ UNCHANGED <<world, pc, version, line2, paths, last>>

(* The call returns and the caller keeps kept for the next. *)
Return(kept) ==
  /\ pc' = "idle"
  /\ version' = "V1"
  /\ line2' = Root
  /\ paths' = NoPaths
  /\ todo' = {}
  /\ stats' = NoStats
  /\ last' = kept
  /\ UNCHANGED world

(* Any error is the call's: /proc/[pid]/cgroup cannot be read, the V2      *)
(* group is gone, or the group of a controller is, which any file that was *)
(* opened before reports when it is read.  Stats.Get then forgets the pid, *)
(* while Stats.GetSelf and GetOne keep what they have.                     *)
Fail ==
  /\ \/ pc = "paths"
     \/ pc \in {"controllers", "dir"} /\ line2 \notin exists["unified"]
     \/ pc = "stats" /\ \E con \in todo : ~Present(con)
  /\ \E kept \in {last, None} : Return(kept)

Finish ==
  /\ pc = "stats"
  /\ todo = {}
  /\ Return([version |-> version, got |-> stats.got, ns |-> stats.ns,
             from |-> stats.from, life |-> stats.life])

Next ==
  \/ \E v \in {"V1", "V2"}, g \in Groups : Run(v, g)
  \/ \E h \in Hierarchies, g \in Groups :
       Move(h, g) \/ RemoveGroup(h, g) \/ CreateGroup(h, g)
  \/ ReadVersion
  \/ ReadControllerList
  \/ ReadPaths
  \/ ReadDir
  \/ \E con \in todo : ReadController(con)
  \/ Fail
  \/ Finish

Spec == Init /\ [][Next]_vars

-----------------------------------------------------------------------------
(* Properties *)

(* The stats that the call is about to return. *)
Finished == pc = "stats" /\ todo = {}

(* Mutant: the previous stats may be of the other version. *)
HasPrevOfAnyVersion ==
  Finished /\ last # None /\ UsageController \in stats.got
    /\ {"cpu", "cpuacct"} \cap last.got # {}

(* FillPercentages: there is something of the same version to compare with. *)
HasPrev ==
  /\ Finished
  /\ last # None
  /\ last.version = version
  /\ UsageController \in stats.got \cap last.got

(* Every variable has its type. *)
TypeOK ==
  /\ exists \in [Hierarchies -> SUBSET Groups]
  /\ home \in [Hierarchies -> Groups]
  /\ usage \in [{"V1", "V2"} -> [Groups -> 0 .. MaxUsage]]
  /\ made \in [{"V1", "V2"} -> [Groups -> 1 .. MaxMade]]
  /\ setup \in Setups
  /\ pc \in {"idle", "controllers", "paths", "dir", "stats"}
  /\ version \in {"V1", "V2"}
  /\ line2 \in Groups
  /\ DOMAIN paths \subseteq {"cpu", "cpuacct", "memory"}
  /\ \A con \in DOMAIN paths : paths[con] \in Groups
  /\ todo \subseteq DOMAIN paths
  /\ stats \in [path : Groups \cup {None}, id : Groups \cup {None, Dot},
                got : SUBSET DOMAIN paths, ns : 0 .. NsPerUs * MaxUsage,
                from : Groups \cup {None}, life : 0 .. MaxMade]
  /\ last # None =>
       last \in [version : {"V1", "V2"}, got : SUBSET {"cpu", "cpuacct", "memory"},
                 ns : 0 .. NsPerUs * MaxUsage, from : Groups \cup {None},
                 life : 0 .. MaxMade]

(* GetStatsForPid returns an error or the stats of every controller that   *)
(* is not ignored: one whose group is removed under the reader is never    *)
(* just missing from the stats.                                            *)
AllOrNothing ==
  Finished => stats.got = {con \in DOMAIN paths : ~Ignored(paths[con])}

(* CgroupsHierarchyOverride "should be set to / when running within a      *)
(* Docker container": every controller is then read, though each is in the *)
(* root group and root groups are ignored.                                 *)
OverrideReadsAll ==
  Finished /\ setup.override = Root =>
    stats.got = IF version = "V1" THEN V1Controllers ELSE StatFiles(Root)

(* The usage that FillPercentages takes the difference of does not go back *)
(* if it is of the group that the call before read, whatever was moved,    *)
(* removed and made anew during the two calls and between them: the two    *)
(* are of one version, so in one unit, and a zero that stands for a        *)
(* missing file is of no group.  Of one that was made anew under the same  *)
(* path it may go back: FillPercentages cannot tell the two apart.         *)
SameGroupNonNegative ==
  HasPrev /\ stats.from = last.from /\ stats.life = last.life =>
    stats.ns >= last.ns
=============================================================================
