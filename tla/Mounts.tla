-------------------------------- MODULE Mounts --------------------------------
(***************************************************************************)
(* The two readers of the kernel's mount table.  GetFilesystems of         *)
(* metric/system/filesystem lists the filesystems, and the caller then     *)
(* asks for the usage of each by its directory.  NewReaderOptions of       *)
(* metric/system/cgroup looks up once where the controllers are mounted,   *)
(* and the Reader uses that for ever.  Filesystems are mounted and         *)
(* unmounted between any two system calls.  The names are other than those *)
(* of CgroupReader, which works in the directories that are found here.    *)
(***************************************************************************)
EXTENDS Integers, Sequences, SequencesExt

CONSTANTS
  Mountable,  \* mounts, see Mount
  RootFS,     \* the mount of the root directory
  First,      \* the mount table to begin with
  Devices, Dirs, Types, Subsystems,
  KindOf,     \* of each device name: "block", "dir" for a path that is a
              \*   directory, as of bind mounts, "name" for one that is no path
  LenOf,      \* of each directory: the length of its path
  Relative,   \* directories without a leading "/", as of network namespaces
  Under,      \* directories whose path begins with that of hostfs
  Nodev,      \* types that /proc/filesystems marks as nodev
  Enabled,    \* subsystems that /proc/cgroups has, and not as disabled
  MaxChanges, \* bound: how often the mount table changes
  Absent      \* no directory, no device; of a drive of Windows, no type

(* A line of the table; the subsystems are the super options of a cgroup   *)
(* mount, without "name=".                                                 *)
Mount == [dev : Devices, dir : Dirs, type : Types, subsystems : SUBSET Subsystems]

ASSUME MountsAssumption ==
  /\ Mountable \subseteq Mount
  /\ RootFS \in Mountable
  /\ First \in Seq(Mountable)
  /\ IsInjective(First) /\ First # <<>> /\ First[1] = RootFS
  /\ KindOf \in [Devices -> {"block", "dir", "name"}]
  /\ LenOf \in [Dirs -> Nat]
  /\ Relative \subseteq Dirs /\ Under \subseteq Dirs \ Relative
  /\ Nodev \subseteq Types
  /\ Enabled \subseteq Subsystems
  /\ MaxChanges \in Nat
  /\ Absent \notin Dirs \cup Devices

VARIABLES
  mounts,    \* the mount table; of several mounts of a directory the last shows
  changes,   \* how often it changed
  os,        \* what the code was built for: "unix", "darwin" or "windows"
  hostfs,    \* whether an alternate root is set
  ignored,   \* the types that the filter of GetFilesystems drops
  at,        \* where the call is
  num,       \* darwin: the number of mounts that Getfsstat returned first
  drives,    \* windows: the drives that are still to be looked at
  list,      \* windows: the mounts that the filter let pass
  listed,    \* what GetFilesystems returned last
  measured,  \* of what was listed: the device whose usage it was given, or Absent
  reader,    \* Mountpoints of the cgroup Reader
  kept,      \* history: mounts that stayed since the call began
  covered    \* history: directories with a second mount since the call began

config == <<os, hostfs, ignored>>
table == <<mounts, changes, kept, covered>>
fs == <<at, num, drives, list, listed, measured>>
mountsVars == <<mounts, changes, os, hostfs, ignored, at, num, drives, list,
                listed, measured, reader, kept, covered>>

NoReader == [v1 |-> [s \in Enabled |-> Absent], v2 |-> Absent]

(* A drive of Windows stands for one volume. *)
OneVolume(l) == \A i, j \in DOMAIN l : l[i].dir = l[j].dir => i = j

MountsInit ==
  /\ mounts = First
  /\ changes = 0
  /\ os \in {"unix", "darwin", "windows"}
  /\ os = "windows" => OneVolume(First)
  /\ hostfs \in BOOLEAN /\ (os # "unix" => ~hostfs)
  /\ ignored \in {{}, Nodev}
  /\ at = "idle"
  /\ num = 0
  /\ drives = {}
  /\ list = <<>>
  /\ listed = {}
  /\ measured = [e \in Mountable |-> Absent]
  /\ reader = NoReader
  /\ kept = {}
  /\ covered = {}

-----------------------------------------------------------------------------
(* The kernel *)

On(dir) == {i \in DOMAIN mounts : mounts[i].dir = dir}

MountFS(e) ==
  /\ changes < MaxChanges
  /\ e \notin ToSet(mounts)
  /\ IF os = "windows" THEN On(e.dir) = {} ELSE e.type # Absent
  /\ mounts' = Append(mounts, e)
  /\ changes' = changes + 1
  /\ covered' = IF On(e.dir) = {} THEN covered ELSE covered \cup {e.dir}
  /\ UNCHANGED <<config, fs, reader, kept>>

(* Of the mounts of a directory, the last goes first; the root stays. *)
Unmount(i) ==
  /\ changes < MaxChanges
  /\ i \in DOMAIN mounts \ {1}
  /\ \A j \in On(mounts[i].dir) : j <= i
  /\ mounts' = RemoveAt(mounts, i)
  /\ changes' = changes + 1
  /\ kept' = kept \ {mounts[i]}
  /\ UNCHANGED <<config, fs, reader, covered>>

(* The mount that a path below dir leads to. *)
Shown(dir) == IF On(dir) = {} THEN RootFS
              ELSE mounts[CHOOSE i \in On(dir) : \A j \in On(dir) : j <= i]

-----------------------------------------------------------------------------
(* GetFilesystems *)

(* avoidFileSystem: relative directories are dropped, and so are mounts of *)
(* a directory, but not on Windows.  Getfsstat leaves unused entries zero, *)
(* whose directory is the empty string.                                    *)
IsAbs(dir) == dir \in Dirs \ Relative

IsPath(dev) == dev # Absent /\ KindOf[dev] # "name"

(* Mutant: relative directories are let pass. *)
avoidFileSystemAnywhere(e) == IsPath(e.dev) /\ os # "windows" => KindOf[e.dev] # "dir"

avoidFileSystem(e) ==
  /\ IsAbs(e.dir)
  /\ IsPath(e.dev) /\ os # "windows" => KindOf[e.dev] # "dir"

(* On Windows a drive without a type, as one without a medium, is dropped. *)
Accepts(e) ==
  /\ avoidFileSystem(e)
  /\ e.type \notin ignored
  /\ os = "windows" => e.type # Absent

(* The places of what the filter lets pass. *)
Accepted(l) == {i \in DOMAIN l : Accepts(l[i])}

(* Mutant: of the mounts of a device, the first is kept. *)
filterDuplicatesFirst(l) ==
  {l[i] : i \in {i \in Accepted(l) :
     \/ ~IsPath(l[i].dev)
     \/ \A j \in Accepted(l) : l[j].dev = l[i].dev => j >= i}}

(* Of the mounts of a device that pass, the first of those with the        *)
(* shortest directory; all mounts of what is not a path.                   *)
filterDuplicates(l) ==
  {l[i] : i \in {i \in Accepted(l) :
     \/ ~IsPath(l[i].dev)
     \/ \A j \in Accepted(l) :
          l[j].dev = l[i].dev =>
            \/ LenOf[l[j].dir] > LenOf[l[i].dir]
            \/ LenOf[l[j].dir] = LenOf[l[i].dir] /\ j >= i}}

Begin ==
  /\ at = "idle"
  /\ kept' = ToSet(mounts)
  /\ covered' = {d \in Dirs : \E i, j \in On(d) : i # j}
  /\ UNCHANGED <<mounts, changes, config>>

Publish(l) ==
  /\ listed' = filterDuplicates(l)
  /\ at' = "listed"

(* Linux and FreeBSD: the table is read at once. *)
parseMounts ==
  /\ os = "unix" /\ Begin
  /\ Publish(mounts)
  /\ UNCHANGED <<num, drives, list, measured, reader>>

(* macOS: Getfsstat says how many there are. *)
GetfsstatSize ==
  /\ os = "darwin" /\ Begin
  /\ num' = Len(mounts)
  /\ at' = "entries"
  /\ UNCHANGED <<drives, list, listed, measured, reader>>

(* Getfsstat fills that many entries, if there are still as many. *)
Zero == [dev |-> Absent, dir |-> Absent, type |-> Absent, subsystems |-> {}]
Getfsstat ==
  /\ at = "entries"
  /\ LET buf == [i \in 1..num |-> IF i \in DOMAIN mounts THEN mounts[i] ELSE Zero]
     IN Publish(buf)
  /\ UNCHANGED <<table, config, num, drives, list, measured, reader>>

(* Windows: GetAccessPaths lists the drives. *)
GetAccessPaths ==
  /\ os = "windows" /\ Begin
  /\ drives' = {e.dir : e \in ToSet(mounts)}
  /\ at' = "drives"
  /\ UNCHANGED <<num, list, listed, measured, reader>>

(* A drive is its own device.  One that is gone fails the call. *)
GetFilesystemType(d) ==
  /\ at = "drives" /\ d \in drives
  /\ LET e == Shown(d) IN
       \/ /\ e.dir = d
          /\ list' = (IF Accepts(e) THEN Append(list, e) ELSE list)
          /\ drives' = drives \ {d}
          /\ UNCHANGED at
       \/ e.dir # d /\ at' = "idle" /\ list' = <<>> /\ drives' = {}
  /\ UNCHANGED <<table, config, num, listed, measured, reader>>

(* filterDuplicates changes nothing, since each drive was listed once. *)
DrivesListed ==
  /\ at = "drives" /\ drives = {}
  /\ at' = "listed"
  /\ listed' = ToSet(list)
  /\ list' = <<>>
  /\ UNCHANGED <<table, config, num, drives, measured, reader>>

(* Mutant: the device is asked, and answers for what contains its file. *)
GetUsageOfDevice(e) ==
  /\ at = "listed" /\ e \in listed
  /\ measured[e] = Absent
  /\ measured' = [measured EXCEPT ![e] = RootFS.dev]
  /\ UNCHANGED <<table, config, at, num, drives, list, listed, reader>>

(* Statfs of the directory, whatever is mounted there by now. *)
GetUsage(e) ==
  /\ at = "listed" /\ e \in listed
  /\ measured[e] = Absent
  /\ os = "windows" => On(e.dir) # {}
  /\ measured' = [measured EXCEPT ![e] = Shown(e.dir).dev]
  /\ UNCHANGED <<table, config, at, num, drives, list, listed, reader>>

(* The caller is done with the list, which is forgotten. *)
Done ==
  /\ at = "listed"
  /\ at' = "idle"
  /\ num' = 0 /\ listed' = {} /\ measured' = [e \in Mountable |-> Absent]
  /\ kept' = {} /\ covered' = {}
  /\ UNCHANGED <<mounts, changes, config, drives, list, reader>>

-----------------------------------------------------------------------------
(* NewReaderOptions *)

HasPrefix(dir) == IF hostfs THEN dir \in Under ELSE IsAbs(dir)

(* Mutant: what is mounted elsewhere than under hostfs counts as well. *)
CgroupMountsAnywhere(type) == {i \in DOMAIN mounts : mounts[i].type = type}

CgroupMounts(type) == {i \in DOMAIN mounts : mounts[i].type = type /\ HasPrefix(mounts[i].dir)}

(* Mutant: every controller has the directory of the first mount. *)
V1MountOfAny(s) == CgroupMounts("cgroup")

(* The cgroup mounts that have the subsystem among their options. *)
V1Mount(s) == {i \in CgroupMounts("cgroup") : s \in mounts[i].subsystems}

(* SubsystemMountpoints: of the mounts of a V1 subsystem the first, of V2  *)
(* the last.                                                               *)
NewReader ==
  /\ os = "unix" /\ Begin
  /\ reader' =
       [v1 |-> [s \in Enabled |->
                  IF V1Mount(s) = {} THEN Absent
                  ELSE mounts[CHOOSE i \in V1Mount(s) : \A j \in V1Mount(s) : i <= j].dir],
        v2 |-> IF CgroupMounts("cgroup2") = {} THEN Absent
               ELSE mounts[CHOOSE i \in CgroupMounts("cgroup2") :
                             \A j \in CgroupMounts("cgroup2") : j <= i].dir]
  /\ at' = "reader"
  /\ UNCHANGED <<num, drives, list, listed, measured>>

(* The reader goes on with the directories it has, until it is dropped. *)
ReaderDone ==
  /\ at = "reader"
  /\ at' = "idle"
  /\ reader' = NoReader
  /\ kept' = {} /\ covered' = {}
  /\ UNCHANGED <<mounts, changes, config, num, drives, list, listed, measured>>

MountsNext ==
  \/ \E e \in Mountable : MountFS(e) \/ GetUsage(e)
  \/ \E i \in DOMAIN mounts : Unmount(i)
  \/ parseMounts
  \/ GetfsstatSize
  \/ Getfsstat
  \/ GetAccessPaths
  \/ \E d \in drives : GetFilesystemType(d)
  \/ DrivesListed
  \/ Done
  \/ NewReader
  \/ ReaderDone

MountsSpec == MountsInit /\ [][MountsNext]_mountsVars

-----------------------------------------------------------------------------
(* Properties *)

(* The type of every variable. *)
MountsTypeOK ==
  /\ mounts \in Seq(Mountable)
  /\ changes \in 0..MaxChanges
  /\ os \in {"unix", "darwin", "windows"}
  /\ hostfs \in BOOLEAN
  /\ ignored \subseteq Types
  /\ at \in {"idle", "entries", "drives", "listed", "reader"}
  /\ num \in Nat
  /\ drives \subseteq Dirs
  /\ list \in Seq(Mountable)
  /\ listed \subseteq Mountable
  /\ measured \in [Mountable -> Devices \cup {Absent}]
  /\ reader \in [v1 : [Enabled -> Dirs \cup {Absent}], v2 : Dirs \cup {Absent}]
  /\ kept \subseteq Mountable
  /\ covered \subseteq Dirs

(* GetFilesystems misses no device: if one was mounted all the time where  *)
(* the filter lets it pass, it is listed, and with a directory that is no  *)
(* longer, although macOS counts the mounts before it reads them.  And a   *)
(* device that is a path is listed once, but not on Windows, where the     *)
(* drives are told apart.                                                  *)
DevicesListed ==
  at = "listed" =>
    /\ \A e \in kept : Accepts(e) =>
         \E f \in listed : f.dev = e.dev /\ LenOf[f.dir] <= LenOf[e.dir]
    /\ os # "windows" =>
         \A e, f \in listed : e.dev = f.dev /\ e # f => KindOf[e.dev] = "name"

(* The usage under a mount is that of its own device, if it stayed mounted *)
(* and no other mount covered it: nothing of the list is used for another  *)
(* entry.                                                                  *)
UsageOfOwnDevice ==
  at = "listed" =>
    \A e \in listed \cap kept :
      measured[e] # Absent /\ e.dir \notin covered => measured[e] = e.dev

(* Where the Reader looks for a controller, that controller is mounted, if *)
(* the directory was not covered and the mount stayed; an enabled          *)
(* controller that was mounted all the time under hostfs is found, and so   *)
(* is the V2 hierarchy.                                                    *)
MountpointServes ==
  at = "reader" =>
    /\ (\E e \in kept : e.type = "cgroup2" /\ HasPrefix(e.dir)) => reader.v2 # Absent
    /\ \A s \in Enabled :
      /\ (\E e \in kept : e.type = "cgroup" /\ s \in e.subsystems /\ HasPrefix(e.dir)) =>
           reader.v1[s] # Absent
      /\ reader.v1[s] # Absent => HasPrefix(reader.v1[s])
      /\ reader.v1[s] \in {e.dir : e \in kept} \ covered =>
           Shown(reader.v1[s]).type = "cgroup" /\ s \in Shown(reader.v1[s]).subsystems
=============================================================================
