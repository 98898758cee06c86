------------------------------- MODULE MCMounts -------------------------------
(* Mounts for TLC: a disk that is mounted in three places, one of which is *)
(* mounted over; a bind mount, a network namespace, tmpfs, cgroup mounts   *)
(* on the host and under hostfs, and a drive without a type.               *)
EXTENDS Mounts

Of(dev, dir, type, subsystems) ==
  [dev |-> dev, dir |-> dir, type |-> type, subsystems |-> subsystems]

RootDef == Of("sda", "/", "ext4", {})
Data == Of("sdb", "/data", "ext4", {})
Cpu == Of("cgroup", "/cg/cpu", "cgroup", {"cpu", "cpuacct"})
Net == Of("nsfs", "net:[1]", "nsfs", {})

FirstDef == <<RootDef, Data, Cpu, Net>>
MountableDef ==
  {RootDef, Data, Cpu, Net,
   Of("sdb", "/d", "ext4", {}), Of("sdb", "/e", "ext4", {}), Of("sdc", "/data", "ext4", {}),
   Of("sdd", "/e", Absent, {}),
   Of("/home", "/e", "ext4", {}), Of("tmpfs", "/d", "tmpfs", {}),
   Of("cgroup", "/hostfs/cpu", "cgroup", {"cpu", "net"}), Of("cgroup", "/hostfs/v2", "cgroup2", {})}
DevicesDef == {e.dev : e \in MountableDef}
DirsDef == {e.dir : e \in MountableDef}
TypesDef == {e.type : e \in MountableDef}
KindOfDef == [d \in DevicesDef |->
  CASE d \in {"sda", "sdb", "sdc", "sdd"} -> "block" [] d = "/home" -> "dir" [] OTHER -> "name"]
LenOfDef == [d \in DirsDef |->
  CASE d = "/" -> 1 [] d \in {"/d", "/e"} -> 2 [] OTHER -> 5]
=============================================================================
