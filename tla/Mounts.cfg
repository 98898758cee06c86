SPECIFICATION MountsSpec
CONSTANTS
  Mountable <- MountableDef
  RootFS <- RootDef
  First <- FirstDef
  Devices <- DevicesDef
  Dirs <- DirsDef
  Types <- TypesDef
  Subsystems = {"cpu", "cpuacct", "net"}
  KindOf <- KindOfDef
  LenOf <- LenOfDef
  Relative = {"net:[1]"}
  Under = {"/hostfs/cpu", "/hostfs/v2"}
  Nodev = {"tmpfs", "cgroup", "cgroup2", "nsfs"}
  Enabled = {"cpu", "cpuacct"}
  MaxChanges = 3
  Absent = Absent
INVARIANT MountsTypeOK
INVARIANT DevicesListed
INVARIANT UsageOfOwnDevice
INVARIANT MountpointServes
