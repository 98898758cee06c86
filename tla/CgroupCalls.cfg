SPECIFICATION Spec
CONSTANTS
  Root = Root
  slice = slice
  Groups = {Root, slice}
  V1Controllers = {"cpuacct", "memory"}
  V2Controllers <- Delegated
  Setups <- HostOrDocker
  NsPerUs = 2
  MaxUsage = 1
  MaxMade = 2
  None = None
  Dot = Dot
INVARIANTS
  AllOrNothing
  OverrideReadsAll
  SameGroupNonNegative
