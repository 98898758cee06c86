SPECIFICATION Spec
CONSTANTS
  loop0 = loop0
  loop1 = loop1
  sda = sda
  None = None
  Devices = {loop0, loop1, sda}
  Names <- NamesDef
  Lines <- LinesDef
  Size = 2
  MaxRequests = 2
  MaxChanges = 2
INVARIANT TotalWithinCall
INVARIANT StatsComplete
INVARIANT NameStoodForDevice
INVARIANT ErrorOnlyIfRemoved
