SPECIFICATION Spec
CONSTANTS
  sda = sda
  usb = usb
  None = None
  Devices = {sda, usb}
  Watched = usb
  CanUnplug = {usb}
  CPUDrops = TRUE
  Width32 = 3
  Width64 = 64
  MaxWork = 2
  Steps = {1, 2}
  MaxCPU = 2
  MaxLife = 2
INVARIANT IntervalMatches
INVARIANT AllAccounted
INVARIANT RolloverWithinOne
PROPERTY ImplementsSampler
