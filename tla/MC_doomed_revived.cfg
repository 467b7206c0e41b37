\* polling: a device doomed during another device's drain is marked alive by the next sweep
CONSTANTS
  l1 = l1
  l2 = l2
  NoDev = NoDev
  Loc <- MC_Loc
  NUM_RX_LOOPS = 1
  Hotplug = FALSE
  LibusbMayFail = FALSE
  MaxPlugs = 0
  MaxSends = 1
  MaxInits = 1
SPECIFICATION Spec
INVARIANT DoomedStaysDoomed
