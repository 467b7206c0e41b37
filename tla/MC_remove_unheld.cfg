\* device_remove is called for devices that were never passed to device_add
CONSTANTS
  l1 = l1
  l2 = l2
  NoDev = NoDev
  Loc <- MC_Loc1
  NUM_RX_LOOPS = 1
  Hotplug = TRUE
  LibusbMayFail = FALSE
  MaxPlugs = 0
  MaxSends = 1
  MaxInits = 1
SPECIFICATION Spec
INVARIANT RemoveOnlyHeld
