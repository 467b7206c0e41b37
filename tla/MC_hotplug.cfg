\* hotplug libusb, one location, every library call may fail
CONSTANTS
  l1 = l1
  l2 = l2
  NoDev = NoDev
  Loc <- MC_Loc1
  NUM_RX_LOOPS = 2
  Hotplug = TRUE
  LibusbMayFail = TRUE
  MaxPlugs = 2
  MaxSends = 1
  MaxInits = 2
SPECIFICATION Spec
INVARIANT TypeOK
INVARIANT TransfersTracked
INVARIANT CollaboratorHoldsOnlyListed
