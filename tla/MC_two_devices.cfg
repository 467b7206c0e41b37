\* two locations, hotplug libusb whose registration may fail (then the
\* devices are polled), every library call may fail, one plug event
CONSTANTS
  l1 = l1
  l2 = l2
  NoDev = NoDev
  Loc <- MC_Loc
  NUM_RX_LOOPS = 1
  Hotplug = TRUE
  LibusbMayFail = TRUE
  MaxPlugs = 1
  MaxSends = 1
  MaxInits = 1
SPECIFICATION Spec
INVARIANT TransfersTracked
INVARIANT CollaboratorHoldsOnlyListed
