\* hotplug libusb (registration may fail), one location, one plug event:
\* a detached device's record goes away while departures are watched
CONSTANTS
  l1 = l1
  l2 = l2
  NoDev = NoDev
  Loc <- MC_Loc1
  NUM_RX_LOOPS = 1
  Hotplug = TRUE
  LibusbMayFail = TRUE
  MaxPlugs = 1
  MaxSends = 1
  MaxInits = 1
SPECIFICATION FairSpec
PROPERTY DetachedEventuallyRemoved
