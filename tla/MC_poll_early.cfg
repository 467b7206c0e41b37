\* usb_init at 1.0005 s: the deadline is 2.0005 s; waits of 0, 999.5 ms
\* and 1 s; reliable libusb
CONSTANTS
  StartTimes = {1000500}
  Delays = {0, 999500, 1000000}
  Msecs = {0}
  LibusbTimeouts <- MC_LibusbTimeouts
  LibusbMayFail = FALSE
  Horizon = 3000000
  MaxFailures = 7
  IntBits = 20
SPECIFICATION Spec
INVARIANT NoEarlyDiscovery
