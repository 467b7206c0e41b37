\* usb_init at 1 s or 1.0005 s, waits of 0, 999.5 ms and 1 s, up
\* to 7 s; libusb may fail; 32-bit-like ints never wrap within 7 s
CONSTANTS
  StartTimes = {1000000, 1000500}
  Delays = {0, 999500, 1000000}
  Msecs = {0, 1, 1001}
  LibusbTimeouts <- MC_LibusbTimeouts
  LibusbMayFail = TRUE
  Horizon = 7000000
  MaxFailures = 7
  IntBits = 20
SPECIFICATION Spec
INVARIANT TimeoutWithinPollDeadline
INVARIANT ProcessTimeoutHonoursDeadline
