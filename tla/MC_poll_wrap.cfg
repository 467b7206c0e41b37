\* usb_init at a tick count of 600 s with hotplug registered, so
\* next_dev_poll_time stays zero; then polling is enabled.  With 20-bit
\* ints the remaining time wraps once the deadline is 2^19 ms = 524 s in
\* the past, as it does with 32-bit ints after 2^31 ms (24.8 days).
CONSTANTS
  StartTimes = {600000000}
  Delays = {0, 1000000}
  Msecs = {0}
  LibusbTimeouts <- MC_LibusbTimeouts
  LibusbMayFail = FALSE
  Horizon = 602000000
  MaxFailures = 7
  IntBits = 20
SPECIFICATION Spec
INVARIANT TimeoutWithinPollDeadline
