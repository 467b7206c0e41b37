----------------------------- MODULE MC_UsbPoll -----------------------------
EXTENDS UsbPoll

\* none, failure, 250 ms and 5 s from libusb_get_next_timeout
MC_LibusbTimeouts ==
  { [res |-> 0, sec |-> 0, usec |-> 0], [res |-> -1, sec |-> 0, usec |-> 0],
    [res |-> 1, sec |-> 0, usec |-> 250000], [res |-> 1, sec |-> 5, usec |-> 0] }
=============================================================================
