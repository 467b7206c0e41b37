\* a zero-length write
CONSTANTS
  Lengths = {0, 1}
  wMaxPacketSize = 2
  MaxSends = 3
  MainMayFail = FALSE
  ZlpMayFail = FALSE
SPECIFICATION Spec
INVARIANT FramingOnWire
