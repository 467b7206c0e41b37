\* the ZLP submission fails after the data transfer was accepted
CONSTANTS
  Lengths = {2}
  wMaxPacketSize = 2
  MaxSends = 3
  MainMayFail = FALSE
  ZlpMayFail = TRUE
SPECIFICATION Spec
INVARIANT SingleOwner
