\* string descriptors of up to 10 bytes built from 6 kinds of unit
\* ('A', 'B', high-bit low byte, non-zero high byte, <<0,1>>, NUL), received
\* whole; a serial[] of 6 bytes, which like usb.c's 256 holds every
\* descriptor's units; the hyphen after the first character of a
\* 2-character serial
CONSTANTS
  Pair <- MC_Units
  MaxLen = 10
  Actuals = {11}
  LangidLens = {0}
  SERIAL_SIZE = 6
  UDID_LEN = 2
  HYPHEN_POS = 1
SPECIFICATION Spec
INVARIANT SerialMatchesSpec
