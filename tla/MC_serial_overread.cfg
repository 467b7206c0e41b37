\* short and odd descriptors: bytes past actual_length are stale
CONSTANTS
  Pair <- MC_AnyPair
  MaxLen = 5
  Actuals = {2, 3, 4, 5, 6}
  LangidLens = {4, 6}
  SERIAL_SIZE = 4
  UDID_LEN = 2
  HYPHEN_POS = 1
SPECIFICATION Spec
INVARIANT SerialFromReceivedBytes
