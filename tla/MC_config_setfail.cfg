\* up to 2 configurations of one interface; libusb_set_configuration may fail
CONSTANTS
  MaxConfigs = 2
  Kinds <- MC_Kinds
  MaxIfaces = 1
  SetMayFail = TRUE
SPECIFICATION Spec
INVARIANT ChosenInActiveConfig
