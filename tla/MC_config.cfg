\* up to 3 configurations of up to 2 interfaces; libusb_set_configuration succeeds
CONSTANTS
  MaxConfigs = 3
  Kinds <- MC_Kinds
  MaxIfaces = 2
  SetMayFail = FALSE
SPECIFICATION Spec
INVARIANT SelectionMatchesSpec
