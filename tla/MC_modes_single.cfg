\* single-configuration devices under the default desired mode
CONSTANTS
  NumConfigs = {1, 4}
  Interfaces <- MC_Interfaces
  Desired = {0, 1, 2, 3, 4, 5, 6}
  NoDesc = NoDesc
SPECIFICATION Spec
INVARIANT SingleConfigNotSwitched
