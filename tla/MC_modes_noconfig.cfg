\* a device descriptor with no configurations
CONSTANTS
  NumConfigs = {0}
  Interfaces <- MC_Interfaces
  Desired = {0, 1, 2, 3, 4, 5, 6}
  NoDesc = NoDesc
SPECIFICATION Spec
INVARIANT GuessMatchesSpec
