\* devices of 1 to 7 configurations, every desired mode atoi can give
CONSTANTS
  NumConfigs = {1, 2, 3, 4, 5, 6, 7}
  Interfaces <- MC_Interfaces
  Desired = {0, 1, 2, 3, 4, 5, 6}
  NoDesc = NoDesc
SPECIFICATION Spec
INVARIANT GuessMatchesSpec
