\* Three nets, two edges, up to three iterations, a window of two samples.
SPECIFICATION Spec
CONSTANTS
  Net = {1, 2, 3}
  Edge = {1, 2}
  Inputs <- MCInputs
  Limit = 1
  Window = 2
  MaxWeight = 2
  Scale = 2
  EvenTdm = {2, 4}
  UIntSize = 4
INVARIANTS TotalsThroughSigmas GapOfOneMultiplier WindowIsRecent StopsWithoutDominantGroup AppliedToOwner
