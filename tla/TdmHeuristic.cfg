\* Two edges, four nets with every choice of trees, two ways to form five
\* groups.
SPECIFICATION Spec
CONSTANTS
  NetNum = 4
  Edge = {e1, e2}
  GroupNum = 5
  MaxTdm = 12
  Scale = 120
  Inputs <- MCInputs
INVARIANTS RatioConstraint LowersOneHeavyNet StopsAtLeader
PROPERTIES EventuallyDone
