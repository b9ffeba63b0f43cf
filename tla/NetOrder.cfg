\* Four nets, three groups with up to four mentions, two lanes.
SPECIFICATION Spec
CONSTANTS
  n1 = n1
  n2 = n2
  n3 = n3
  n4 = n4
  Net = {n1, n2, n3, n4}
  NoNet = NoNet
  GroupNum = 3
  Groups <- MCGroups
  MstCost <- MCMstCost
  NumThread = 2
INVARIANTS DealtOnce LanesRectangular CheapFirst
