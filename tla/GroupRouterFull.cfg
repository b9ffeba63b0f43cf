\* A full team of three threads, six nets: two full rows, and the
\* all-padding row that the final -1 of _netOrder adds when P divides n.
SPECIFICATION FairSpec
CONSTANTS
  n1 = n1
  n2 = n2
  n3 = n3
  n4 = n4
  n5 = n5
  n6 = n6
  e1 = e1
  e2 = e2
  e3 = e3
  Net = {n1, n2, n3, n4, n5, n6}
  Edge = {e1, e2, e3}
  NoNet = NoNet
  NumThread = 3
  TeamSize = 3
  Rows = 3
  Lanes <- DealSix
  RouteOf <- MCRouteOf
INVARIANTS CostAccounting SnapshotStable CommitExclusive CostMatchesPassing
PROPERTIES RoutesInBatches
