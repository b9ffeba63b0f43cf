\* The runtime delivers two of the three threads asked for: lane 2 is never
\* walked, and everything but the service of that lane must still hold.
SPECIFICATION FairSpec
CONSTANTS
  n1 = n1
  n2 = n2
  n3 = n3
  n4 = n4
  n5 = n5
  n6 = n6
  e1 = e1
  e2 = e2
  e3 = e3
  Net = {n1, n2, n3, n4}
  Edge = {e1, e2}
  NoNet = NoNet
  NumThread = 3
  TeamSize = 2
  Rows = 2
  Lanes <- DealFour
  RouteOf <- MCRouteOf
INVARIANTS IInv
PROPERTIES EventuallyRouted
