\* Four FPGAs, seven edges of which three are parallel, three nets in two overlapping groups, two rounds.
SPECIFICATION Spec
CONSTANTS
  n1 = n1
  n2 = n2
  n3 = n3
  FpgaNum = 4
  EdgeInfo <- MCEdgeInfo
  Net = {n1, n2, n3}
  TerminalsOf <- MCTerminals
  TargetSize <- MCTargetSize
  Group <- MCGroup
  RipUpCount = 2
INVARIANTS TablesAgree WeightsFollowTable
PROPERTIES OthersUntouched
