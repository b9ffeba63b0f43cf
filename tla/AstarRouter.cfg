\* Five FPGAs, eight edges, edge costs 1 to 3, four terminal sequences.
SPECIFICATION Spec
CONSTANTS
  FpgaNum = 5
  EdgeInfo <- MCEdgeInfo
  MaxCost = 3
  Costs <- MCCosts
  Terminals <- MCTerminals
INVARIANTS VisitedIsTree
PROPERTIES StaleEntriesHarmless EventuallyDone AttachesCheapest
