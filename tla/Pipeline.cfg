\* Eight inputs, 38 command lines, two runs in a row.
SPECIFICATION Spec
CONSTANTS
  NetNum = 2
  Edge = {1, 2}
  Inputs <- MCInputs
  CommandLines <- MCCommandLines
  Listings <- MCListings
  Ratios = {2, 4}
  MaxRuns = 2
INVARIANTS StopsOutsidePreconditions ReadsBackTrees ReportMatchesFile EveryLinePriced
