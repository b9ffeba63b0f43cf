\* All 1024 graphs on five FPGAs, nets of two to four terminals.
SPECIFICATION Spec
CONSTANTS
  FpgaNum = 5
  Graphs <- MCGraphs
  Nets <- MCNets
INVARIANTS RowExact CutComplete MinimumCost WalkCoversNet
