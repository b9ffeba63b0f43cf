\* Three nets, numbers of one and two digits, integers of five bits.
SPECIFICATION Spec
CONSTANTS
  NetNum = 3
  EdgeNum = 11
  Trees <- MCTrees
  TdmOf <- MCTdm
  Width = 5
INVARIANTS CompleteNetsSurvive OnlyCutFilesMisread
