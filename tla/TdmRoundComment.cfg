\* The comment at LR.cpp:295 against the code: the loop returns when the first
\* net stands at 2, while others on the edge could still be lowered.
SPECIFICATION Spec
CONSTANTS
  MaxShare = 3
  MaxSize = 4
  Prio = {500, 999, 1000}
  MaxTdm = 12
  Scale = 120
PROPERTIES ReturnMeansNoSpace
