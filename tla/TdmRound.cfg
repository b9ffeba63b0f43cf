\* One edge with up to four trees, shares 1 to 3, three group levels of which
\* two are within the 0.0023 of each other.
SPECIFICATION Spec
CONSTANTS
  MaxShare = 3
  MaxSize = 4
  Prio = {500, 999, 1000}
  MaxTdm = 12
  Scale = 120
INVARIANTS RatioConstraint
PROPERTIES OnlyLeaderRises LowPriorityLast EventuallyDone
