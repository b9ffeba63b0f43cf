--------------------------- MODULE MCGroupRouter ---------------------------
(***************************************************************************)
(* Small instances of GroupRouter for TLC: up to six nets and three       *)
(* edges, every net with two ways to go.                                   *)
(***************************************************************************)
EXTENDS GroupRouter, FiniteSetsExt, TLC

CONSTANTS n1, n2, n3, n4, n5, n6, e1, e2, e3

\* _netOrder without its final -1, dealt round-robin to the lanes and padded
\* with NoNet to full rows (getParallelNetOrder).
Deal(order) ==
  [t \in Thread |-> [r \in Row |->
     LET k == r * NumThread + t + 1
     IN  IF k \in DOMAIN order THEN order[k] ELSE NoNet]]

DealFour == Deal(<<n1, n2, n3, n4>>)
DealSix  == Deal(<<n1, n2, n3, n4, n5, n6>>)

\* The candidates share edges, so that what one batch routes moves the next.
FirstWay(n)  == IF n \in {n1, n3, n5} THEN {e1} ELSE {e1, e2} \cap Edge
SecondWay(n) == IF n = n1 THEN {e2} ELSE {e2, e3} \cap Edge

\* The cheaper of the two ways at costs c, the first one when they tie.
CostOf(c, way) == MapThenSumSet(LAMBDA e : c[e], way)
MCRouteOf ==
  [n \in Net |-> [c \in [Edge -> Cost] |->
     IF CostOf(c, FirstWay(n)) <= CostOf(c, SecondWay(n))
       THEN FirstWay(n) ELSE SecondWay(n)]]
=============================================================================
