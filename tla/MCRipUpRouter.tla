--------------------------- MODULE MCRipUpRouter ---------------------------
(***************************************************************************)
(* RipUpRouter on a square 0-1-2-3 with the diagonal 0-2 three times over, *)
(* three nets and two groups that share net n2; the second group lists n3  *)
(* twice, and n2 lists its only target twice.                              *)
(***************************************************************************)
EXTENDS RipUpRouter

CONSTANTS n1, n2, n3

MCEdgeInfo ==
  LET ends == << <<0,1>>, <<1,2>>, <<2,3>>, <<3,0>>, <<0,2>>, <<2,0>>, <<0,2>> >>
  IN  [e \in 0 .. 6 |-> ends[e + 1]]

MCTerminals == (n1 :> {0, 1}) @@ (n2 :> {0, 2}) @@ (n3 :> {1, 3, 2})

MCTargetSize == (n1 :> 1) @@ (n2 :> 2) @@ (n3 :> 2)

MCGroup == [g \in 0 .. 1 |-> IF g = 0 THEN <<n1, n2>> ELSE <<n3, n2, n3>>]
=============================================================================
