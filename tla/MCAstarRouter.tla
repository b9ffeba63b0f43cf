--------------------------- MODULE MCAstarRouter ---------------------------
(***************************************************************************)
(* AstarRouter on five FPGAs with a parallel edge (1 and 6 both join 0-2): *)
(*                                                                         *)
(*      0 --- 1 --- 4            edges 0: 0-1   1: 0-2   2: 0-3            *)
(*      |\    |    /                   3: 1-2   4: 2-3   5: 1-4            *)
(*      | 3 - 2 --+                    6: 0-2   7: 2-4                     *)
(***************************************************************************)
EXTENDS AstarRouter

MCEdgeInfo ==
  LET ends == << <<0,1>>, <<0,2>>, <<0,3>>, <<1,2>>, <<2,3>>, <<1,4>>, <<2,0>>, <<2,4>> >>
  IN  [e \in 0 .. 7 |-> ends[e + 1]]

\* The hidden parallel edge 1 is cheap, so choosing it would be noticed.
MCCosts == {c \in [0 .. 7 -> 1 .. MaxCost] : c[1] = 1 /\ c[7] = MaxCost /\ c[5] = 1}

\* Two terminals, several, one visited on the way, and a repeated one.
MCTerminals == { <<0, 4>>, <<3, 1, 4>>, <<4, 0, 3, 2>>, <<1, 1, 3>> }
=============================================================================
