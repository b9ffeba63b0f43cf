--------------------------- MODULE MCSpanningTree ---------------------------
(***************************************************************************)
(* SpanningTree on every graph of FpgaNum FPGAs, disconnected ones and     *)
(* parallel edges (a neighbour listed twice) included, and nets of two to  *)
(* four terminals.                                                         *)
(***************************************************************************)
EXTENDS SpanningTree

\* Every choice of edges; the edge 0-1, if any, is doubled.
MCGraphs ==
  LET pairs == {e \in SUBSET Fpga : Cardinality(e) = 2}
      list(E, u) == SetToSortSeq({v \in Fpga : {u, v} \in E}, <)
                      \o (IF {0, 1} \in E /\ u \in {0, 1} THEN <<1 - u>> ELSE <<>>)
  IN  {[u \in Fpga |-> list(E, u)] : E \in SUBSET pairs}

\* Up to the names of the FPGAs, which all graphs cover: a terminal repeats an
\* earlier one or is the next FPGA.
MCNets ==
  {s \in UNION {[1 .. k -> 0 .. k - 1] : k \in 2 .. 4} :
     \A i \in DOMAIN s : s[i] = 0 \/ \E j \in 1 .. i - 1 : s[i] <= s[j] + 1}
=============================================================================
