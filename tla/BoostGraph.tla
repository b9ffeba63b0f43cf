----------------------------- MODULE BoostGraph -----------------------------
(***************************************************************************)
(* boostGraphMgr: the weighted copy of the FPGA graph the Steiner          *)
(* heuristic of RipUpRouter works on.  graphMgr names an edge by its two   *)
(* FPGAs and finds the last of parallel edges; boost::edge finds the       *)
(* first.  The weights are entered and raised through both look-ups.       *)
(***************************************************************************)
EXTENDS FpgaGraph

VARIABLES
  weight,       \* weights of boostGraphMgr::_g
  copy          \* weights of the copy g of RipUpRouter::route

\* A weight nobody entered, which is less than any entered one.
Unset == -1

DefaultGraph == [e \in Edge |-> Unset]

Alike(e) == {d \in Edge : Ends(d) = Ends(e)}

\* boost::edge: the first edge between the same FPGAs.
BoostEdge(e) == Min(Alike(e))

\* get_edge_id of the FPGAs of e.
NamedEdge(e) == EdgeId(EdgeInfo[e][1], EdgeInfo[e][2])

\* The edges last to first (for mutation only).
EnteredBackwards(table) ==
  [e \in Edge |-> IF e = BoostEdge(e) THEN table[e] ELSE weight[e]]

\* SetWeight edge by edge: of parallel edges the last to be entered counts.
Entered(table) ==
  [e \in Edge |-> IF e = BoostEdge(e) THEN table[Max(Alike(e))] ELSE weight[e]]

\* The weights once the edges of P, as get_edge_id names them, have those of table.
Raised(table, P) ==
  [e \in Edge |-> IF e = BoostEdge(e) /\ NamedEdge(e) \in P THEN table[NamedEdge(e)] ELSE copy[e]]
=============================================================================
