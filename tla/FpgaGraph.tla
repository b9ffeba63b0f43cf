----------------------------- MODULE FpgaGraph -----------------------------
(***************************************************************************)
(* graphMgr: the multigraph of FPGAs, built once by the parser and only    *)
(* read afterwards.  Edge e joins EdgeInfo[e][1] and EdgeInfo[e][2].       *)
(***************************************************************************)
EXTENDS Integers, FiniteSets, SequencesExt

CONSTANTS
  FpgaNum,    \* _fpga_num
  EdgeInfo    \* _edge_info, indexed by fpga_edge_id

Fpga == 0 .. FpgaNum - 1
Edge == DOMAIN EdgeInfo

Ends(e) == {EdgeInfo[e][1], EdgeInfo[e][2]}

ASSUME GraphAssumption ==
  /\ FpgaNum \in Nat \ {0}
  /\ IsFiniteSet(Edge) /\ Edge = 0 .. Cardinality(Edge) - 1
  /\ \A e \in Edge : Ends(e) \subseteq Fpga

\* _vertex_edge_map: a later edge between the same FPGAs overwrites an
\* earlier one, so parallel edges other than the last cannot be looked up.
NoEdge == -1
EdgeId(u, v) ==
  LET joining == {e \in Edge : Ends(e) = {u, v}}
  IN  IF joining = {} THEN NoEdge ELSE Max(joining)

\* _adjlist[u]: one entry per edge at u, in the order the edges were added.
Adj == [u \in Fpga |->
  FoldLeftDomain(
    LAMBDA list, i :
      LET e == i - 1 IN
        list \o (IF EdgeInfo[e][1] = u THEN <<EdgeInfo[e][2]>> ELSE <<>>)
             \o (IF EdgeInfo[e][2] = u THEN <<EdgeInfo[e][1]>> ELSE <<>>),
    <<>>, [i \in 1 .. Cardinality(Edge) |-> i])]

-----------------------------------------------------------------------------
(* Reference notions the properties are stated with.                       *)

\* FPGAs reached from s over the edges of P.
Reached(P, s) ==
  LET ball[k \in 0 .. FpgaNum] ==
        IF k = 0 THEN {s}
        ELSE LET last == ball[k - 1]
             IN  last \cup UNION {Ends(e) : e \in {d \in P : Ends(d) \cap last # {}}}
  IN  ball[FpgaNum]

\* The contest's inputs are connected: without it no router could succeed.
Connected == \A s \in Fpga : Reached(Edge, s) = Fpga

\* The edges a router can name: the ones EdgeId returns.
Named == {e \in Edge : EdgeId(EdgeInfo[e][1], EdgeInfo[e][2]) = e}
=============================================================================
