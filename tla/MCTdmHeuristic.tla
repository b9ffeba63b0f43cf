--------------------------- MODULE MCTdmHeuristic ---------------------------
(***************************************************************************)
(* TdmHeuristic on every choice of trees over a few edges.  The first net  *)
(* is in several groups; with the nets in groups of their own an edge may  *)
(* carry light nets only.                                                  *)
(***************************************************************************)
EXTENDS TdmHeuristic

MCInputs ==
  [tree  : [Net -> SUBSET Edge],
   group : {<< <<0, 0>>, <<0, 1>>, <<0, 1>>, <<2>>, <<3>> >>,
            << <<0>>, <<0>>, <<0>>, <<1, 2>>, <<3>> >>}]
=============================================================================
