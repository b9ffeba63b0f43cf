---------------------------- MODULE MCTextFormat ----------------------------
(* Three nets, eleven edges of one and two digits, ratios of which some do not *)
(* fit the integers of five bits.                                              *)
EXTENDS TextFormat

MCTrees == {<<>>, <<3>>, <<10>>, <<0, 10>>, <<10, 1>>, <<2, 1, 0>>}
MCTdm(e, n) == IF e = 10 THEN 20 ELSE 2 * n
=============================================================================
