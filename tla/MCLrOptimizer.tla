--------------------------- MODULE MCLrOptimizer ---------------------------
(* Three nets and two edges: every choice of trees with four ways to form groups. *)
EXTENDS LrOptimizer

MCGroups == {<<<<1, 2>>, <<3, 2>>>>,            \* a net in two groups
             <<<<1, 2>>, <<1, 3>>, <<3, 2>>>>,  \* every net in two groups
             <<<<1, 1, 2, 3>>, <<2>>>>,         \* a dominant group, a net mentioned twice
             <<<<2, 3>>, <<2>>>>}               \* a net in no group

MCInputs == [tree : [Net -> SUBSET Edge], group : MCGroups]
=============================================================================
