---------------------------- MODULE BatchRouter ----------------------------
(***************************************************************************)
(* What groupRouter::route promises: the nets are routed batch after       *)
(* batch.  Every net of a batch is routed against the same edge loads,     *)
(* those left by the batches before it, and the result depends on nothing  *)
(* else.  Threads, barriers and commit order do not appear here.           *)
(***************************************************************************)
EXTENDS Integers, FiniteSets

CONSTANTS
  Edge,      \* FPGA-to-FPGA connections (fpga_edge_id)
  Net,       \* nets (net_id)
  Rows,      \* number of batches
  Batch,     \* Batch[r]: the nets routed together in batch r
  RouteOf    \* RouteOf[n][c]: the tree the A* search returns for n at costs c

VARIABLES
  batch,     \* number of batches finished
  tree       \* tree[n]: edges of n's routed topology, {} while unrouted

batchVars == <<batch, tree>>

\* Cost of every edge: one, plus one for each routed tree that uses it.
Load(tr) == [e \in Edge |-> 1 + Cardinality({n \in Net : e \in tr[n]})]

Init ==
  /\ batch = 0
  /\ tree = [n \in Net |-> {}]

RouteBatch ==
  /\ batch < Rows
  /\ batch' = batch + 1
  /\ tree' = [n \in Net |-> IF n \in Batch[batch]
                              THEN RouteOf[n][Load(tree)]
                              ELSE tree[n]]

Next == RouteBatch

Safety == Init /\ [][Next]_batchVars

Spec == Safety /\ WF_batchVars(Next)
=============================================================================
