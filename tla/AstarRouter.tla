---------------------------- MODULE AstarRouter ----------------------------
(***************************************************************************)
(* AstarRouter::route for one net: joins the net's FPGAs, in the order of  *)
(* the minimum spanning tree walk, by one uniform-cost search each.  A     *)
(* search stops at the first node of the tree it pops.                     *)
(*                                                                         *)
(* The open list _Q is a multiset whose comparator calls two different     *)
(* nodes of equal cost "less" both ways round.  A node is inserted before  *)
(* all others of its cost, and find() may walk past the node it looks for  *)
(* when another one of equal cost lies behind it: whether it does depends  *)
(* on the shape of the balanced tree, and is a choice here.                *)
(***************************************************************************)
EXTENDS FpgaGraph

CONSTANTS
  MaxCost,     \* bound of the model: the largest edge cost
  Costs,       \* the edge costs _c1 the runs start from
  Terminals    \* the FPGA sequences getSortedFPGAs may return

ASSUME InputAssumption ==
  /\ Connected
  /\ MaxCost \in Nat \ {0}
  /\ Costs \subseteq [Edge -> 1 .. MaxCost]
  /\ \A s \in Terminals : s # <<>> /\ \A i \in DOMAIN s : s[i] \in Fpga

VARIABLES
  c1,             \* _c1, not written while the net is routed (GroupRouter)
  fpgas,          \* _fpgas
  pos,            \* loop variable i of route(), from 1
  isVisited,      \* FPGAs on the tree
  minNodeCost,    \* cheapest known cost from the source of this search
  parent,         \* predecessor on that path; never reset between searches
  Q,              \* open list: [cost, node] in the order of the multiset
  tree,           \* edges in the order add_edge appends them
  src, dest,      \* arguments of doAstar
  cur,            \* <<node_cost, u>> of the node being expanded
  nbr,            \* next position in the adjacency list of u
  pc

vars == <<c1, fpgas, pos, isVisited, minNodeCost, parent, Q, tree, src, dest, cur, nbr, pc>>

NoFpga == -1

\* Stands for numeric_limits<double>::max(): more than any path costs.
Inf == MaxCost * FpgaNum + 1

Init ==
  /\ c1 \in Costs
  /\ fpgas \in Terminals
  /\ pos = 1
  /\ isVisited = {}
  /\ minNodeCost = [v \in Fpga |-> Inf]
  /\ parent = [v \in Fpga |-> NoFpga]
  /\ Q = <<>>
  /\ tree = <<>>
  /\ src = NoFpga /\ dest = NoFpga
  /\ cur = [cost |-> 0, node |-> NoFpga]
  /\ nbr = 1
  /\ pc = "route"

-----------------------------------------------------------------------------
(* route(): choose the end of the next pair that is not on the tree yet.   *)

BeginSearch(s, d) ==
  /\ src' = s
  /\ dest' = d
  /\ minNodeCost' = [v \in Fpga |-> IF v = s THEN 0 ELSE Inf]
  /\ Q' = <<[cost |-> 0, node |-> s]>>
  /\ pc' = "search"
  /\ UNCHANGED <<c1, fpgas, pos, isVisited, parent, tree, cur, nbr>>

SearchFromFirst ==
  /\ pc = "route"
  /\ pos < Len(fpgas)
  /\ fpgas[pos] \notin isVisited
  /\ BeginSearch(fpgas[pos], fpgas[pos + 1])

SearchFromSecond ==
  /\ pc = "route"
  /\ pos < Len(fpgas)
  /\ fpgas[pos] \in isVisited
  /\ fpgas[pos + 1] \notin isVisited
  /\ BeginSearch(fpgas[pos + 1], fpgas[pos])

\* One end is enough (for mutation only).
EitherOnTree(u, v) == {u, v} \cap isVisited # {}

BothOnTree(u, v) == {u, v} \subseteq isVisited

SkipPair ==
  /\ pc = "route"
  /\ pos < Len(fpgas)
  /\ BothOnTree(fpgas[pos], fpgas[pos + 1])
  /\ minNodeCost' = [v \in Fpga |-> Inf]
  /\ pos' = pos + 1
  /\ UNCHANGED <<c1, fpgas, isVisited, parent, Q, tree, src, dest, cur, nbr, pc>>

\* set_tree hands the tree over.
SetTree ==
  /\ pc = "route"
  /\ pos = Len(fpgas)
  /\ pc' = "done"
  /\ UNCHANGED <<c1, fpgas, pos, isVisited, minNodeCost, parent, Q, tree, src, dest, cur, nbr>>

-----------------------------------------------------------------------------
(* doAstar()                                                               *)

\* The popped entry is not erased (for mutation only).
Kept(q) == q

Popped(q) == Tail(q)

\* The popped node is the destination or on the tree already.
ReachTarget ==
  /\ pc = "search"
  /\ Q # <<>>
  /\ Head(Q).node = dest \/ Head(Q).node \in isVisited
  /\ dest' = Head(Q).node
  /\ Q' = Popped(Q)
  /\ pc' = "trace"
  /\ UNCHANGED <<c1, fpgas, pos, isVisited, minNodeCost, parent, tree, src, cur, nbr>>

Expand ==
  /\ pc = "search"
  /\ Q # <<>>
  /\ Head(Q).node # dest
  /\ Head(Q).node \notin isVisited
  /\ cur' = Head(Q)
  /\ Q' = Popped(Q)
  /\ nbr' = 1
  /\ pc' = "relax"
  /\ UNCHANGED <<c1, fpgas, pos, isVisited, minNodeCost, parent, tree, src, dest>>

\* A plain queue instead of an ordered set (for mutation only).
InsertLast(q, x) == Append(q, x)

\* emplace(): in front of the entries of the same cost.
Insert(q, x) ==
  SelectSeq(q, LAMBDA y : y.cost < x.cost) \o <<x>> \o
  SelectSeq(q, LAMBDA y : y.cost >= x.cost)

\* What find() and erase() of entry x may leave behind.
Erasures(q, x) ==
  LET hits == {k \in DOMAIN q : q[k] = x}
      overlooked == \A k \in hits : \E j \in DOMAIN q : j > k /\ q[j].cost = x.cost
  IN  {RemoveAt(q, k) : k \in hits} \cup (IF overlooked THEN {q} ELSE {})

\* The neighbour of u whose turn it is, and its cost through u.
Neighbour == Adj[cur.node][nbr]
CostThru  == cur.cost + c1[EdgeId(cur.node, Neighbour)]

Improve ==
  /\ pc = "relax"
  /\ nbr <= Len(Adj[cur.node])
  /\ LET v == Neighbour
     IN  /\ CostThru < minNodeCost[v]
         /\ \E q \in Erasures(Q, [cost |-> minNodeCost[v], node |-> v]) :
               Q' = Insert(q, [cost |-> CostThru, node |-> v])
         /\ minNodeCost' = [minNodeCost EXCEPT ![v] = CostThru]
         /\ parent' = [parent EXCEPT ![v] = cur.node]
  /\ nbr' = nbr + 1
  /\ UNCHANGED <<c1, fpgas, pos, isVisited, tree, src, dest, cur, pc>>

KeepNeighbour ==
  /\ pc = "relax"
  /\ nbr <= Len(Adj[cur.node])
  /\ CostThru >= minNodeCost[Neighbour]
  /\ nbr' = nbr + 1
  /\ UNCHANGED <<c1, fpgas, pos, isVisited, minNodeCost, parent, Q, tree, src, dest, cur, pc>>

EndRelax ==
  /\ pc = "relax"
  /\ nbr > Len(Adj[cur.node])
  /\ pc' = "search"
  /\ UNCHANGED <<c1, fpgas, pos, isVisited, minNodeCost, parent, Q, tree, src, dest, cur, nbr>>

\* The nodes met when walking from dest to src by parent, dest first.
TracedPath ==
  LET step[k \in 0 .. FpgaNum] ==
        IF k = 0 THEN dest
        ELSE LET last == step[k - 1] IN IF last = src THEN src ELSE parent[last]
      hops == Min({k \in 0 .. FpgaNum : step[k] = src})
  IN  [i \in 1 .. hops + 1 |-> step[i - 1]]

\* tracePath(): the path joins the tree, and the next pair is up.
TracePath ==
  /\ pc = "trace"
  /\ LET path == TracedPath
     IN  /\ tree' = tree \o [i \in 1 .. Len(path) - 1 |-> EdgeId(path[i], path[i + 1])]
         /\ isVisited' = isVisited \cup ToSet(path)
  /\ pos' = pos + 1
  /\ pc' = "route"
  /\ UNCHANGED <<c1, fpgas, minNodeCost, parent, Q, src, dest, cur, nbr>>

Done == pc = "done" /\ UNCHANGED vars

Next ==
  \/ SearchFromFirst \/ SearchFromSecond \/ SkipPair \/ SetTree
  \/ ReachTarget \/ Expand \/ Improve \/ KeepNeighbour \/ EndRelax
  \/ TracePath
  \/ Done

\* One thread runs the search to its end.
Spec == Init /\ [][Next]_vars /\ WF_vars(Next)

-----------------------------------------------------------------------------
(* Properties.                                                             *)

Entry == [cost : 0 .. Inf, node : Fpga]

\* Types; in particular no label ever exceeds the cost of a simple path and
\* every edge on the tree is one get_edge_id knows.
TypeOK ==
  /\ c1 \in Costs
  /\ fpgas \in Terminals
  /\ pos \in 1 .. Len(fpgas)
  /\ isVisited \subseteq Fpga
  /\ minNodeCost \in [Fpga -> 0 .. Inf]
  /\ parent \in [Fpga -> Fpga \cup {NoFpga}]
  /\ \A k \in DOMAIN Q : Q[k] \in Entry
  /\ \A k \in DOMAIN tree : tree[k] \in Named
  /\ {src, dest, cur.node} \subseteq Fpga \cup {NoFpga}
  /\ pc \in {"route", "search", "relax", "trace", "done"}

TreeEdges == ToSet(tree)

\* Between two searches the edges gathered so far form one tree, without a
\* repeated edge or a cycle, on exactly the visited FPGAs; when it is handed
\* over, all FPGAs of the net are on it.  All edges are ones get_edge_id returns.
VisitedIsTree ==
  /\ TypeOK
  /\ pc \in {"route", "done"} /\ isVisited # {} =>
       /\ Cardinality(TreeEdges) = Len(tree)
       /\ Len(tree) = Cardinality(isVisited) - 1
       /\ \A v \in isVisited : Reached(TreeEdges, v) = isVisited
       /\ pc = "done" => ToSet(fpgas) \subseteq isVisited

\* A stale entry, left behind because find() walked past it, is harmless: it
\* neither ends a search nor changes a label when it is popped later.
StaleEntriesHarmless ==
  [][ /\ pc = "search" /\ pc' = "trace" => Head(Q).cost = minNodeCost[Head(Q).node]
      /\ pc = "relax" /\ cur.cost > minNodeCost[cur.node] =>
           minNodeCost' = minNodeCost /\ parent' = parent ]_vars

\* The search always comes to an end and hands over a tree.
EventuallyDone == <>(pc = "done")

-----------------------------------------------------------------------------
(* Refinement: each terminal is attached by a cheapest path.               *)

Terminal == INSTANCE TerminalTree WITH tree <- TreeEdges, joined <- isVisited

\* Whatever find() overlooks, the paths added are cheapest paths.
AttachesCheapest == Terminal!Spec
=============================================================================
