---------------------------- MODULE SpanningTree ----------------------------
(***************************************************************************)
(* MST::generateMST for one net: a minimum spanning tree of the net's      *)
(* terminals under the BFS distances, grown from the cheapest pair, and    *)
(* the order in which a cheapest-edge-first walk of that tree meets them.  *)
(* AstarRouter joins the terminals in this order; NetOrder sorts by the    *)
(* cost.  Nets are handled by parallel tasks that share nothing.           *)
(***************************************************************************)
EXTENDS BfsDistance

CONSTANT
  Nets         \* source and targets of every net, sequences of FPGAs

ASSUME NetsAssumption == \A s \in Nets : s \in Seq(Fpga) /\ Len(s) > 1

VARIABLES
  net,          \* the net of the task, once it is running
  connected,    \* terminals on the tree
  isolatedNum,  \* number of terminals that are not
  mst,          \* mstAdjList, as the set of its edges <<p1, p2>> with p1 < p2
  mstCost,      \* _mst_cost[nid]
  Q,            \* KruskalQueue: the pairs <<p1, p2>>, ordered by distance
  start,        \* where the walk begins
  ucsQ,         \* its queue: pairs of distance and terminal
  sorted,       \* _sorted_mst[nid], as positions in the net
  pc

mstVars == <<net, connected, isolatedNum, mst, mstCost, Q, start, ucsQ, sorted, pc>>
vars == <<bfsVars, mstVars>>

netSize  == Len(net)
Terminal == 0 .. netSize - 1
Pair     == {p \in Terminal \X Terminal : p[1] < p[2]}

\* adjMaxtrix: only the upper half is used, the walk turns its pairs round.
dist == [p \in Terminal \X Terminal |->
  dists[net[Min({p[1], p[2]}) + 1]][net[Max({p[1], p[2]}) + 1]]]

\* Order of the tuples (distance, p1, p2).
Before(p, q) ==
  \/ dist[p] < dist[q]
  \/ dist[p] = dist[q] /\ (p[1] < q[1] \/ (p[1] = q[1] /\ p[2] < q[2]))

First(pairs) == CHOOSE p \in pairs : \A q \in pairs \ {p} : Before(p, q)

Init ==
  /\ BfsInit
  /\ net = <<>>
  /\ connected = {}
  /\ isolatedNum = 0
  /\ mst = {}
  /\ mstCost = 0
  /\ Q = {}
  /\ start = 0
  /\ ucsQ = {}
  /\ sorted = <<>>
  /\ pc = "bfs"

CalcBfs == pc = "bfs" /\ BfsNext /\ UNCHANGED mstVars

\* The distances are complete and the task of a net starts.
TakeNet ==
  /\ pc = "bfs" /\ BfsDone
  /\ net' \in Nets
  /\ isolatedNum' = Len(net')
  /\ pc' = "first"
  /\ UNCHANGED <<bfsVars, connected, mst, mstCost, Q, start, ucsQ, sorted>>

-----------------------------------------------------------------------------
(* Kruskal()                                                               *)

\* Without the second loop, the pairs with smaller positions (for mutation only).
NewPairsAbove(p, C) == {q \in Pair : q[1] = p /\ q[2] \notin C}

\* addToQueue: the pairs of p with every terminal outside C.
NewPairs(p, C) ==
  {q \in Pair : (q[1] = p /\ q[2] \notin C) \/ (q[2] = p /\ q[1] \notin C)}

\* The first pair of minimal distance starts the tree.
ConnectFirst ==
  /\ pc = "first"
  /\ LET p == First(Pair)
         C == {p[1], p[2]}
     IN  /\ connected' = C
         /\ mst' = {p}
         /\ mstCost' = dist[p]
         /\ Q' = NewPairs(p[1], C) \cup NewPairs(p[2], C)
  /\ isolatedNum' = isolatedNum - 2
  /\ pc' = "kruskal"
  /\ UNCHANGED <<bfsVars, net, start, ucsQ, sorted>>

\* Every pair of the queue is taken (for mutation only).
AnyPair(p) == TRUE

Crosses(p) == p[1] \notin connected \/ p[2] \notin connected

DropPair ==
  /\ pc = "kruskal"
  /\ isolatedNum > 0
  /\ Q # {}
  /\ ~Crosses(First(Q))
  /\ Q' = Q \ {First(Q)}
  /\ UNCHANGED <<bfsVars, net, connected, isolatedNum, mst, mstCost, start, ucsQ, sorted, pc>>

ConnectPair ==
  /\ pc = "kruskal"
  /\ isolatedNum > 0
  /\ Q # {}
  /\ LET p == First(Q)
         C == connected \cup {p[1], p[2]}
         new == IF p[1] \notin connected THEN p[1] ELSE p[2]
     IN  /\ Crosses(p)
         /\ mst' = mst \cup {p}
         /\ mstCost' = mstCost + dist[p]
         /\ connected' = C
         /\ Q' = (Q \ {p}) \cup NewPairs(new, C)
  /\ isolatedNum' = isolatedNum - 1
  /\ UNCHANGED <<bfsVars, net, start, ucsQ, sorted, pc>>

-----------------------------------------------------------------------------
(* topologicalSortUCS()                                                    *)

\* The source (for mutation only).
SourceFirst == 0

\* The walk starts at the smaller end of the first cheapest edge.
WalkStart == First(mst)[1]

StartWalk ==
  /\ pc = "kruskal"
  /\ isolatedNum = 0
  /\ start' = WalkStart
  /\ ucsQ' = {<<0, start'>>}
  /\ pc' = "walk"
  /\ UNCHANGED <<bfsVars, net, connected, isolatedNum, mst, mstCost, Q, sorted>>

Neighbours(p) == {q \in Terminal : <<p, q>> \in mst \/ <<q, p>> \in mst}

\* Top of the queue: least distance, then least position.
IsTop(x) == x \in ucsQ /\ \A y \in ucsQ : x[1] < y[1] \/ (x[1] = y[1] /\ x[2] <= y[2])

\* "visited" are the terminals in sorted.
Visit ==
  /\ pc = "walk"
  /\ \E x \in ucsQ :
       /\ IsTop(x)
       /\ sorted' = Append(sorted, x[2])
       /\ ucsQ' = (ucsQ \ {x}) \cup
                  {<<dist[<<x[2], q>>], q>> : q \in Neighbours(x[2]) \ ToSet(sorted')}
  /\ UNCHANGED <<bfsVars, net, connected, isolatedNum, mst, mstCost, Q, start, pc>>

EndWalk ==
  /\ pc = "walk"
  /\ ucsQ = {}
  /\ pc' = "done"
  /\ UNCHANGED <<bfsVars, net, connected, isolatedNum, mst, mstCost, Q, start, ucsQ, sorted>>

Done == pc = "done" /\ UNCHANGED vars

Next ==
  \/ CalcBfs \/ TakeNet
  \/ ConnectFirst \/ DropPair \/ ConnectPair
  \/ StartWalk \/ Visit \/ EndWalk
  \/ Done

Spec == Init /\ [][Next]_vars

-----------------------------------------------------------------------------
(* Properties.                                                             *)

\* Until MST starts, which only reads them, every distance is the hop count as
\* soon as it is entered, the rows of finished tasks are complete, with -1 for
\* FPGAs that cannot be reached, and no task touches the row of another.
RowExact == pc = "bfs" => DistsExact

\* Types; every queued pair has an end on the tree, as the assertion on
\* connected[p1]^connected[p2] needs.
TypeOK ==
  /\ net \in Nets \cup {<<>>}
  /\ connected \subseteq Terminal
  /\ isolatedNum \in 0 .. netSize
  /\ mst \subseteq Pair
  /\ mstCost \in Int
  /\ Q \subseteq Pair /\ \A p \in Q : p[1] \in connected \/ p[2] \in connected
  /\ start \in Nat
  /\ \A x \in ucsQ : x[1] \in Int /\ x[2] \in Terminal
  /\ ToSet(sorted) \subseteq Terminal
  /\ pc \in {"bfs", "first", "kruskal", "walk", "done"}

\* The edge e crosses the cut W.
Across(e, W) == ~(e[1] \in W <=> e[2] \in W)

\* While terminals are missing, all pairs across the cut are queued: the queue
\* is never popped empty, and its top that crosses the cut is the cheapest.  Each
\* queued pair has an end on the tree, and all variables keep their types.
CutComplete ==
  /\ TypeOK
  /\ pc = "kruskal" =>
       /\ isolatedNum = Cardinality(Terminal \ connected)
       /\ \A p \in Pair : Across(p, connected) => p \in Q

\* E is a spanning tree of T: one edge less than T has members, and every cut
\* of T is crossed.
Spans(E, T) ==
  /\ Cardinality(E) = Cardinality(T) - 1
  /\ \A W \in SUBSET T : W # {} /\ W # T => \E e \in E : Across(e, W)

CostOf(E) == SumFunction([e \in E |-> dist[e]])

\* The tree the walk starts from is a minimum spanning tree of all terminals under
\* the distances of the graph, and mstCost its cost.
MinimumCost ==
  pc = "walk" /\ sorted = <<>> =>
    /\ Spans(mst, Terminal) /\ mstCost = CostOf(mst)
    /\ \A E \in kSubset(netSize - 1, Pair) : Spans(E, Terminal) => mstCost <= CostOf(E)

\* The order handed to AstarRouter holds each terminal once, begins with a pair
\* of minimal distance, and every other terminal follows one it is joined to.
WalkCoversNet ==
  pc = "done" =>
    /\ Len(sorted) = netSize
    /\ ToSet(sorted) = Terminal
    /\ \A p \in Pair : dist[<<sorted[1], sorted[2]>>] <= dist[p]
    /\ \A i \in 2 .. netSize : \E j \in 1 .. i - 1 : sorted[j] \in Neighbours(sorted[i])
=============================================================================
