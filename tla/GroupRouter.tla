---------------------------- MODULE GroupRouter ----------------------------
(***************************************************************************)
(* groupRouter::route: nParallel OpenMP threads walk the rows of nids_t in *)
(* step.  In every row each thread runs the A* search of its own net, all  *)
(* meet at a barrier, one of them (omp single) adds the new trees to the   *)
(* shared edge costs _c1, and the implicit barrier of the single starts    *)
(* the next row.  After the parallel region every tree is entered in the   *)
(* passing-tree flags of its edges.                                        *)
(*                                                                         *)
(* The A* search itself is module AstarRouter.  Here it is a function of   *)
(* the costs it reads, and it reads them one at a time, so that a cost     *)
(* update that overlapped a search would be seen.                          *)
(***************************************************************************)
EXTENDS Integers, FiniteSets

CONSTANTS
  Edge,        \* FPGA-to-FPGA connections (fpga_edge_id)
  Net,         \* nets (net_id)
  NoNet,       \* the padding value -1 of nids_t and net_t
  NumThread,   \* nParallel, the number of threads asked for
  TeamSize,    \* the number of threads the OpenMP runtime delivers
  Rows,        \* nids_t[0].size()
  Lanes,       \* Lanes[t][r]: nids_t[t][r]
  RouteOf      \* RouteOf[n][c]: edges of the tree A* finds for n at costs c

Thread == 0 .. NumThread - 1
Team   == 0 .. TeamSize - 1
Row    == 0 .. Rows - 1

\* Largest cost an edge can reach: one, plus one for every net.
MaxCost == Cardinality(Net) + 1
Cost    == 1 .. MaxCost

\* A search that has not read the cost of an edge yet.
Unread == 0

ASSUME SizeAssumption ==
  /\ IsFiniteSet(Net)
  /\ NoNet \notin Net
  /\ NumThread \in Nat \ {0}
  /\ TeamSize \in 1 .. NumThread
  /\ Rows \in Nat

\* getParallelNetOrder deals every net to at most one place.
ASSUME LanesAssumption ==
  /\ Lanes \in [Thread -> [Row -> Net \cup {NoNet}]]
  /\ \A t, u \in Thread : \A r, q \in Row :
        Lanes[t][r] # NoNet /\ Lanes[t][r] = Lanes[u][q] => t = u /\ r = q

ASSUME RouteAssumption ==
  RouteOf \in [Net -> [[Edge -> Cost] -> SUBSET Edge]]

VARIABLES
  pc,           \* where each thread of the team is
  iter,         \* iter[t]: the row thread t works on
  seen,         \* seen[t]: costs read by the search thread t is running
  singleCount,  \* number of single blocks claimed so far
  slot,         \* loop variable j of the single block
  net_t,        \* net_t[t]: routed by t and not yet added to the costs
  c1,           \* shared edge costs _c1
  tree,         \* tree[n]: _topologies[n], {} while unrouted
  passing,      \* passing[e]: nets with the passing flag set on e
  published     \* nets already handed to add_tree_to_edge

vars == <<pc, iter, seen, singleCount, slot, net_t, c1, tree, passing, published>>

NoneSeen == [e \in Edge |-> Unread]

\* The net a thread finds in its lane at its current row.
CurrentNet(t) == Lanes[t][iter[t]]

Goto(t, label) == pc' = [pc EXCEPT ![t] = label]

Init ==
  /\ pc = [t \in Team |-> "fetch"]
  /\ iter = [t \in Team |-> 0]
  /\ seen = [t \in Team |-> NoneSeen]
  /\ singleCount = 0
  /\ slot = 0
  /\ net_t = [t \in Thread |-> NoNet]
  /\ c1 = [e \in Edge |-> 1]
  /\ tree = [n \in Net |-> {}]
  /\ passing = [e \in Edge |-> {}]
  /\ published = {}

-----------------------------------------------------------------------------
(* The body of the parallel loop.                                          *)

TakeNet(t) ==
  /\ pc[t] = "fetch"
  /\ iter[t] < Rows
  /\ CurrentNet(t) # NoNet
  /\ Goto(t, "route")
  /\ UNCHANGED <<iter, seen, singleCount, slot, net_t, c1, tree, passing, published>>

SkipRow(t) ==
  /\ pc[t] = "fetch"
  /\ iter[t] < Rows
  /\ CurrentNet(t) = NoNet
  /\ Goto(t, "barrier")
  /\ UNCHANGED <<iter, seen, singleCount, slot, net_t, c1, tree, passing, published>>

ReadCost(t, e) ==
  /\ pc[t] = "route"
  /\ seen[t][e] = Unread
  /\ seen' = [seen EXCEPT ![t][e] = c1[e]]
  /\ UNCHANGED <<pc, iter, singleCount, slot, net_t, c1, tree, passing, published>>

\* astar.route() ends in set_tree; then the thread posts its net.
FinishRoute(t) ==
  /\ pc[t] = "route"
  /\ \A e \in Edge : seen[t][e] # Unread
  /\ tree' = [tree EXCEPT ![CurrentNet(t)] = RouteOf[CurrentNet(t)][seen[t]]]
  /\ net_t' = [net_t EXCEPT ![t] = CurrentNet(t)]
  /\ seen' = [seen EXCEPT ![t] = NoneSeen]
  /\ Goto(t, "barrier")
  /\ UNCHANGED <<iter, singleCount, slot, c1, passing, published>>

\* Nobody waits at the barrier (for mutation only).
ArrivedAlways(u, r) == TRUE

\* u has reached the barrier of row r, or is beyond it.
Arrived(u, r) ==
  \/ iter[u] > r
  \/ iter[u] = r /\ pc[u] \notin {"fetch", "route"}

LeaveBarrier(t) ==
  /\ pc[t] = "barrier"
  /\ \A u \in Team : Arrived(u, iter[t])
  /\ Goto(t, "single")
  /\ UNCHANGED <<iter, seen, singleCount, slot, net_t, c1, tree, passing, published>>

\* The first thread to get here executes the block (compare-and-swap on the
\* number of single blocks met so far) ...
EnterSingle(t) ==
  /\ pc[t] = "single"
  /\ singleCount = iter[t]
  /\ singleCount' = singleCount + 1
  /\ slot' = 0
  /\ Goto(t, "commit")
  /\ UNCHANGED <<iter, seen, net_t, c1, tree, passing, published>>

\* ... the others go straight to its implicit barrier.
SkipSingle(t) ==
  /\ pc[t] = "single"
  /\ singleCount # iter[t]
  /\ Goto(t, "join")
  /\ UNCHANGED <<iter, seen, singleCount, slot, net_t, c1, tree, passing, published>>

\* The loop without its final "n = -1" (for mutation only).
CommitSlotKeepsNet(t) ==
  /\ pc[t] = "commit"
  /\ slot < NumThread
  /\ c1' = IF net_t[slot] = NoNet
             THEN c1
             ELSE [e \in Edge |-> IF e \in tree[net_t[slot]] THEN c1[e] + 1 ELSE c1[e]]
  /\ slot' = slot + 1
  /\ UNCHANGED <<pc, iter, seen, singleCount, net_t, tree, passing, published>>

\* One turn of "for j": add the tree of net_t[j] to the costs, clear net_t[j].
CommitSlot(t) ==
  /\ pc[t] = "commit"
  /\ slot < NumThread
  /\ c1' = IF net_t[slot] = NoNet
             THEN c1
             ELSE [e \in Edge |-> IF e \in tree[net_t[slot]] THEN c1[e] + 1 ELSE c1[e]]
  /\ net_t' = [net_t EXCEPT ![slot] = NoNet]
  /\ slot' = slot + 1
  /\ UNCHANGED <<pc, iter, seen, singleCount, tree, passing, published>>

\* The loop over net_t starts over instead of ending (for mutation only).
EndCommitRestarts(t) ==
  /\ pc[t] = "commit"
  /\ slot = NumThread
  /\ slot' = 0
  /\ UNCHANGED <<pc, iter, seen, singleCount, net_t, c1, tree, passing, published>>

EndCommit(t) ==
  /\ pc[t] = "commit"
  /\ slot = NumThread
  /\ slot' = 0
  /\ Goto(t, "join")
  /\ UNCHANGED <<iter, seen, singleCount, net_t, c1, tree, passing, published>>

\* omp single nowait (for mutation only).
JoinedAlways(u, r) == TRUE

\* u has reached the barrier at the end of the single block of row r.
Joined(u, r) ==
  \/ iter[u] > r
  \/ iter[u] = r /\ pc[u] = "join"

LeaveSingle(t) ==
  /\ pc[t] = "join"
  /\ \A u \in Team : Joined(u, iter[t])
  /\ iter' = [iter EXCEPT ![t] = iter[t] + 1]
  /\ Goto(t, "fetch")
  /\ UNCHANGED <<seen, singleCount, slot, net_t, c1, tree, passing, published>>

EndRegion(t) ==
  /\ pc[t] = "fetch"
  /\ iter[t] = Rows
  /\ Goto(t, "end")
  /\ UNCHANGED <<iter, seen, singleCount, slot, net_t, c1, tree, passing, published>>

-----------------------------------------------------------------------------
(* After the parallel region the master enters each tree on its edges.     *)

RegionOver == \A t \in Team : pc[t] = "end"

\* Publication that does not wait for the region to end (for mutation only).
AddTreeToEdgeEarly(n) ==
  /\ n \notin published
  /\ passing' = [e \in Edge |-> IF e \in tree[n] THEN passing[e] \cup {n} ELSE passing[e]]
  /\ published' = published \cup {n}
  /\ UNCHANGED <<pc, iter, seen, singleCount, slot, net_t, c1, tree>>

AddTreeToEdge(n) ==
  /\ RegionOver
  /\ n \notin published
  /\ passing' = [e \in Edge |-> IF e \in tree[n] THEN passing[e] \cup {n} ELSE passing[e]]
  /\ published' = published \cup {n}
  /\ UNCHANGED <<pc, iter, seen, singleCount, slot, net_t, c1, tree>>

RouteDone == RegionOver /\ published = Net

Finished == RouteDone /\ UNCHANGED vars

-----------------------------------------------------------------------------
ThreadStep(t) ==
  \/ TakeNet(t)
  \/ SkipRow(t)
  \/ \E e \in Edge : ReadCost(t, e)
  \/ FinishRoute(t)
  \/ LeaveBarrier(t)
  \/ EnterSingle(t)
  \/ SkipSingle(t)
  \/ CommitSlot(t)
  \/ EndCommit(t)
  \/ LeaveSingle(t)
  \/ EndRegion(t)

MasterStep == \E n \in Net : AddTreeToEdge(n)

Next ==
  \/ \E t \in Team : ThreadStep(t)
  \/ MasterStep
  \/ Finished

\* Every thread of the team keeps running: nothing in the region blocks but
\* the two barriers, and the operating system schedules every thread.
Fairness ==
  /\ \A t \in Team : WF_vars(ThreadStep(t))
  /\ WF_vars(MasterStep)

Spec == Init /\ [][Next]_vars

FairSpec == Spec /\ Fairness

-----------------------------------------------------------------------------
(* Rows and nets whose trees are in the costs.                             *)

Committing == \E t \in Team : pc[t] = "commit"

\* Rows whose single block has run to its end.
RowsDone == IF Committing THEN singleCount - 1 ELSE singleCount

\* Nets whose tree has been added to the costs.
Committed ==
  {n \in Net : \E t \in Team : \E r \in Row :
      /\ Lanes[t][r] = n
      /\ \/ r < RowsDone
         \/ r = RowsDone /\ t < slot}

Users(nets, e) == {n \in nets : e \in tree[n]}

-----------------------------------------------------------------------------
(* Properties.                                                             *)

Label == {"fetch", "route", "barrier", "single", "commit", "join", "end"}

\* Every variable of the parallel region and of the publication loop keeps
\* its type; in particular no cost of _c1 exceeds one plus the number of nets.
TypeOK ==
  /\ pc \in [Team -> Label]
  /\ iter \in [Team -> 0 .. Rows]
  /\ seen \in [Team -> [Edge -> Cost \cup {Unread}]]
  /\ singleCount \in 0 .. Rows
  /\ slot \in 0 .. NumThread
  /\ net_t \in [Thread -> Net \cup {NoNet}]
  /\ c1 \in [Edge -> Cost]
  /\ tree \in [Net -> SUBSET Edge]
  /\ passing \in [Edge -> SUBSET Net]
  /\ published \in SUBSET Net

\* The unlocked updates of _c1 in the single block are complete and counted
\* once: the cost of an edge is one plus the committed trees through it,
\* whatever the order in which the threads pass the barriers.
CostAccounting ==
  \A e \in Edge : c1[e] = 1 + Cardinality(Users(Committed, e))

\* The costs an A* search has read so far are still the current ones: no
\* commit overlaps a search, so every search works on one snapshot of _c1.
SnapshotStable ==
  \A t \in Team : pc[t] = "route" =>
    \A e \in Edge : seen[t][e] # Unread => seen[t][e] = c1[e]

\* The single block, which updates _c1 and net_t without a lock, is run by one
\* thread of the row at a time and never beside a search or a thread of
\* another row.
CommitExclusive ==
  \A t, u \in Team : pc[t] = "commit" /\ u # t =>
    /\ iter[u] = iter[t]
    /\ pc[u] \in {"barrier", "single", "join"}

\* When route() returns, the cost of an edge is one plus the number of
\* passing trees on it: the router's own load figures and the topology
\* manager's flags agree edge by edge.
CostMatchesPassing ==
  RouteDone => \A e \in Edge : c1[e] = 1 + Cardinality(passing[e])

\* A net is routed once: its topology is set by its A* search and then never
\* replaced, and the edge costs never go down.
RoutedOnce ==
  [][ /\ \A n \in Net : tree[n] # {} => tree'[n] = tree[n]
      /\ \A e \in Edge : c1'[e] >= c1[e] ]_vars

\* The team always gets through all rows and the topologies are published,
\* for every lane, including rows in which only some threads have a net.
EventuallyRouted == <>RouteDone

-----------------------------------------------------------------------------
(* The inductive invariant behind these properties.                        *)

\* Every thread is in the row whose single block comes next, or on its way out
\* of the row whose single block came last.
PhaseInv ==
  \A t \in Team :
    /\ iter[t] \in {singleCount - 1, singleCount}
    /\ iter[t] = singleCount => pc[t] \in {"fetch", "route", "barrier", "single", "end"}
    /\ iter[t] = singleCount - 1 => pc[t] \in {"barrier", "single", "commit", "join"}
    /\ pc[t] = "end" => iter[t] = Rows
    /\ pc[t] \notin {"fetch", "end"} => iter[t] < Rows
    /\ pc[t] = "route" => CurrentNet(t) \in Net

\* What the two barriers have ruled out.
BarrierInv ==
  \A t, u \in Team :
    /\ pc[t] = "single" => Arrived(u, iter[t])
    /\ iter[u] = singleCount /\ iter[t] # singleCount => pc[t] = "join"
    /\ pc[t] = "commit" /\ pc[u] = "commit" => t = u

SlotInv == ~Committing => slot = 0

\* Threads whose net of the row is routed but not in the costs yet.
Pending(k) ==
  /\ k \in Team
  /\ \/ iter[k] = singleCount /\ pc[k] \in {"barrier", "single"}
     \/ iter[k] = singleCount - 1 /\ Committing /\ slot <= k

NetInv ==
  \A k \in Thread : net_t[k] = IF Pending(k) THEN Lanes[k][iter[k]] ELSE NoNet

SearchInv ==
  \A t \in Team : pc[t] # "route" => seen[t] = NoneSeen

\* A net with a tree comes from a finished row, or from the row at hand and a
\* thread that is through with it.
RoutedInv ==
  \A n \in Net : tree[n] # {} => \E t \in Team : \E r \in Row :
    /\ Lanes[t][r] = n
    /\ \/ r < singleCount
       \/ r = singleCount /\ iter[t] = r /\ pc[t] \in {"barrier", "single"}

PublishInv ==
  /\ published # {} => RegionOver
  /\ \A e \in Edge : passing[e] = Users(published, e)

ControlInv ==
  /\ pc \in [Team -> Label]
  /\ iter \in [Team -> 0 .. Rows]
  /\ singleCount \in 0 .. Rows
  /\ slot \in 0 .. NumThread
  /\ PhaseInv
  /\ BarrierInv
  /\ SlotInv

\* The invariant the proofs of GroupRouterProofs use: control first, then the
\* data whose consistency the control guarantees.
IInv ==
  /\ TypeOK
  /\ ControlInv
  /\ NetInv
  /\ SearchInv
  /\ SnapshotStable
  /\ CostAccounting
  /\ RoutedInv
  /\ PublishInv

-----------------------------------------------------------------------------
(* Refinement: the parallel router routes batch after batch.               *)

BatchOf == [r \in Row |-> {n \in Net : \E t \in Team : Lanes[t][r] = n}]

\* Trees of the finished rows only; the row being routed is not visible yet.
FinishedTree ==
  [n \in Net |-> IF \E r \in Row : r < RowsDone /\ n \in BatchOf[r]
                   THEN tree[n] ELSE {}]

Batches == INSTANCE BatchRouter WITH
  Batch <- BatchOf, batch <- RowsDone, tree <- FinishedTree

\* Every interleaving of the threads yields the trees of the sequential
\* batch router: the result depends on the lanes, never on the schedule.
RoutesInBatches == Batches!Spec
=============================================================================
