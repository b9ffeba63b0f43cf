# Verification of the multi-FPGA router and TDM assigner

The program (`src/src`) reads a graph of FPGAs, nets and net groups, routes
every net as a tree of FPGA connections, and gives each net on each connection
an even time-division-multiplexing (TDM) ratio so that on every connection the
reciprocals of the ratios add up to at most 1. The cost of a net is the sum of
its ratios, the cost of a group the sum over its nets, and the largest group
cost is to be small.

This directory holds TLA+ models of its parts, TLC configurations that check
them on small instances, and TLAPS proofs for every instance. Paths below are
relative to `src/src`.

## 1. Inventory

| Component (code) | State | Operations | Talks to |
| --- | --- | --- | --- |
| pipeline (`main.cpp`, `mgr.cpp`) | net and group tables | `read_infile`, `Run`, `assign_TDM`, `reportResult` | everything, in sequence |
| parser (`parser.cpp`), writer (`file_writer.cpp`) | none | fill the tables, print trees and ratios | mgr, graphMgr, topologyMgr |
| FPGA graph (`graphMgr` in `db.cpp`) | `_adjlist`, `_vertex_edge_map`, `_edge_info` | `init`, `add_edge`, lookups | read by all routers |
| topology manager (`topologyMgr` in `db.cpp`) | `_topologies`, `_passingTrees`, `_pssTreeSizes` | `set_tree`, `add_tree_to_edge`, `delete_passing_tree`, `add_TDM`, `CalcTDM` | written by routers and assigners |
| BFS distances (`BFS.cpp`) | `_dists` | `BFSfrom_src`, one TBB task per FPGA | read by MST |
| spanning trees (`MST.cpp`) | `_sorted_mst`, `_mst_cost` | `Kruskal`, `topologicalSortUCS`, one TBB task per net | read by the group router |
| group router, order (`groupRouter.cpp` 107-201) | `_groupOrder`, `_netOrder`, `nids_t` | `sortNetGroups`, `getNetOrder`, `getParallelNetOrder` | MST |
| group router, threads (`groupRouter.cpp` 202-244) | `_c1`, `net_t` | OpenMP region, publication | AstarRouter, topologyMgr |
| A* search (`groupRouter.cpp` 7-97) | `_Q`, `_min_node_cost`, `_parent`, `_isVisited`, `_tree` | `route`, `doAstar`, `tracePath` | graphMgr, `_c1` |
| rip-up router (`ripupRouter.cpp`) | `_edgeWeight`, `_candidates` | `pickNets`, `ripup`, `route` | topologyMgr, PAAL's Steiner heuristic |
| LR assigner (`LR.cpp`) | multipliers, `_patterns`, `_netGroupTDMs` | `optimize`, `takeCeiling`, `round`, `apply` | topologyMgr |
| heuristic assigner (`TDM_heuristic.cpp`) | `_passing_trees`, `_tdmSum` | `initTDM`, `round`, `apply` | topologyMgr |
| `Steiner::greedy` (`steiner.cpp`), `MST::Prim`, `fiboheap.h` | | never called | |

What makes each part correct, and what is hard about it:

* **Order.** Every net some group mentions has exactly one place in the lanes,
  and the lanes are equally long: the region indexes all of them up to the
  length of the first. Nets belong to several groups and may be mentioned twice.
* **Threads.** `_c1` and `net_t` have no locks. Only the barrier, the `single`
  block and its implicit barrier keep searches and updates apart, row by row;
  some lanes have no net in the last row; the runtime may deliver fewer threads
  than asked for. The result must not depend on the schedule.
* **Spanning tree.** Kruskal's queue is popped without asking whether it is
  empty and holds stale pairs; the walk relies on the tree shape to list each
  terminal once.
* **Search.** The comparator of the open list is not a strict weak order, so
  entries that should be erased can stay; predecessors survive from one search
  to the next. Still the result must be a tree on the terminals.
* **Rip-up.** Three tables are changed at three places by assertions-guarded
  operations; they must agree again before the next round.
* **LR iteration.** Sums go through a table of positions; three tables are
  refreshed in a fixed order before the stopping test compares two of them; a
  ring of samples ends at its first zero. Multipliers shrink by powers and can
  underflow; an assertion stops the program when a net has no weight left.
* **Files.** The writer goes by the trees, the assigners by the flags; a later
  run reads the file back line by line and takes the first number of each.
  Neither side asks whether the file is whole, or what a topology file names.
* **Legalisation.** Floors, evenness, merged groups and an early exit, under a
  constraint that must never break.

All other hazards are listed with their lines in `PROJECT.json`.

## 2. Modules

How they compose (inputs of one are results of the other, and the invariant
named is what the taker assumes):

    BfsDistance --RowExact--> SpanningTree --WalkCoversNet--> AstarRouter
                                  |                               |
                               mstCost                   VisitedIsTree
                                  v                               v
                              NetOrder --DealtOnce, -----> GroupRouter
                                         LanesRectangular         |
                                               CostMatchesPassing |
                                                                  v
           TdmRound, TdmHeuristic  <---TablesAgree--- RipUpRouter
                 |                                 (extends BoostGraph)
           RatioConstraint
                 v
            LrOptimizer --AppliedToOwner--> Pipeline --EveryLinePriced--> TextFormat
                                               ^                              |
                                               +-----CompleteNetsSurvive------+

### BatchRouter, GroupRouter, NetOrder

`NetOrder` builds the lanes: one action per group for `getIntraGroupNetOrder`,
one per entry of `_netOrder` for `getParallelNetOrder`. `std::sort` by cost
alone may order equal nets in any way, which is a choice. Its result `nids` is
what `GroupRouter` takes as the constant `Lanes`: the theorem `LanesAsAssumed`
says that they satisfy `GroupRouter!LanesAssumption`.

`GroupRouter` has one process per thread of the team. `pc[t]` walks through
`fetch` (the loop test and `nid != -1`), `route` (the search), `barrier`,
`single`, `commit` (inside the single block, `slot` is its `j`), `join` (the
implicit barrier) and `end`. A barrier is left when all threads of the team have
arrived; the single block is claimed by the first thread that compares
`singleCount`, the number of single blocks claimed, with its own, as libgomp
and libomp do. A search reads the costs one edge at a time into `seen[t]`, in
any order, so an overlapping commit would be visible; its tree is a function
`RouteOf` of the costs read, whatever `AstarRouter` computes. After the region
the master publishes the trees (`add_tree_to_edge`) in any order.

`BatchRouter` is the abstract promise: batches of nets, each routed against the
loads the batches before it left. `GroupRouter!RoutesInBatches` says that
`GroupRouter` implements it, with the rows whose single block has ended as
finished batches. So the result is a function of the lanes, not of the schedule.

### Lists

`Sorted(s, before)` are the lists `std::sort` may make of `s`: elements of which
neither is before the other may change places, and often do. `Ascending(S)` lists a set of ids by
size, which is what a loop over `eid` or `nid` with a test does, and `Rank` is the place
an id gets there. Sums are `SumFunction` of the community modules in all modules that are proved about.

### FpgaGraph, AstarRouter, TerminalTree

`FpgaGraph` is `graphMgr`: adjacency lists with one entry per parallel edge,
and `EdgeId`, the lookup in which the last parallel edge wins. `AstarRouter`
models one net step by step; the open list `Q` is a sequence in multiset order.
An insertion puts the entry before all others of its cost (the comparator says
"less" both ways round). `find()` may walk past its entry if another entry of
that cost lies behind it, so `Erasures` has both outcomes. `TerminalTree` is the
abstract promise: each terminal joins the tree so far by a cheapest path.
Costs are small integers; the code's doubles hold integers, too (`_c1` starts
at 1 and is only incremented).

### BfsDistance, SpanningTree

They compute what `NetOrder` (`MstCost`) and `AstarRouter` (`Terminals`) take as
inputs. `BfsDistance` has one action per FPGA taken from a queue and fills
`_dists` row by row: the TBB tasks of the rows share only the graph, which nobody
writes, so they are followed one after the other. `SpanningTree` extends it:
first the distances, then the task of any one net, with `dist`, the upper half of
its matrix, read from the rows; one action per pair taken from Kruskal's queue
and one per terminal of the walk. The queues order by tuples, so the next entry
is determined. `mstAdjList` is the set of its edges: neither the search for the
start nor the walk depends on the order within a list. On a disconnected graph
the program goes on with distances of -1, and so does the model.

### RipUpRouter, BoostGraph

One action per loop body: choose the group, rip up one net, route one net, end
of round. `SteinerTrees`, the result of the external PAAL library, is any edge
set that joins the terminals and has no edge to spare; weights therefore do not
restrict it. `BoostGraph` is the copy of the FPGA graph with weights, on which
that library works: `_edgeWeight` is indexed through `get_edge_id` (the last of
parallel edges), the weights are set through `boost::edge` (the first). Weights
are counted from the 0.001 of the constructor; `Unset` is the 0 nobody overwrote.
It starts from any state the group router can leave: a net of a group has a tree,
or none if its lane had no thread, a net of no group has none, and the flags are set. A round
needs a most important group: `MostImportant # NoGroup` guards `PickNets`, as without
one the code would read group -1, and some grouped net has a tree at the start.
(`Pipeline` has the step into `undefined` where none has.) Candidates are sorted by
`TargetSize`, which counts a target as often as the file lists it.

### TdmHeuristic

The fast assigner for all edges at once. `CalcWeights` is the constructor (its
OpenMP loops are phases between barriers and write disjoint entries),
`InitEdge(e)`, and the steps of `RoundEdge(e)`, are the iterations of the two
parallel loops: they interleave, share only the group sums computed before, and
write the ratios of their own edge. `plan[e]` is the copy `ordered_pst`;
`WriteStop` is the only step that changes a ratio. Whether `round()` runs is an
option, here a choice. Arithmetic is as in `TdmRound`. The weights and first
ratios are functions of the input (`MaxUsedEdges`, `InitRatios`); `MaxTdm` is
assumed to be the largest of these ratios, which refinement never exceeds.

### LrOptimizer

`LR::optimize` around `TdmRound`: one action per procedure, in the order of the
code, `calcLambdaT` before and after each step of the multipliers. The numbers
are abstracted as follows. Of a multiplier `_lambdaNG[g]` only matters whether
it is 0. The factor of a step is the group's share of the largest sum, to a power of
at least 1: it is 1 for a group with the largest sum and 0 for the sum 0. A multiplier
with a factor in between shrinks, and after enough steps the product underflows;
the model lets it vanish in any such step (`MayVanish`), also the first, so it has
more behaviours than the arithmetic. Once 0.0 it stays. When the last one is gone, the
division by their sum makes NaNs: `undefined`. `_lambdaT[n]` is any integer
square, 0 exactly if all multipliers of the net are; ratios are then exact in
units of `1/Scale`. When no net has an edge the code divides 0 by 0: a NaN is
not 0, and no test on it is true. Otherwise the stopping test may come out
either way. Of a sample only the iteration it is of is kept, and whether it is
0.0; `_bestZ`, mean and deviation, which only scale steps, are left out.
`Round` lets `TdmRound` deliver any ratios it promises (`Legal`), in its order:
the list of an edge is sorted in place, so positions change their nets; an edge
without margin (`Full`) is left as it is. `RatioFor` has the cast to `UI`, of
`UIntSize` values. `made` tells of which iteration's multipliers a table was made.

### Pipeline

`main`, both modes, phase by phase, from the options to the file written. The
program may be started again, also while it runs (it is killed then), and read its
own file as its topology file.
Each phase has the early returns, assertions and undefined accesses that stop it;
`pc` ends in `exit`, `failed` (no input file), `aborted` (an assertion or a
throw), `undefined`, or `underflow` (either of them, because LR lost a multiplier).
The routers give each net they serve any tree it could have, the
assigners any even ratios; the rip-up chooses any group with a net that has a
tree. `--release` forces the thread number and switches the report off.

`limit` is the number of threads the system delivers at most: nets dealt to a lane
beyond it keep empty trees (`Served`). Any number of whole nets may reach the disk
(`OutputResult`); `fullTeam` remembers whether the run that wrote them had its threads.
A topology file is the output file, whole or cut (behind the whole nets anything
of `Listings` is read), or another one with any edge numbers (`given`): a number of no
edge is `undefined`, one named twice `aborted`. `LrOutcomes` and
`HeuristicOutcomes` say for which inputs and trees the assigners can stop the program.
In topology mode the number of threads goes to `tbb::global_control` only, an
external library, and is not judged.

### TextFormat

The text of the file as a sequence of digits, blanks and line ends:
`append_ints` and `output_result` on one side, `getline`, `str2ints` and
`read_topology` on the other. The disk holds any prefix of the text. At the end
of the stream `getline` empties the buffer once and then leaves it alone, and the
reader goes on. Integers wrap at `Width` bits.

### TdmRound

`takeCeiling` and `round` for one edge (edges are legalised in parallel but
share nothing). Arithmetic is exact, with reciprocals in units of `1/Scale`;
`TOL` is represented by strict comparisons (`ScaleAssumption` keeps every
difference of sums that the bounds allow larger than `TOL`). The inputs are the
ratios of `calcCauchy`, whose reciprocals add up to 1, as integer shares.
`Margin` needs no variable: each update of `margin` in the code is the exact
difference of the sums of reciprocals. The `prio` of a net is its `maxGroupTDM`.

## 3. Runs

| Run | Instance | What it shows |
| --- | --- | --- |
| `GroupRouterFull.cfg` | 3 threads, 6 nets, 3 rows, 3 edges | Cost accounting, snapshots, the exclusive single block, flags and the refinement with a full team. 3 divides 6, so the last row is all padding. Nets have two ways that share edges: a search that saw wrong costs would choose another tree. |
| `GroupRouterShort.cfg` | 3 lanes, 2 threads, 4 nets | A team shorter than the lanes: the inductive invariant `IInv` (with cost accounting, snapshots and flags) still holds and the region ends; the nets of the lane without a thread stay without a tree, see section 6. |
| `NetOrder.cfg` | 4 nets, 3 groups, 2 lanes, 1200 inputs | Lanes are rectangular, each grouped net has one place, cheap groups come first. Inputs leave 1 to 4 nets in groups, so both remainders occur; groups overlap and mention nets twice. |
| `AstarRouter.cfg` | 5 FPGAs, 8 edges, costs 1 to 3 on five of them, 4 terminal lists | The tree, that stale entries of the queue do no harm, termination, and cheapest attachment. There are two pairs of parallel edges, with the hidden one cheaper; ties and stale entries occur. |
| `SpanningTree.cfg` | all 1024 graphs on 5 FPGAs, nets of 2 to 4 terminals | Distances are exact hop counts, -1 for unreachable FPGAs, and no task touches the row of another; the tree made of them is minimal (against all spanning trees), all pairs across the cut are queued, the walk covers the net once. Disconnected graphs, a doubled edge, distance 0 (an FPGA named twice) and ties occur. Five FPGAs are the least on which a queue and a stack find other distances. |
| `RipUpRouter.cfg` | 4 FPGAs, 7 edges of which 3 parallel, in both directions, 3 nets, 2 overlapping groups, 2 rounds; any of the nets may start without a tree | Tables have their types and agree at every step, the assertions of `db.cpp` hold, other nets are not touched; weights and table agree through the two look-ups, also after a round on a copy that was thrown away. Two rounds so that a round starts from what the previous one left. |
| `TdmHeuristic.cfg` | 4 nets, 2 edges, every choice of trees, 2 ways to form 5 groups | Even ratios, the ratio constraint, at most one ratio per edge lowered and of a heavy net only, the refinement always stops at a levelled net, termination. Five groups leave two below the threshold, so edges with light nets only, and plans that leave nets out, occur. |
| `TdmRound.cfg` | up to 4 trees, shares 1 to 3, 3 levels of groups | The ratio constraint, evenness, who may be raised or lowered, termination. Two group levels lie within the 0.0023 of each other, one does not. |
| `TdmRoundComment.cfg` | the same | Violated: the comment at `LR.cpp:295`, see section 6. |
| `LrOptimizer.cfg` | 3 nets, 2 edges, every choice of trees, 4 ways to form groups, iterations 0 to 2, a window of 2 | The sums are those of trees and membership, the stopping test compares one point, the samples are the latest, who can trip the assertion, each net gets its own ratios. A net in two groups, mentioned twice, and in none, a dominant group and none, groups without edges occur; every multiplier that shrinks may vanish; the window wraps. |
| `Pipeline.cfg` | 2 nets, 2 edges, 8 inputs, 38 command lines, 2 runs | Stops happen outside `Preconditions` only, or by underflow where a net has no dominant group; trees survive the file as far as it goes, the report is the file's if that is whole, every line has a ratio. Six of the inputs miss one expectation of the program each; the topology file is missing, given (well-formed, with an empty tree, a doubled edge, a number of no edge), or what the first run left, whole or cut; teams are full or of one thread. |
| `TextFormat.cfg` | 3 nets, trees of up to 3 of 11 edges, integers of 5 bits, every cut | Nets complete on disk come back with their trees; only a cut file trips the assertion or writes past a container. Numbers have one and two digits, some ratios do not fit the integers, empty trees occur. |

A module's type invariant is a conjunct of its main invariant: of `IInv`,
`VisitedIsTree`, `LanesRectangular`, `CutComplete`, `TablesAgree`,
`RatioConstraint` and `AppliedToOwner`.

Each property is also run against a mutated definition (`PROJECT.json`,
`mutants`) and must fail there; the mutated forms stand beside the originals
and are marked "for mutation only".

Bounds: three threads are the least with which a thread can be early, late and
in between at a barrier; two full rows and a padded one show carry-over from
row to row. Two iterations are the least with which a window of two wraps; two
runs, with which one reads the other's file. Five FPGAs suffice for two searches
of one net to cross. Deadlock is checked in all runs; states in which the program has ended stutter.

**Fairness.** `GroupRouter!FairSpec` has weak fairness on each thread of the
team and on the master: a thread is only ever blocked at the two barriers, and
the operating system schedules all others. `AstarRouter` and `TdmRound` are
sequential, with weak fairness on the whole step: a running program takes its
next step. `TdmHeuristic` has weak fairness on the whole step, too: the loops of
its edges do not wait for each other. All other modules claim safety only: a run of
`Pipeline` may be interrupted at any time, and no waiting goes on in the rest.

## 4. Proofs

Theorems hold for every value of the constants that the `ASSUME` of the module
allows (TLC evaluates it in each run), so for any number of nets, edges, groups,
threads, rounds and runs. Constants that only keep TLC's state space finite
(`MaxTdm`, `MaxWeight`, `Ratios`, ...) stay parameters.

| Module | Theorems, by the property they state |
| --- | --- |
| `GroupRouterProofs` | `IInv`, `TypeOK`, `CostAccounting`, `SnapshotStable`, `CommitExclusive`, `CostMatchesPassing`, `RoutedOnce`, and the refinement `ImplementsBatchRouter`: `Spec => Batches!Safety` |
| `SpanningTreeProofs` | `MstInv`, `RowExact`, `CutComplete`, `MinimumCost`, `WalkCoversNet` |
| `NetOrderProofs` | `IInv`, `DealtOnce`, `LanesRectangular`, `CheapFirst`, `ServesGroupRouter` |
| `RipUpRouterProofs` | `IInv`, `TablesAgree`, `WeightsFollowTable`, `OthersUntouched` |
| `TdmProofs` | of `TdmRound`: `IInv`, `RatioConstraint`, `OnlyLeaderRises`, `LowPriorityLast`; of `TdmHeuristic`: `HeuristicInv`, `RatioConstraint`, `LowersOneHeavyNet`, `StopsAtLeader` |
| `LrOptimizerProofs` | `IInv`, `GapOfOneMultiplier`, `TotalsThroughSigmas`, `StopsWithoutDominantGroup`, `AppliedToOwner`, `WindowIsRecent` |
| `PipelineProofs` | `IInv`, `StopsOutsidePreconditions`, `ReadsBackTrees`, `EveryLinePriced`, `ReportMatchesFile` |
| `SetFacts` | lemmas about numbers, sums, concatenation and order, used by the others |

None of these properties is inductive by itself. Each proof module states an
inductive invariant (`IInv`, `MstInv` of `SpanningTree`, `HeuristicInv` of
`TdmHeuristic`), one lemma per action that it is kept, and derives the properties
from it. (TLC has checked each `IInv`, and `HeuristicInv`, on its run as well;
`MstInv` quantifies over all trees and cuts, and only the properties derived from it
were checked.)

### GroupRouter

`IInv` adds, from the control up:

1. `PhaseInv`: all threads are in the row whose single block comes next, or
   still leaving the row before; which labels go with which.
2. `BarrierInv`: a thread past the barrier means that all have arrived; a thread
   in the next row means that the others wait at the join; one committer.
3. `NetInv`: `net_t[k]` is the net of lane `k` exactly while it is routed and
   not yet added to the costs. Without it nothing says what a commit adds.
4. `RoutedInv`: a tree belongs to a finished row, or to the current row and a
   thread that is through with it. So a search never overwrites a tree that is
   in the costs, and the reset of an edge cost is never needed.
5. `CostAccounting`, `SnapshotStable`, `PublishInv` and `TypeOK` on top.

The control part is proved inductive by itself (`ControlInit`, `ControlNext`),
the data parts one lemma each (`NetNext`, `SearchNext`, `CostNext`,
`RoutedNext`, `PublishNext`, `TypeNext`), and `InvNext` puts them together. The
commit step (`CommitAddsNet`) adds one net to `Committed` and nothing else; that
no net has two places (`OnePlace`) makes the cardinality grow by exactly one.

*Refinement.* The mapping shows the trees of finished rows only. Nearly all
steps stutter; the end of a single block is one step of `BatchRouter`. For that
step `BatchInv` says of every net of the row at hand whose search is over that
its tree is the one for the loads of the *finished* rows, although other threads
may be ahead or behind. It follows from `SnapshotStable` (what a search has read
is what the costs are) and `CostAccounting` (the costs are the loads) while the
row is routed, and from `RoutedInv` afterwards.

### SpanningTree

*Distances* (`BfsInv`). The queue holds FPGAs whose distances do not fall and
differ by at most 1 (`QueueOK`); who has left it has all its neighbours seen and
a distance not above the head's (`Settled`); whatever is within `k` hops for a
`k` up to the head's distance has been seen with a distance of at most `k`, and
each distance entered is the length of some path (`Measured`). So the distance of
the head, plus 1, is the hop count of its unseen neighbours. When the queue is
empty, what was seen is closed under neighbours: nothing else can be reached.

*Tree* (`Growing`). A set of edges spans the terminals if it has one edge less
than there are terminals and every cut is crossed; there is no induction over
paths. Some cheapest spanning tree holds the edges taken so far (`Tree`). The
next one is the cheapest across the cut, as the queue holds all pairs across it
(`CutQueued`). If the cheapest tree does not hold it, `Exchange` puts it in the
place of another edge across the cut: were each of these needed by some cut, then, of all
cuts the new edge crosses, the one with fewest edges of the tree could be changed
by the cut of one of them to have fewer still. At the end the tree has as many edges as
the cheapest one that holds it, so it is that one.

*Walk*. Each edge of the tree is the only one across some cut (`Bridges`), so that
two terminals already met cannot both be joined to one outside (`OneWayIn`):
a terminal is queued once and visited once. A cut between the visited terminals and the
others has an edge of the tree across it, whose far end is queued, so an empty
queue means that all have been visited.

Costs may be negative here (-1 on a disconnected graph), or 0 when a net names an
FPGA twice; none of the arguments minds.

### NetOrder

1. *Who is listed when.* A counter is the sum of the mentions in the groups passed
   (`Counting`), and the size of a net is the sum over all groups in any order
   (`SumEnumerated`). So a counter reaches the size in the last group that
   mentions the net and in no earlier or later one (`CountedOut`), and the list
   consists of the nets no later group mentions (`Settled`).
2. *In which order.* Appending the nets of one group, sorted by cost, keeps the list
   free of a net after one it has to precede (`EnumeratesBoth`): the last groups
   of the nets listed before come before this group.
3. *Dealing.* `LanesEven` counts the places by quotient and remainder of `idx`;
   `DealtInOrder` says that reading the lanes row by row is reading the list. The
   three properties are about the places at the end, and follow from it.

`NetOrder!MstCost` may be any function to the integers here.

### RipUpRouter

The three tables agree with each other *except for the nets of the round that
are ripped up and not routed again yet*: `RippedUp` names them through phase
and loop index, `CandidatesDistinct` makes each of them come once. The
assertions of `db.cpp` are then facts about `RippedUp`. For the weights: an edge
entered through `get_edge_id` is the last of its parallels, the weight set
through `boost::edge` belongs to the first (`LookUps`); the two maps are inverse
on the parallel classes, so `WeightsFollowTable` survives each raise, and
`WeightsBounded` says that the others never get a weight.

### TdmRound

Why the constraint survives. *Ceiling*: a ratio not below `total/share` has at
most `share/total` as its reciprocal, and the shares add up to `total`. *Loop*:
with `n` nets at ratio `t` and margin `m`, a decrement up to
`t²m / (nS + tm)` costs at most `m` (`S` units make 1); the code
takes the floor, made even, or stops at the ratio of the next net when that is
closer. This needs that the first `n` nets really have one ratio
(`LeadersLevel`) and that the next one is not above it within a group
(`StaysSorted`). *Refinement*: each decrement is tested. `OnlyLeaderRises` is
where the order is by groups first: the next ratio can then be larger, and only
for a group within `LevelGap` of the first.

### TdmHeuristic

Its theorems stand in `TdmProofs`, about the instance `H` of the module, and have
`H!HeuristicAssumption` as their hypothesis. `MaxTdm` and `Scale` are those of
`TdmRound` (whose assumption on them is a bound, and that `MaxTdm` is even).

`HeuristicInv` says for each edge how it stands in each phase (`EdgeRight`):

1. *First ratios* (`FirstRatios`). The weights of an edge add up to `W`; a net of
   weight `w` gets at least `W/w`, so the reciprocals add up to at most 1. That no
   `w` is 0 (`WeightsPositive`) goes through the four sums and maxima of the
   constructor: each net with a tree is in a group that has an edge.
2. *Loop* (`Planned`, `Even`, `Descends`). A plan names each net once, raises no
   ratio and leaves margin. Lowering the level to the next ratio (`LeadersDown`)
   or by the quotient made even (`LevelIsLow`) costs less than the margin: that is
   `Lowering`, an equivalence, which `TdmRound` uses in one direction. Here the
   plan is ordered by ratio, so the next ratio is never above the level.
3. *Refinement* (`Refinable`). By the other direction of `Lowering`, what is left
   after the even decrement does not suffice for 2 more on all nets of the level;
   each net lowered takes its share of that (`NextIsRefinable`), so the last of
   the level cannot be lowered. Hence `StopsAtLeader`.
4. *Write* (`Settled`). Writing one ratio of the plan back costs no more than the
   whole plan, which had margin. So one net at most differs from its first ratio.

The edges share only what is fixed when they run, so one lemma (`OneEdge`)
carries a step of one edge over to all.

### LrOptimizer

The sums go through `_sigmas`, places in `_patterns` noted at the start, and
they are the sums over trees and membership lists because an edge lists its nets
in the order of their ids until `round()` sorts (`Indexed`): place and rank
coincide. `FlattenSums` turns the sum over the list of places into sums net by net.
The ring of samples is read up to its first zero; that all
samples in it are of the latest iterations (`InWindow`) rests on no sum being
zero unless the group has no edge (`Priced`), and then all are.

What stops the program cannot depend on how fast a multiplier underflows, so the
statement is about groups that keep theirs whatever the numbers do. Call a group
*dominant* if it mentions every net at least as often as any other group. Its
sum is then never below another's (`DominantPaysMost`): the list of places of
the other group embeds, one to one, into its own (`DominantSum`, with `SumEmbedded`
of `SetFacts`), ratios are not negative, and by induction over the steps its factor is always
1 (`DominantGroupsSave`). Only a net that is in no dominant group can lose all its
weight. The reverse does not hold: other groups may keep theirs.
`AppliedToOwner` uses that the sort is a permutation (`Arranged`): `apply`
goes by the net in the entry, not by the place.

### Pipeline

`FlagsAgree` is the heart: whoever made the trees, the flags of each edge are
those of the trees. With `ModeKept` (a run either routes or reads, from empty
tables), `RoutedTrees` and `TreesRead` it tells for every phase which nets can be
without a tree, hence which of the undefined accesses can be met. `RoutedTrees` has two
halves: with all threads no net that needs edges is without them (`ServedFacts`), and with
fewer at least one has some, so the rip-up finds a group. `FileOfTrees` tells what the
whole nets of a file promise, and of which run.
`ReportMatchesFile` is an equation between sums over groups of sums over tree
edges and sums over the lines of the file, which are equal net by net (`FileSums`).
It is the only property with an invariant of its own (`RInv`), as the report is
made one phase before the file.

### SetFacts

`SumFunction` and `FlattenSeq` are defined by recursive functions over
sets and intervals. What they compute is proved here from the
definition: `LeastNat` (a nonempty set of numbers has a least element) gives induction
over an interval in first-order form (`IntervalInduction`), from it
`FoldExists` (the fold is the last of its partial results, in whichever order
`CHOOSE` takes the elements: `AnyOrder`), `SumUnique`, and so on.

### Only model-checked

* Liveness: `EventuallyRouted`, `EventuallyDone` (three modules) and the
  fairness part of `RoutesInBatches`. The prover has no rules for it.
* `VisitedIsTree`, `StaleEntriesHarmless` and `AttachesCheapest` of `AstarRouter`:
  they are about paths in a tree whose branches are rewired while it grows.
* `TextFormat`: its numbers are computed digit by digit by recursive functions, and
  its text by folds over folds; what they return is induction over data.
* The library's theorems that take an operator as a parameter cannot be used, and
  `SortSeq` has no definition the prover can expand, hence `Sorted`.

## 5. Plan

1. Done: the modules above and their proofs.
2. Next: `AstarRouter`, whose `VisitedIsTree` could use the lemmas about cuts of
   `SpanningTreeProofs`.
3. Left to TLC: liveness, `AttachesCheapest`, `TextFormat`.

## 6. What the checks brought up

* `LR.cpp:295` explains an early return with "the max tdm on the edge is 2,
  which means that there is no space left for improvement". The list is sorted
  by group first, so its head need not have the largest ratio: the return is
  taken with other nets of the edge still to lower (`ReturnMeansNoSpace`). The
  result stays legal (`RatioConstraint`).
* When two groups are merged under one threshold, the net of the worst group can
  be *raised* to the ratio of the second (`x_star` is negative at `LR.cpp:311`).
  `OnlyLeaderRises` pins down that it is never any other net.
* The refinement of `TdmHeuristic::round` computes decrements for many nets of an
  edge but keeps one of them: only the net at which it stops is written back
  (`TDM_heuristic.cpp:208`). The result is legal (`RatioConstraint`), but most of
  the margin found is not used (`LowersOneHeavyNet`).
* `assert(_lambdaT[nid] != 0)` (`LR.cpp:91`) fails for an input in which a net is
  only in groups none of whose nets has an edge, beside a net that has one: the
  multiplier of such a group becomes 0 in the first step and the program is stopped
  without a result.
* The same assertion can fail for nets that do have edges. Take three nets, 0 and 1
  sharing one connection and 2 alone on another, and the groups {1}, {0}, {0}, {2}.
  Net 2 has the ratio 1 whatever its weight, so its group never has the largest
  sum; its multiplier is multiplied by a power of a number below 1 in each step, and the
  same formulas, computed in doubles with the default options, give 0.0 at step 272
  of the 501 that the loop may take. `StopsWithoutDominantGroup` names a condition under
  which this cannot happen: each net is in a group that mentions all nets at least as
  often as any other group does. Inputs seldom meet it; without it the models say that the program
  *may* stop (`underflow` in `Pipeline`), not that it does.
* A run with a topology file must name an output file (`ArgumentParser.cpp:71`)
  and never writes it: it reports the ratios only (`OutputResult` of `Pipeline`).
* A topology file that cannot be opened is reported and ignored: the run assigns
  ratios to no trees and ends normally. A file cut short is not noticed at all:
  the nets complete in it are read correctly, others get smaller or other trees, or
  an empty line, for which the reader has no room, is met.
* A topology file is trusted: an edge it names twice for a net trips the assertion of
  `add_passing_tree`, a number that is no edge indexes tables out of bounds.
* Of parallel edges all but the first keep the weight 0 in the graph the Steiner
  heuristic works on (`WeightsFollowTable`).
* With fewer OpenMP threads than lanes, the nets of the remaining lanes leave
  `route()` with empty trees; costs and flags still agree. The heuristic assigner goes
  on and the file has nets without lines; LR is stopped by its assertion if no group of
  such a net has an edge.

## 7. Not modelled

* The numbers of the floating-point iteration in `LR`: powers, square roots and
  exponentials, mean and deviation, `_bestZ`, and the order in which parallel
  reductions add. Of what depends on whether a number is 0 or NaN, `LrOptimizer` has
  the multipliers, which may reach 0 by a sum of 0 or by underflow at any step, the
  weights, the samples and the quotients by a largest sum of 0. How soon a product
  underflows is not modelled, nor overflow of the ratios.
* The text of the input file: `parser::read` is represented by what it leaves in
  the tables. The parsing of options by `boost::program_options`, the display of
  the configuration, verbosity, timers and statistics.
* Code that is never called: `Steiner::greedy`, `MST::Prim`,
  `MST::topologicalSortBFS`, `fiboheap.h`, `fiboqueue.h`.
* PAAL, Boost, TBB and OpenMP themselves, beyond how the code uses them.
* The binary evaluator and the regression tests.
