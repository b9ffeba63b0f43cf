---------------------------- MODULE BfsDistance ----------------------------
(***************************************************************************)
(* BFSdb::calcBFSdb: hop counts between all FPGAs, the costs SpanningTree  *)
(* works with.  There is one TBB task per source; a task writes its own    *)
(* row of _dists only, and nobody writes the graph, so the tasks are       *)
(* followed one after the other.                                           *)
(***************************************************************************)
EXTENDS Lists

CONSTANTS
  FpgaNum,    \* _fpga_num
  Graphs      \* possible _adjlist: each maps an FPGA to its list of neighbours

Fpga == 0 .. FpgaNum - 1

\* add_edge enters every edge at both ends.
ASSUME AdjacencyAssumption ==
  /\ FpgaNum \in Nat \ {0}
  /\ \A g \in Graphs :
       /\ g \in [Fpga -> Seq(Fpga)]
       /\ \A u, v \in Fpga : v \in ToSet(g[u]) <=> u \in ToSet(g[v])

VARIABLES
  adjlist,    \* _adjlist
  src,        \* the source of the task
  bfsQ,       \* its queue: the FPGAs whose neighbours are still to be looked at
  visited,
  dists       \* _dists

bfsVars == <<adjlist, src, bfsQ, visited, dists>>

Unreached == -1

\* A task enters the distance of its source.
Begun(d, s) == [d EXCEPT ![s][s] = 0]

BfsInit ==
  /\ adjlist \in Graphs
  /\ src = 0
  /\ bfsQ = <<src>>
  /\ visited = {src}
  /\ dists = Begun([u \in Fpga |-> [v \in Fpga |-> Unreached]], src)

\* Neighbours of u seen for the first time, each once, in list order.
FreshNeighbours(u) ==
  LET list   == adjlist[u]
      places == {i \in DOMAIN list :
                   list[i] \notin visited /\ \A j \in 1 .. i - 1 : list[j] # list[i]}
  IN  [i \in 1 .. Cardinality(places) |-> list[Ascending(places)[i]]]

\* In front, as on a stack (for mutation only).
Pushed(q, fresh) == fresh \o q

Queued(q, fresh) == q \o fresh

VisitNext ==
  /\ bfsQ # <<>>
  /\ LET u == Head(bfsQ)
         fresh == FreshNeighbours(u)
     IN  /\ bfsQ' = Queued(Tail(bfsQ), fresh)
         /\ visited' = visited \cup ToSet(fresh)
         /\ dists' = [dists EXCEPT ![src] =
              [v \in Fpga |-> IF v \in ToSet(fresh) THEN @[u] + 1 ELSE @[v]]]
  /\ UNCHANGED <<adjlist, src>>

NextSource ==
  /\ bfsQ = <<>> /\ src < FpgaNum - 1
  /\ src' = src + 1
  /\ bfsQ' = <<src'>>
  /\ visited' = {src'}
  /\ dists' = Begun(dists, src')
  /\ UNCHANGED adjlist

BfsNext == VisitNext \/ NextSource

BfsDone == bfsQ = <<>> /\ src = FpgaNum - 1

-----------------------------------------------------------------------------
(* Properties.                                                             *)

\* The FPGAs within k hops of s in the graph g.
Ball(g, s) ==
  LET ball[k \in 0 .. FpgaNum - 1] ==
        IF k = 0 THEN {s}
        ELSE LET last == ball[k - 1] IN last \cup UNION {ToSet(g[u]) : u \in last}
  IN  ball

\* The hop count from s to every FPGA of the graph g.
Hops(g, s) ==
  [v \in Fpga |-> LET within == {k \in 0 .. FpgaNum - 1 : v \in Ball(g, s)[k]}
                  IN  IF within = {} THEN Unreached ELSE Min(within)]

\* The tables while the tasks run: types; a distance is exact as soon as it is entered, an FPGA waits in the
\* queue at most once, and when a task ends its row holds the hop counts of
\* all FPGAs, -1 for those that cannot be reached: what MST takes for its costs.
DistsExact ==
  /\ dists \in [Fpga -> [Fpga -> -1 .. FpgaNum - 1]]
  /\ visited \subseteq Fpga /\ ToSet(bfsQ) \subseteq visited /\ IsInjective(bfsQ)
  /\ \A s \in Fpga :
       LET hops == Hops(adjlist, s)
       IN  \A v \in Fpga :
             dists[s][v] = IF s < src \/ (s = src /\ (v \in visited \/ bfsQ = <<>>))
                             THEN hops[v] ELSE Unreached
=============================================================================
