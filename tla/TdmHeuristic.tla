---------------------------- MODULE TdmHeuristic ----------------------------
(***************************************************************************)
(* TdmHeuristic: the fast assignment of TDM ratios.  Each edge is shared   *)
(* out in proportion to the weight of the heaviest group of a net, the     *)
(* ratios are made even, and what an edge has left is given to nets of the *)
(* heaviest groups.  The edges are parallel OpenMP iterations; each plans  *)
(* on a copy (ordered_pst) and writes one net of it back.                  *)
(*                                                                         *)
(* Arithmetic is exact, with reciprocals in units of 1/Scale.  TOL is too  *)
(* small to tell two sums apart but excludes equality: a sum that is below *)
(* 1 - TOL is below 1, and conversely.                                     *)
(***************************************************************************)
EXTENDS Lists

CONSTANTS
  NetNum,      \* nets are 0 .. NetNum - 1
  Edge,
  GroupNum,
  Inputs,      \* trees and groups: records [tree, group]
  MaxTdm,      \* largest ratio these inputs lead to
  Scale        \* a multiple of every even number up to MaxTdm

Net   == 0 .. NetNum - 1
Group == 1 .. GroupNum

-----------------------------------------------------------------------------
(* The weights of the constructor and the ratios of initTDM().             *)

\* The sum of val[x] over the nets x of group g, as often as it mentions them.
SumOfGroup(in, val, g) ==
  SumFunction([i \in DOMAIN in.group[g] |-> val[in.group[g][i]]])

\* The greatest of val[g] over the groups g of net x.
MaxOfGroups(in, val, x) ==
  Max({0} \cup {val[g] : g \in {h \in Group : x \in ToSet(in.group[h])}})

NetGroupEdgeSize(in) ==
  [g \in Group |-> SumOfGroup(in, [x \in Net |-> Cardinality(in.tree[x])], g)]

PassingNets(in, e) == {x \in Net : e \in in.tree[x]}

\* Each net on the edge counts with the size of its biggest group.
EdgeWeight(in, e) ==
  SumFunction([x \in PassingNets(in, e) |-> MaxOfGroups(in, NetGroupEdgeSize(in), x)])

WeightedTreeSize(in) ==
  [x \in Net |-> SumFunction([e \in in.tree[x] |-> EdgeWeight(in, e)])]

NEdges(in) == [g \in Group |-> SumOfGroup(in, WeightedTreeSize(in), g)]

MaxUsedEdges(in) == [x \in Net |-> MaxOfGroups(in, NEdges(in), x)]

\* std::ceil of a/b, and one more when that is odd.
EvenCeil(a, b) == LET c == (a + b - 1) \div b IN c + (c % 2)

\* The first ratios of an edge: the share of a net is its share of the weights.
InitRatios(in, weight, e) ==
  LET sum == SumFunction([x \in PassingNets(in, e) |-> weight[x]])
  IN  [x \in PassingNets(in, e) |-> EvenCeil(sum, weight[x])]

\* round() reads the third group without asking whether there is one.  Every net
\* belongs to a group.  TOL = 10^-6 moves a floor() at an integer only.
ASSUME HeuristicAssumption ==
  /\ NetNum \in Nat /\ GroupNum \in Nat /\ GroupNum >= 3 /\ IsFiniteSet(Edge)
  /\ {MaxTdm, Scale} \subseteq Nat \ {0}
  /\ \A in \in Inputs :
       /\ in.tree \in [Net -> SUBSET Edge]
       /\ in.group \in [Group -> Seq(Net)]
       /\ \A x \in Net : \E g \in Group : x \in ToSet(in.group[g])
       /\ \A e \in Edge : LET ratio == InitRatios(in, MaxUsedEdges(in), e)
                          IN  \A x \in DOMAIN ratio : ratio[x] <= MaxTdm
  /\ \A t \in 2 .. MaxTdm : t % 2 = 0 => Scale % t = 0
  /\ MaxTdm * MaxTdm * (NetNum + MaxTdm) * Scale < 1000000

VARIABLES
  input,          \* edges of each net's tree, nets of each group
  maxUsedEdges,   \* _maxUsedEdges[net]
  passing,        \* _passing_trees[edge]: ratio of each net on the edge
  groupTdm,       \* _group_TDMs, by group
  plan,           \* ordered_pst of each edge: [net, tdm]
  n,              \* number of leading nets of the plan that are level
  k,              \* position of the incremental refinement
  edgePc,         \* progress of the parallel iteration of each edge
  tdm,            \* the ratios topologyMgr keeps
  pc

vars == <<input, maxUsedEdges, passing, groupTdm, plan, n, k, edgePc, tdm, pc>>

Init ==
  /\ input \in Inputs
  /\ maxUsedEdges = [x \in Net |-> 0]
  /\ passing = [e \in Edge |-> <<>>]
  /\ groupTdm = [g \in Group |-> 0]
  /\ plan = [e \in Edge |-> <<>>]
  /\ n = [e \in Edge |-> 1]
  /\ k = [e \in Edge |-> 1]
  /\ edgePc = [e \in Edge |-> "todo"]
  /\ tdm = [e \in Edge |-> [x \in Net |-> 0]]
  /\ pc = "weights"

-----------------------------------------------------------------------------
(* The constructor.                                                        *)

CalcWeights ==
  /\ pc = "weights"
  /\ maxUsedEdges' = MaxUsedEdges(input)
  /\ passing' = [e \in Edge |-> [x \in PassingNets(input, e) |-> 0]]
  /\ pc' = "init"
  /\ UNCHANGED <<input, groupTdm, plan, n, k, edgePc, tdm>>

-----------------------------------------------------------------------------
(* initTDM()                                                               *)

InitEdge(e) ==
  /\ pc = "init"
  /\ edgePc[e] = "todo"
  /\ passing' = [passing EXCEPT ![e] = InitRatios(input, maxUsedEdges, e)]
  /\ edgePc' = [edgePc EXCEPT ![e] = "done"]
  /\ UNCHANGED <<input, maxUsedEdges, groupTdm, plan, n, k, tdm, pc>>

AllEdges(label) == \A e \in Edge : edgePc[e] = label

\* The option TDMrefinement decides whether round() follows.
SkipRefinement ==
  /\ pc = "init"
  /\ AllEdges("done")
  /\ pc' = "apply"
  /\ UNCHANGED <<input, maxUsedEdges, passing, groupTdm, plan, n, k, edgePc, tdm>>

-----------------------------------------------------------------------------
(* round()                                                                 *)

NetTdm == [x \in Net |-> SumFunction([e \in input.tree[x] |-> passing[e][x]])]

CalcGroupTDM ==
  /\ pc = "init"
  /\ AllEdges("done")
  /\ groupTdm' = [g \in Group |-> SumOfGroup(input, NetTdm, g)]
  /\ edgePc' = [e \in Edge |-> "todo"]
  /\ pc' = "round"
  /\ UNCHANGED <<input, maxUsedEdges, passing, plan, n, k, tdm>>

MaxGroupTdm(x) == MaxOfGroups(input, groupTdm, x)

\* _group_TDMs[2] after sorting.
RoundingThreshold == SortSeq(groupTdm, >)[3]

\* Every net may be lowered (for mutation only).
AllHeavy(e) == DOMAIN passing[e]

\* The nets of the edge that the refinement may lower.
Heavy(e) == {x \in DOMAIN passing[e] : MaxGroupTdm(x) >= RoundingThreshold}

RatioSum(ratio) == SumFunction([x \in DOMAIN ratio |-> Scale \div ratio[x]])

\* The greater ratio first, then the greater net id.
ByRatio(a, b) == a.tdm > b.tdm \/ (a.tdm = b.tdm /\ a.net > b.net)

SkipEdge(e) ==
  /\ pc = "round"
  /\ edgePc[e] = "todo"
  /\ \/ RatioSum(passing[e]) >= Scale
     \/ Cardinality(DOMAIN passing[e]) < 2
     \/ Heavy(e) = {}
  /\ edgePc' = [edgePc EXCEPT ![e] = "done"]
  /\ UNCHANGED <<input, maxUsedEdges, passing, groupTdm, plan, n, k, tdm, pc>>

\* The nets of the edge that may be lowered, as copied from the table.
HeavyList(e) ==
  [i \in 1 .. Cardinality(Heavy(e)) |->
     LET x == Ascending(Heavy(e))[i] IN [net |-> x, tdm |-> passing[e][x]]]

SortHeavy(e) ==
  /\ pc = "round"
  /\ edgePc[e] = "todo"
  /\ RatioSum(passing[e]) < Scale
  /\ Cardinality(DOMAIN passing[e]) >= 2
  /\ Heavy(e) # {}
  /\ \E p \in Sorted(HeavyList(e), ByRatio) : plan' = [plan EXCEPT ![e] = p]
  /\ edgePc' = [edgePc EXCEPT ![e] = "loop"]
  /\ UNCHANGED <<input, maxUsedEdges, passing, groupTdm, n, k, tdm, pc>>

\* The ratios of an edge with those of plan p in place of its nets'.
Overlay(ratio, p) ==
  [x \in DOMAIN ratio |->
     IF \E i \in DOMAIN p : p[i].net = x
     THEN p[CHOOSE i \in DOMAIN p : p[i].net = x].tdm
     ELSE ratio[x]]

\* Each update of margin and of _tdmSum is the difference of the reciprocals.
Margin(e) == Scale - RatioSum(Overlay(passing[e], plan[e]))

-----------------------------------------------------------------------------
(* while ( margin > 0 ): the loop is left by break only.                   *)

BreakAtTwo(e) ==
  /\ edgePc[e] = "loop"
  /\ plan[e][1].tdm = 2
  /\ edgePc' = [edgePc EXCEPT ![e] = "refine"]
  /\ UNCHANGED <<input, maxUsedEdges, passing, groupTdm, plan, n, k, tdm, pc>>

\* n stays where it is (for mutation only).
LevelSizeStuck(e) == n[e]

\* n moves on over the nets that are level with the first.
LevelSize(e) ==
  LET p == plan[e]
  IN  Min({m \in n[e] .. Len(p) : m = Len(p) \/ p[m + 1].tdm # p[1].tdm})

\* decrement = Numerator / Denominator would use the margin up.
Numerator(e)   == plan[e][1].tdm * plan[e][1].tdm * Margin(e)
Denominator(e) == LevelSize(e) * Scale + plan[e][1].tdm * Margin(e)

\* decrement > x_star
ReachesNext(e) ==
  /\ LevelSize(e) < Len(plan[e])
  /\ Numerator(e) > (plan[e][LevelSize(e)].tdm - plan[e][LevelSize(e) + 1].tdm) * Denominator(e)

SetLeaders(e, ratio) ==
  [plan EXCEPT ![e] = [i \in DOMAIN @ |-> IF i <= LevelSize(e) THEN [@[i] EXCEPT !.tdm = ratio] ELSE @[i]]]

LevelWithNext(e) ==
  /\ edgePc[e] = "loop"
  /\ plan[e][1].tdm # 2
  /\ ReachesNext(e)
  /\ plan' = SetLeaders(e, plan[e][LevelSize(e) + 1].tdm)
  /\ n' = [n EXCEPT ![e] = LevelSize(e)]
  /\ UNCHANGED <<input, maxUsedEdges, passing, groupTdm, k, edgePc, tdm, pc>>

\* The decrement is made even one step too low (for mutation only).
EvenDecrementLess(e) == LET f == (Numerator(e) - 1) \div Denominator(e) IN IF f < 2 THEN 0 ELSE f - (f % 2) - 2

\* floor(decrement) made even; TOL keeps an integral quotient below itself.
EvenDecrement(e) == LET f == (Numerator(e) - 1) \div Denominator(e) IN f - (f % 2)

LowerLevel(e) ==
  /\ edgePc[e] = "loop"
  /\ plan[e][1].tdm # 2
  /\ ~ReachesNext(e)
  /\ plan' = SetLeaders(e, plan[e][1].tdm - EvenDecrement(e))
  /\ n' = [n EXCEPT ![e] = LevelSize(e)]
  /\ edgePc' = [edgePc EXCEPT ![e] = "refine"]
  /\ UNCHANGED <<input, maxUsedEdges, passing, groupTdm, k, tdm, pc>>

-----------------------------------------------------------------------------
(* Incremental refinement.                                                 *)

LoweredAt(e) == [plan[e] EXCEPT ![k[e]].tdm = @ - 2]

\* newtdm = 0 makes the sum infinite.
CanLower(e) ==
  /\ plan[e][k[e]].tdm > 2
  /\ RatioSum(Overlay(passing[e], LoweredAt(e))) < Scale

Refining(e) ==
  /\ edgePc[e] = "refine"
  /\ k[e] > 1 \/ plan[e][1].tdm # 2
  /\ k[e] <= Len(plan[e])

RefineNext(e) ==
  /\ Refining(e)
  /\ CanLower(e)
  /\ plan' = [plan EXCEPT ![e] = LoweredAt(e)]
  /\ k' = [k EXCEPT ![e] = @ + 1]
  /\ UNCHANGED <<input, maxUsedEdges, passing, groupTdm, n, edgePc, tdm, pc>>

\* The lowered ratio is written although it does not fit (for mutation only).
StopRatioLowered(e) == IF plan[e][k[e]].tdm > 2 THEN plan[e][k[e]].tdm - 2 ELSE 2

StopRatio(e) == plan[e][k[e]].tdm

\* The first net that cannot be lowered any more stops the refinement.  It is the
\* only one whose planned ratio is written back.
WriteStop(e) ==
  /\ Refining(e)
  /\ ~CanLower(e)
  /\ passing' = [passing EXCEPT ![e][plan[e][k[e]].net] = StopRatio(e)]
  /\ edgePc' = [edgePc EXCEPT ![e] = "done"]
  /\ UNCHANGED <<input, maxUsedEdges, groupTdm, plan, n, k, tdm, pc>>

\* Nothing is written when no net stops the refinement.
EndRefine(e) ==
  /\ edgePc[e] = "refine"
  /\ ~Refining(e)
  /\ edgePc' = [edgePc EXCEPT ![e] = "done"]
  /\ UNCHANGED <<input, maxUsedEdges, passing, groupTdm, plan, n, k, tdm, pc>>

EndRound ==
  /\ pc = "round"
  /\ AllEdges("done")
  /\ pc' = "apply"
  /\ UNCHANGED <<input, maxUsedEdges, passing, groupTdm, plan, n, k, edgePc, tdm>>

\* apply(): topologyMgr::add_TDM for every net of every edge.
Apply ==
  /\ pc = "apply"
  /\ tdm' = [e \in Edge |->
             [x \in Net |-> IF x \in DOMAIN passing[e] THEN passing[e][x] ELSE tdm[e][x]]]
  /\ pc' = "done"
  /\ UNCHANGED <<input, maxUsedEdges, passing, groupTdm, plan, n, k, edgePc>>

Done == pc = "done" /\ UNCHANGED vars

RoundEdge(e) ==
  \/ SkipEdge(e) \/ SortHeavy(e)
  \/ BreakAtTwo(e) \/ LevelWithNext(e) \/ LowerLevel(e)
  \/ RefineNext(e) \/ WriteStop(e) \/ EndRefine(e)

Next ==
  \/ CalcWeights \/ SkipRefinement \/ CalcGroupTDM \/ EndRound \/ Apply
  \/ \E e \in Edge : InitEdge(e) \/ RoundEdge(e)
  \/ Done

\* The threads of a parallel loop keep running as long as one has work.
Spec == Init /\ [][Next]_vars /\ WF_vars(Next)

-----------------------------------------------------------------------------
(* Properties.                                                             *)

Assigned(e) == pc \in {"round", "apply", "done"} \/ (pc = "init" /\ edgePc[e] = "done")

\* Types; the weight initTDM divides by is never 0 for a net on an edge; ratios
\* are even numbers from 2 to MaxTdm, also those topologyMgr ends up with.
TypeOK ==
  /\ pc \in {"weights", "init", "round", "apply", "done"}
  /\ pc # "weights" => \A x \in Net : input.tree[x] # {} => maxUsedEdges[x] > 0
  /\ \A e \in Edge :
       /\ edgePc[e] \in {"todo", "loop", "refine", "done"}
       /\ k[e] \in 1 .. Len(plan[e]) + 1
       /\ n[e] \in 1 .. Len(plan[e]) + 1
       /\ Assigned(e) => \A x \in PassingNets(input, e) :
            passing[e][x] \in 2 .. MaxTdm /\ passing[e][x] % 2 = 0
       /\ pc = "done" => \A x \in Net : tdm[e][x] = IF e \in input.tree[x] THEN passing[e][x] ELSE 0

\* The constraint of the problem: the reciprocals of the ratios of an edge add up
\* to at most 1, from initTDM() to the end.  A plan always leaves margin (the
\* loop needs it) and never gives a net a larger ratio than it has.  Ratios are even, and no weight
\* that is divided by is 0.
RatioConstraint ==
  /\ TypeOK
  /\ \A e \in Edge :
       /\ Assigned(e) => RatioSum(passing[e]) <= Scale
       /\ edgePc[e] \in {"loop", "refine"} =>
            /\ Margin(e) > 0
            /\ \A i \in DOMAIN plan[e] : plan[e][i].tdm <= passing[e][plan[e][i].net]

\* What the refinement of round() comes to, after all the decrements of its plan:
\* at most one ratio of an edge differs from the one initTDM() gave, it is lower,
\* and its net "belongs to a group with TDM-sum" of at least the threshold
\* (TDM_heuristic.cpp:124).
LowersOneHeavyNet ==
  \A e \in Edge : pc \in {"round", "apply", "done"} =>
    LET first == InitRatios(input, maxUsedEdges, e)
        lowered == {x \in DOMAIN passing[e] : passing[e][x] # first[x]}
    IN  /\ Cardinality(lowered) <= 1
        /\ \A x \in lowered : passing[e][x] < first[x] /\ MaxGroupTdm(x) >= RoundingThreshold

\* The refinement never gets past the nets the loop left level with the first: if
\* all of them could come down by 2, the last decrement would have been larger.  So
\* a refinement that starts always stops at a net, and its loop never runs out.
StopsAtLeader == \A e \in Edge : edgePc[e] = "refine" => k[e] <= n[e]

\* assign_TDM() returns: the loop of every edge runs into one of its breaks.
EventuallyDone == <>(pc = "done")
=============================================================================
