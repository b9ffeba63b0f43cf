---------------------------- MODULE LrOptimizer ----------------------------
(***************************************************************************)
(* LR: the Lagrangian relaxation around TdmRound.  Multipliers of the      *)
(* groups give every net a weight, the weights share every edge out        *)
(* (calcCauchy), the group sums found through _sigmas move the multipliers *)
(* (updateLambdaNG), until the gap closes or the limit is reached; then    *)
(* the ratios are legalised and handed to topologyMgr.                     *)
(*                                                                         *)
(* Of a multiplier only matters whether it is 0, which it may become by    *)
(* underflow.  _lambdaT[n] is given by its square root, an integer; ratios *)
(* are then exact in units of 1/Scale.  Of a sample only its age matters.  *)
(* Values carry the iteration they come from in `made'.                    *)
(***************************************************************************)
EXTENDS Lists

CONSTANTS
  Net, Edge,     \* net ids and edge ids, integers
  Inputs,        \* [tree: Net -> set of edges, group: sequence of net sequences]
  Limit,         \* 500: the loop goes round at most Limit + 1 times
  Window,        \* _window_size, and the literal 10 of calcZ
  MaxWeight,     \* bound of the model: largest square root of a multiplier sum
  Scale,         \* a multiple of every weight
  EvenTdm,       \* bound of the model: ratios that round() may leave
  UIntSize       \* 2^32: numbers that fit UI

ASSUME LrAssumption ==
  /\ Net \subseteq Nat /\ IsFiniteSet(Net)
  /\ Edge \subseteq Nat /\ IsFiniteSet(Edge)
  /\ Inputs \subseteq [tree : [Net -> SUBSET Edge], group : Seq(Seq(Net))]
  /\ Limit \in Nat /\ Window \in Nat \ {0}
  /\ MaxWeight \in Nat /\ Scale \in Nat \ {0}
  /\ \A w \in 1 .. MaxWeight : Scale % w = 0
  /\ \A t \in EvenTdm : t \in Nat /\ t % 2 = 0 /\ t >= 2
  /\ UIntSize \in Nat \ {0}

VARIABLES
  input,         \* trees with their passing flags, and the groups
  iteration,     \* _iteration
  lambda,        \* lambda[g]: _lambdaNG[g] is not 0 (NaN is not)
  lambdaT,       \* sqrt(_lambdaT[n])
  patterns,      \* _patterns[e]: [net, tdm], tdm in units of 1/Scale
  sigmas,        \* _sigmas[g]: <<edge, index into patterns[edge]>>
  sums,          \* _netGroupTDMs
  samples,       \* _samples_GTDM: 0 for 0.0, else 1 + the iteration it is of
  made,          \* iteration of the multipliers each table was made from
  table,         \* ratios in topologyMgr::_passingTrees
  pc

vars == <<input, iteration, lambda, lambdaT, patterns, sigmas, sums, samples,
          made, table, pc>>

Gid == DOMAIN input.group
NetgroupsOf(n) == {g \in Gid : n \in ToSet(input.group[g])}
Passing(e) == {n \in Net : e \in input.tree[n]}

Init ==
  /\ input \in Inputs
  /\ iteration = 0
  /\ lambda = [g \in Gid |-> TRUE]
  /\ lambdaT = [n \in Net |-> 0]
  /\ patterns = [e \in Edge |-> <<>>]
  /\ sigmas = [g \in Gid |-> <<>>]
  /\ sums = [g \in Gid |-> 0]
  /\ samples = [g \in Gid |-> [slot \in 0 .. Window - 1 |-> 0]]
  /\ made = [lambda |-> 0, lambdaT |-> -1, patterns |-> -1, bound |-> -1, sums |-> -1]
  /\ table = [e \in Edge |-> [n \in Net |-> 0]]
  /\ pc = "lambdaT"

-----------------------------------------------------------------------------
\* A product of the multipliers instead of their sum (for mutation only).
WeightlessFactor(n) == \E g \in NetgroupsOf(n) : ~lambda[g]

\* The sum of the multipliers of the groups of n is 0.
Weightless(n) == \A g \in NetgroupsOf(n) : ~lambda[g]

\* initVecs() indexes the patterns before it fills them for the first time.
AfterLambdaT == IF iteration = 0 THEN "index" ELSE "cauchy"

\* The assertion on _lambdaT stops the program.
CalcLambdaT ==
  /\ pc = "lambdaT"
  /\ lambdaT' \in {w \in [Net -> 0 .. MaxWeight] : \A n \in Net : w[n] = 0 <=> Weightless(n)}
  /\ made' = [made EXCEPT !.lambdaT = made.lambda]
  /\ pc' = IF \E n \in Net : lambdaT'[n] = 0 THEN "aborted" ELSE AfterLambdaT
  /\ UNCHANGED <<input, iteration, lambda, patterns, sigmas, sums, samples, table>>

\* The size of the whole list for every net (for mutation only).
EdgeTreeIDsLast(n, e) == Cardinality(Passing(e))

\* edgeTreeIDs[n][e]: the nets of an edge are entered in the order of their ids.
EdgeTreeIDs(n, e) == Rank(Passing(e), n)

InitSigmasAndPatterns ==
  /\ pc = "index"
  /\ patterns' = [e \in Edge |->
       [i \in 1 .. Cardinality(Passing(e)) |-> [net |-> Ascending(Passing(e))[i], tdm |-> 0]]]
  /\ sigmas' = [g \in Gid |-> FlattenSeq([i \in DOMAIN input.group[g] |->
       LET n == input.group[g][i]
           edges == Ascending(input.tree[n])
       IN  [j \in DOMAIN edges |-> <<edges[j], EdgeTreeIDs(n, edges[j])>>]])]
  /\ pc' = "cauchy"
  /\ UNCHANGED <<input, iteration, lambda, lambdaT, sums, samples, made, table>>

\* tdm = nominator / sqrt(_lambdaT): the reciprocals on an edge add up to 1.
CalcCauchy ==
  /\ pc = "cauchy"
  /\ patterns' = [e \in Edge |-> [i \in DOMAIN patterns[e] |->
       LET nominator == SumFunction([j \in DOMAIN patterns[e] |-> lambdaT[patterns[e][j].net]])
       IN  [patterns[e][i] EXCEPT !.tdm = (Scale * nominator) \div lambdaT[patterns[e][i].net]]]]
  /\ made' = [made EXCEPT !.patterns = made.lambdaT, !.bound = made.lambdaT]
  /\ pc' = "z"
  /\ UNCHANGED <<input, iteration, lambda, lambdaT, sigmas, sums, samples, table>>

ThroughSigmas(p) == [g \in Gid |->
  SumFunction([i \in DOMAIN sigmas[g] |-> p[sigmas[g][i][1]][sigmas[g][i][2]].tdm])]

Z(s) == Max(Range(s))

\* Without a ring the slots after the last stay empty (for mutation only).
SlotSaturated == IF iteration < Window THEN iteration ELSE Window - 1

Slot == iteration % Window

\* calcZ without its loop position: the sums of p and a sample of every group.
\* 0/0 is NaN and thereby not an empty slot; no price is so high that a positive
\* sum over it is 0.0.
RecordSums(p) ==
  /\ sums' = ThroughSigmas(p)
  /\ samples' = [g \in Gid |-> [samples[g] EXCEPT ![Slot] =
       IF sums'[g] = 0 /\ Z(sums') # 0 THEN 0 ELSE iteration + 1]]

CalcZ ==
  /\ pc = "z"
  /\ RecordSums(patterns)
  /\ made' = [made EXCEPT !.sums = made.patterns]
  /\ pc' = IF iteration = 0 THEN "loop" ELSE "test"
  /\ UNCHANGED <<input, iteration, lambda, lambdaT, patterns, sigmas, table>>

\* calcLambdaT() is left out of the loop (for mutation only).
AfterUpdateCauchy == "cauchy"

AfterUpdate == "lambdaT"

\* The sample of a group is 0.0.
SampleIsZero(g) == sums[g] = 0 /\ Z(sums) # 0

\* The factor (sum/_z)^exponent, exponent between 1 and AMP + 1, is 1 for the
\* largest sum.  With a smaller one the product is 0.0 after enough steps; here it may
\* be at any.
\* (0/0 is NaN, and so is the product.)
MayVanish(g) == sums[g] < Z(sums)

\* A multiplier of 0.0 stays.  What does not vanish is divided by a sum of at most 1.
UpdateLambdaNG ==
  /\ pc = "loop"
  /\ iteration <= Limit
  /\ iteration' = iteration + 1
  /\ \E left \in SUBSET {g \in Gid : lambda[g] /\ ~SampleIsZero(g)} :
       /\ \A g \in Gid : lambda[g] /\ ~MayVanish(g) => g \in left
       /\ lambda' = [g \in Gid |-> g \in left]
       /\ pc' = IF left = {} THEN "undefined" ELSE AfterUpdate
  /\ made' = [made EXCEPT !.lambda = made.sums + 1]
  /\ UNCHANGED <<input, lambdaT, patterns, sigmas, sums, samples, table>>

Keep == UNCHANGED <<input, iteration, lambda, lambdaT, patterns, sigmas, sums, samples, made, table>>

\* The gap closes, or not: any outcome of the floating-point test but for NaN.
Converged == pc = "test" /\ Z(sums) # 0 /\ pc' = "ceil" /\ Keep
GoOn == pc = "test" /\ pc' = "loop" /\ Keep
LimitReached == pc = "loop" /\ iteration > Limit /\ pc' = "ceil" /\ Keep

-----------------------------------------------------------------------------
EvenCeil(tdm) == 2 * Scale * ((tdm + 2 * Scale - 1) \div (2 * Scale))

\* The ratios become even integers and calcZ runs once more.
TakeCeiling ==
  /\ pc = "ceil"
  /\ patterns' = [e \in Edge |-> [i \in DOMAIN patterns[e] |->
                    [patterns[e][i] EXCEPT !.tdm = EvenCeil(@)]]]
  /\ RecordSums(patterns')
  /\ pc' \in {"round", "apply"}
  /\ UNCHANGED <<input, iteration, lambda, lambdaT, sigmas, made, table>>

MaxGroupTDM(n) == Max({0} \cup {sums[g] : g \in NetgroupsOf(n)})

Before(x, y) ==
  \/ MaxGroupTDM(x.net) > MaxGroupTDM(y.net)
  \/ MaxGroupTDM(x.net) = MaxGroupTDM(y.net) /\ x.tdm > y.tdm

\* The reciprocals of t, in units of one over the product of t.
Product(t) == FoldFunction(LAMBDA x, y : x * y, 1, t)
Load(t) == SumFunction([i \in DOMAIN t |-> Product(t) \div t[i]])

\* What TdmRound makes of the ratios of an edge: even ratios within its capacity.
Legal(e) == {t \in [DOMAIN patterns[e] -> EvenTdm] : Load(t) <= Product(t)}

\* checkSum leaves no margin.
Full(e) ==
  LET t == [i \in DOMAIN patterns[e] |-> patterns[e][i].tdm \div Scale] IN Load(t) >= Product(t)

Orders(e) == Sorted(patterns[e], Before)

OnePerEdge(choices(_)) ==
  {f \in [Edge -> UNION {choices(e) : e \in Edge}] : \A e \in Edge : f[e] \in choices(e)}

\* round() sorts _patterns in place, except on full edges: _sigmas no longer finds
\* the nets.
Round ==
  /\ pc = "round"
  /\ \E t \in OnePerEdge(Legal), ordered \in OnePerEdge(Orders) :
       patterns' = [e \in Edge |-> IF Full(e) THEN patterns[e]
         ELSE [i \in DOMAIN patterns[e] |-> [ordered[e][i] EXCEPT !.tdm = Scale * t[e][i]]]]
  /\ pc' = "apply"
  /\ UNCHANGED <<input, iteration, lambda, lambdaT, sigmas, sums, samples, made, table>>

Places(e, n) == {i \in DOMAIN patterns[e] : patterns[e][i].net = n}
TdmOf(e, n) == patterns[e][Min(Places(e, n))].tdm

\* The rank of the id as if the list were still in that order (for mutation only).
RatioByRank(e, n) == patterns[e][EdgeTreeIDs(n, e)].tdm \div Scale

\* The cast to UI keeps the low bits of what does not fit.
RatioFor(e, n) == LET r == TdmOf(e, n) \div Scale IN IF r < UIntSize THEN r ELSE r % UIntSize

Apply ==
  /\ pc = "apply"
  /\ table' = [e \in Edge |-> [n \in Net |->
       IF Places(e, n) # {} THEN RatioFor(e, n) ELSE table[e][n]]]
  /\ pc' = "done"
  /\ UNCHANGED <<input, iteration, lambda, lambdaT, patterns, sigmas, sums, samples, made>>

Stopped == pc \in {"done", "aborted", "undefined"} /\ UNCHANGED vars

Next ==
  \/ CalcLambdaT \/ InitSigmasAndPatterns \/ CalcCauchy \/ CalcZ
  \/ UpdateLambdaNG \/ Converged \/ GoOn \/ LimitReached
  \/ TakeCeiling \/ Round \/ Apply \/ Stopped

Spec == Init /\ [][Next]_vars

-----------------------------------------------------------------------------
\* Whenever the group sums are read, by the multipliers, the stopping test or
\* the priorities of round(), they are what the trees and the membership
\* lists say: every mention of a net pays for every edge of its tree, with
\* the ratio that net has there now.
TotalsThroughSigmas == pc \in {"loop", "test", "round"} =>
  \A g \in Gid : sums[g] =
    SumFunction([i \in DOMAIN input.group[g] |->
      LET n == input.group[g][i]
      IN  SumFunction([e \in input.tree[n] |-> TdmOf(e, n)])])

\* The stopping test compares sums and a lower bound of the same multipliers,
\* those of the current iteration, and the next multipliers are a step from
\* those the sums were made from.
GapOfOneMultiplier ==
  /\ pc \in {"test", "loop"} => made.sums = iteration /\ made.lambda = iteration
  /\ pc = "test" => made.bound = made.sums

\* The samples before the first empty slot.
Sampled(g) == {samples[g][s] : s \in {s \in 0 .. Window - 1 :
                                        \A r \in 0 .. s : samples[g][r] # 0}}

\* The mean a step of the multipliers is scaled with is over the latest
\* iterations, as many as the window holds or as there were: the search for
\* the first 0.0 skips none, and no older one survives.
WindowIsRecent == pc = "loop" =>
  \A g \in Gid : ~SampleIsZero(g) =>
    Sampled(g) = {i + 1 : i \in Max({0, iteration - Window + 1}) .. iteration}

\* No group of the net has an edge.
Unpriced(n) == \A g \in NetgroupsOf(n) : \A m \in ToSet(input.group[g]) : input.tree[m] = {}

\* Group g mentions every net at least as often as any other group does.
Mentions(g, n) == Cardinality({i \in DOMAIN input.group[g] : input.group[g][i] = n})
Dominant(g) == \A h \in Gid, n \in Net : Mentions(h, n) <= Mentions(g, n)

\* Whatever the floating-point numbers do, a dominant group keeps its multiplier:
\* the assertion on _lambdaT stops the program only if a net has no such group, and
\* all multipliers vanish, which makes NaNs of the ratios, only if there is none.
\* No net without an edge in its groups gets past the assertion, unless no net has
\* an edge and NaNs let all pass.
StopsWithoutDominantGroup ==
  /\ pc = "aborted" => \E n \in Net : \A g \in NetgroupsOf(n) : ~Dominant(g)
  /\ pc = "undefined" => \A g \in Gid : ~Dominant(g)
  /\ pc = "done" => \/ \A n \in Net : ~Unpriced(n)
                   \/ \A n \in Net : input.tree[n] = {} /\ NetgroupsOf(n) # {}

\* Every table has its shape.
TypeOK ==
  /\ input \in Inputs /\ iteration \in 0 .. Limit + 1
  /\ lambda \in [Gid -> BOOLEAN] /\ lambdaT \in [Net -> 0 .. MaxWeight]
  /\ \A e \in Edge : \A i \in DOMAIN patterns[e] : patterns[e][i].net \in Net
  /\ sums \in [Gid -> Nat] /\ table \in [Edge -> [Net -> Nat]]

\* At the end every net has, on every edge of its tree and nowhere else, an
\* even ratio, the one legalised for it although the entries of the edge
\* changed places meanwhile, if it fits UI; all tables kept their shape.
AppliedToOwner ==
  /\ TypeOK
  /\ pc = "done" => \A e \in Edge, n \in Net :
       IF n \in Passing(e)
         THEN TdmOf(e, n) < Scale * UIntSize =>
                table[e][n] > 0 /\ table[e][n] % 2 = 0 /\ table[e][n] * Scale = TdmOf(e, n)
         ELSE table[e][n] = 0
=============================================================================
