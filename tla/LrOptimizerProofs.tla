------------------------- MODULE LrOptimizerProofs -------------------------
(***************************************************************************)
(* The five properties of LrOptimizer, for any number of nets, edges,      *)
(* groups and iterations and any size of the window.                       *)
(*                                                                         *)
(* A group sum goes through _sigmas to places in _patterns, and it is the  *)
(* sum the trees and membership lists define as long as the nets of an     *)
(* edge stay in the order of their ids (Indexed); ratios are then positive *)
(* (Priced), so that a sum is 0 for the groups without edges alone, and the *)
(* sum of a dominant group is the largest.  From the input is then known   *)
(* which multipliers and samples are 0, and which multipliers never are    *)
(* (Weighed, InWindow).                                                    *)
(***************************************************************************)
EXTENDS LrOptimizer, SetFacts

\* All ways the loop can stand.
Steps == {"lambdaT", "index", "cauchy", "z", "loop", "test", "ceil", "round", "apply", "done", "aborted",
          "undefined"}

\* Before initVecs() has indexed the patterns.
Early == pc = "index" \/ (iteration = 0 /\ pc \in {"lambdaT", "aborted"})

Shapes ==
  /\ input \in Inputs /\ iteration \in 0 .. Limit + 1 /\ pc \in Steps
  /\ lambda \in [Gid -> BOOLEAN] /\ lambdaT \in [Net -> 0 .. MaxWeight]
  /\ patterns = [e \in Edge |-> patterns[e]]
  /\ sums \in [Gid -> Nat]
  /\ samples \in [Gid -> [0 .. Window - 1 -> Nat]]
  /\ made \in [lambda : Int, lambdaT : Int, patterns : Int, bound : Int, sums : Int]
  /\ pc = "index" => iteration = 0
  /\ pc \in {"test", "ceil", "round", "apply", "done"} => iteration >= 1

\* Every table is made from the multipliers of this iteration.
Fresh ==
  /\ pc \in {"lambdaT", "index", "cauchy", "z", "test", "loop"} => made.lambda = iteration
  /\ pc \in {"index", "cauchy", "z", "test", "loop"} => made.lambdaT = iteration
  /\ pc \in {"z", "test", "loop"} => made.patterns = iteration /\ made.bound = iteration
  /\ pc \in {"test", "loop"} => made.sums = iteration

\* What initVecs() enters in _sigmas.
EdgeList(n) == Ascending(input.tree[n])
NetEntries(n) == [j \in DOMAIN EdgeList(n) |-> <<EdgeList(n)[j], EdgeTreeIDs(n, EdgeList(n)[j])>>]
Entries(g) == FlattenSeq([i \in DOMAIN input.group[g] |-> NetEntries(input.group[g][i])])

\* An edge has an entry for every net that passes it, in the order of the ids up
\* to the sort of round().
Indexed ==
  /\ Early => \A e \in Edge : patterns[e] = <<>>
  /\ ~Early =>
       /\ sigmas = [g \in Gid |-> Entries(g)]
       /\ \A e \in Edge : patterns[e] \in [1 .. Cardinality(Passing(e)) -> [net : Net, tdm : Nat]]
       /\ pc \notin {"apply", "done"} =>
            \A e \in Edge : \A i \in DOMAIN patterns[e] : patterns[e][i].net = Ascending(Passing(e))[i]

EvenRatio(tdm) == tdm \div Scale > 0 /\ (tdm \div Scale) % 2 = 0 /\ tdm = Scale * (tdm \div Scale)

\* Weights and ratios are positive, and even after the ceiling; the sums are of these
\* ratios.
Priced ==
  /\ pc \notin {"lambdaT", "aborted"} => \A n \in Net : lambdaT[n] >= 1
  /\ pc \in {"z", "loop", "test", "ceil", "round"} =>
       \A e \in Edge : \A i \in DOMAIN patterns[e] : patterns[e][i].tdm >= 1
  /\ pc = "round" => \A e \in Edge : \A i \in DOMAIN patterns[e] : EvenRatio(patterns[e][i].tdm)
  /\ pc \in {"loop", "test", "round"} => sums = ThroughSigmas(patterns)

Edgeless(g) == \A m \in ToSet(input.group[g]) : input.tree[m] = {}
AllEdgeless == \A g \in Gid : Edgeless(g)

\* A group without edges loses its multiplier, a dominant one never does.
Weighed ==
  /\ \A g \in Gid : Dominant(g) => lambda[g]
  /\ iteration >= 1 => \A g \in Gid : lambda[g] /\ Edgeless(g) => AllEdgeless
  /\ pc \notin {"lambdaT", "aborted", "undefined"} => \A n \in Net : ~Weightless(n)
  /\ pc = "aborted" => \E n \in Net : Weightless(n)
  /\ pc = "undefined" => \A g \in Gid : ~lambda[g]

\* The latest iteration there is a sample of.
Recorded == IF pc \in {"loop", "test"} THEN iteration ELSE iteration - 1

\* The latest sample that belongs in slot s after iteration k.
Holds(s, value, k) ==
  \/ s > k /\ value = 0
  \/ value \in 1 .. k + 1 /\ value + Window > k + 1 /\ (value - 1) % Window = s

\* Every slot of the window holds its sample.
InWindow ==
  pc \in {"lambdaT", "index", "cauchy", "z", "loop", "test"} =>
    \A g \in Gid : (Edgeless(g) => AllEdgeless) =>
      \A s \in 0 .. Window - 1 : Holds(s, samples[g][s], Recorded)

\* The nets of an edge in some order.
Rearranged(e, s) ==
  /\ s \in [1 .. Cardinality(Passing(e)) -> [net : Net, tdm : Nat]]
  /\ [i \in DOMAIN s |-> s[i].net] \in Bijection(1 .. Cardinality(Passing(e)), Passing(e))

\* Legalised entries of an edge are those of its nets in some order.
Arranged ==
  pc \in {"apply", "done"} =>
    \A e \in Edge : /\ Rearranged(e, patterns[e])
                    /\ \A i \in DOMAIN patterns[e] : EvenRatio(patterns[e][i].tdm)

\* The table is filled at the end only.
Written ==
  /\ pc # "done" => table = [e \in Edge |-> [n \in Net |-> 0]]
  /\ pc = "done" => table = [e \in Edge |-> [n \in Net |->
                               IF Places(e, n) # {} THEN RatioFor(e, n) ELSE 0]]

IInv == Shapes /\ Fresh /\ Indexed /\ Priced /\ Weighed /\ InWindow /\ Arranged /\ Written

-----------------------------------------------------------------------------
(* Facts of the operators.                                                 *)

\* EvenCeil leaves an even number of units, and more than none.
LEMMA CeilingIsEven ==
  ASSUME NEW tdm \in Nat, tdm >= 1
  PROVE  EvenCeil(tdm) \in Nat /\ EvenCeil(tdm) >= 1 /\ EvenRatio(EvenCeil(tdm))
<1>1. Scale \in Nat \ {0}
  BY LrAssumption
<1> DEFINE c == (tdm + 2 * Scale - 1) \div (2 * Scale)
           t == 2 * c
<1>2. c \in Nat /\ c >= 1
  <2> DEFINE a == tdm + 2 * Scale - 1
             b == 2 * Scale
  <2>1. a \in Nat /\ b \in Nat \ {0} /\ b <= a
    BY <1>1
  <2> HIDE DEF a, b
  <2>2. a \div b \in Nat /\ a \div b >= 1
    BY <2>1
  <2> QED
    BY <2>2 DEF a, b
<1>3. EvenCeil(tdm) = 2 * Scale * c
  BY DEF EvenCeil
<1> HIDE DEF c
<1>4. 2 * Scale * c = Scale * t /\ t \in Nat /\ t % 2 = 0 /\ t > 0
  BY <1>1, <1>2
<1> HIDE DEF t
<1>5. (Scale * t) \div Scale = t /\ Scale * t \in Nat /\ Scale * t >= 1
  BY <1>1, <1>4
<1> QED
  BY <1>3, <1>4, <1>5 DEF EvenRatio

\* What an input is made of.
LEMMA InputType ==
  ASSUME input \in Inputs
  PROVE  /\ input.tree \in [Net -> SUBSET Edge] /\ input.group \in Seq(Seq(Net))
         /\ \A n \in Net : input.tree[n] \in SUBSET Nat /\ IsFiniteSet(input.tree[n])
         /\ \A e \in Edge : Passing(e) \in SUBSET Net /\ Passing(e) \in SUBSET Nat /\ IsFiniteSet(Passing(e))
         /\ IsFiniteSet(Gid)
<1>1. input.tree \in [Net -> SUBSET Edge] /\ input.group \in Seq(Seq(Net))
  BY LrAssumption
<1>2. Net \subseteq Nat /\ Edge \subseteq Nat /\ IsFiniteSet(Net) /\ IsFiniteSet(Edge)
  BY LrAssumption
<1>3. ASSUME NEW n \in Net PROVE input.tree[n] \in SUBSET Nat /\ IsFiniteSet(input.tree[n])
  <2>1. input.tree[n] \in SUBSET Edge
    BY <1>1
  <2> QED
    BY <1>2, <2>1, FS_Subset
<1>4. ASSUME NEW e \in Edge
      PROVE  Passing(e) \in SUBSET Net /\ Passing(e) \in SUBSET Nat /\ IsFiniteSet(Passing(e))
  <2>1. Passing(e) \in SUBSET Net
    BY DEF Passing
  <2> QED
    BY <1>2, <2>1, FS_Subset
<1>5. IsFiniteSet(Gid)
  <2>1. Gid = 1 .. Len(input.group) /\ Len(input.group) \in Nat
    BY <1>1 DEF Gid
  <2>2. IsFiniteSet(1 .. Len(input.group))
    BY <2>1, FS_Interval
  <2> QED
    BY <2>1, <2>2
<1> QED
  BY <1>1, <1>3, <1>4, <1>5

\* The patterns p have an entry for every net of an edge, in the order of the ids.
Ranked(p) == \A e \in Edge :
  /\ p[e] \in [1 .. Cardinality(Passing(e)) -> [net : Net, tdm : Nat]]
  /\ \A i \in DOMAIN p[e] : p[e][i].net = Ascending(Passing(e))[i]

\* What a net, and a group, pays by p.
Prices(p, n) == [e \in input.tree[n] |-> p[e][Rank(Passing(e), n)].tdm]
NetCost(p, n) == SumFunction(Prices(p, n))
GroupCost(p, g) == SumFunction([i \in DOMAIN input.group[g] |-> NetCost(p, input.group[g][i])])

\* A net finds itself by its rank on the edges of its tree.
LEMMA RankOfNet ==
  ASSUME input \in Inputs, NEW p, Ranked(p), NEW n \in Net, NEW e \in input.tree[n]
  PROVE  /\ e \in Edge /\ n \in Passing(e)
         /\ Rank(Passing(e), n) \in DOMAIN p[e]
         /\ p[e][Rank(Passing(e), n)].tdm \in Nat
         /\ \A i \in DOMAIN p[e] : p[e][i].net = n <=> i = Rank(Passing(e), n)
<1>1. e \in Edge /\ n \in Passing(e)
  BY InputType DEF Passing
<1> DEFINE S == Passing(e)
           r == Rank(S, n)
<1>2. S \in SUBSET Nat /\ IsFiniteSet(S) /\ n \in S
  BY <1>1, InputType
<1>3. r \in 1 .. Cardinality(S) /\ Ascending(S)[r] = n /\ \A i \in 1 .. Cardinality(S) : Rank(S, Ascending(S)[i]) = i
  <2> HIDE DEF S
  <2> QED
    BY <1>2, AscendingFacts
<1>4. DOMAIN p[e] = 1 .. Cardinality(S) /\ p[e] \in [1 .. Cardinality(S) -> [net : Net, tdm : Nat]]
  BY <1>1 DEF Ranked
<1>5. \A i \in DOMAIN p[e] : p[e][i].net = Ascending(S)[i]
  BY <1>1 DEF Ranked
<1>6. r \in DOMAIN p[e] /\ p[e][r].tdm \in Nat
  <2> HIDE DEF r, S
  <2> QED
    BY <1>3, <1>4
<1>7. \A i \in DOMAIN p[e] : p[e][i].net = n <=> i = r
  <2>1. ASSUME NEW i \in DOMAIN p[e], p[e][i].net = n PROVE i = r
    <3>1. Ascending(S)[i] = n /\ Rank(S, Ascending(S)[i]) = i
      BY <1>3, <1>4, <1>5, <2>1
    <3> QED
      BY <3>1
  <2>2. p[e][r].net = n
    BY <1>3, <1>5, <1>6
  <2> QED
    BY <2>1, <2>2
<1> QED
  BY <1>1, <1>6, <1>7

\* What a net pays is a natural number, 0 for a net without edges and no less than
\* any price.
LEMMA NetCostType ==
  ASSUME input \in Inputs, NEW p, Ranked(p), NEW n \in Net
  PROVE  /\ NetCost(p, n) \in Nat
         /\ Prices(p, n) \in [input.tree[n] -> Nat]
         /\ \A e \in input.tree[n] : Prices(p, n)[e] <= NetCost(p, n)
         /\ input.tree[n] = {} => NetCost(p, n) = 0
<1> DEFINE D == input.tree[n]
           f == Prices(p, n)
<1>1. IsFiniteSet(D) /\ f \in [D -> Nat]
  BY InputType, RankOfNet DEF Prices
<1>2. D = {} => \A e \in D : f[e] = 0
  OBVIOUS
<1>3. /\ SumFunction(f) \in Nat /\ \A e \in D : f[e] <= SumFunction(f)
      /\ (\A e \in D : f[e] = 0) => SumFunction(f) = 0
  <2> HIDE DEF D, f
  <2> QED
    BY <1>1, SumOfSetOfNats
<1> HIDE DEF f
<1> QED
  BY <1>1, <1>2, <1>3 DEF NetCost, f

\* What a group pays is a natural number, and 0 for the groups without edges alone
\* if every ratio is positive.
LEMMA GroupCostType ==
  ASSUME input \in Inputs, NEW p, Ranked(p), NEW g \in Gid
  PROVE  /\ GroupCost(p, g) \in Nat
         /\ Edgeless(g) => GroupCost(p, g) = 0
         /\ (\A e \in Edge : \A i \in DOMAIN p[e] : p[e][i].tdm >= 1) /\ GroupCost(p, g) = 0 => Edgeless(g)
<1> DEFINE s == input.group[g]
           q == [i \in DOMAIN s |-> NetCost(p, s[i])]
           m == Len(s)
<1>1. s \in Seq(Net) /\ m \in Nat /\ DOMAIN s = 1 .. m /\ \A i \in 1 .. m : s[i] \in Net
  BY InputType DEF Gid
<1> HIDE DEF s, m
<1>2. q \in [1 .. m -> Nat] /\ \A i \in 1 .. m : q[i] = NetCost(p, s[i])
  BY <1>1, NetCostType
<1>3. /\ SumFunction(q) \in Nat /\ \A i \in 1 .. m : q[i] <= SumFunction(q)
      /\ (\A i \in 1 .. m : q[i] = 0) => SumFunction(q) = 0
  <2> HIDE DEF q
  <2> QED
    BY ONLY <1>1, <1>2, SumOfNats
<1>4. GroupCost(p, g) = SumFunction(q)
  BY DEF GroupCost, s
<1> HIDE DEF q
<1>5. ToSet(s) = {s[i] : i \in 1 .. m}
  BY <1>1 DEF ToSet
<1>6. ASSUME Edgeless(g) PROVE GroupCost(p, g) = 0
  <2>1. \A i \in 1 .. m : input.tree[s[i]] = {}
    BY <1>5, <1>6 DEF Edgeless, s
  <2>2. \A i \in 1 .. m : q[i] = 0
    BY <1>1, <1>2, <2>1, NetCostType
  <2> QED
    BY <1>3, <1>4, <2>2
<1>7. ASSUME \A e \in Edge : \A i \in DOMAIN p[e] : p[e][i].tdm >= 1, GroupCost(p, g) = 0
      PROVE  Edgeless(g)
  <2>1. ASSUME NEW i \in 1 .. m, NEW e \in input.tree[s[i]] PROVE FALSE
    <3>1. s[i] \in Net /\ q[i] = 0
      BY <1>1, <1>2, <1>3, <1>4, <1>7
    <3>2. e \in Edge /\ Rank(Passing(e), s[i]) \in DOMAIN p[e]
      BY <2>1, <3>1, RankOfNet
    <3>3. Prices(p, s[i])[e] = p[e][Rank(Passing(e), s[i])].tdm
      BY <2>1 DEF Prices
    <3>4. Prices(p, s[i])[e] >= 1
      BY <1>7, <3>2, <3>3
    <3>5. Prices(p, s[i])[e] <= 0 /\ Prices(p, s[i])[e] \in Nat
      BY <1>2, <2>1, <3>1, NetCostType
    <3> QED
      BY <3>4, <3>5
  <2>2. \A i \in 1 .. m : input.tree[s[i]] = {}
    BY <2>1
  <2> QED
    BY <1>5, <2>2 DEF Edgeless, s
<1> QED
  BY <1>3, <1>4, <1>6, <1>7

\* The sum of a group through _sigmas is what the group pays.
LEMMA SumThroughSigmas ==
  ASSUME input \in Inputs, NEW p, Ranked(p), NEW g \in Gid
  PROVE  SumFunction([i \in DOMAIN Entries(g) |-> p[Entries(g)[i][1]][Entries(g)[i][2]].tdm]) = GroupCost(p, g)
<1> DEFINE s == input.group[g]
           m == Len(s)
           X == {x \in Edge \X Nat : x[2] \in DOMAIN p[x[1]]}
           f == [x \in X |-> p[x[1]][x[2]].tdm]
           ss == [i \in DOMAIN s |-> NetEntries(s[i])]
<1>1. s \in Seq(Net) /\ m \in Nat /\ DOMAIN s = 1 .. m /\ \A i \in 1 .. m : s[i] \in Net
  BY InputType DEF Gid
<1>2. f \in [X -> Int]
  <2>1. ASSUME NEW x \in X PROVE p[x[1]][x[2]].tdm \in Int
    <3>1. x[1] \in Edge /\ x[2] \in DOMAIN p[x[1]]
      OBVIOUS
    <3>2. p[x[1]] \in [1 .. Cardinality(Passing(x[1])) -> [net : Net, tdm : Nat]]
      BY <3>1 DEF Ranked
    <3> DEFINE e == x[1]
               i == x[2]
               c == Cardinality(Passing(e))
    <3>3. i \in DOMAIN p[e] /\ p[e] \in [1 .. c -> [net : Net, tdm : Nat]]
      BY <3>1, <3>2
    <3>4. p[e][i].tdm \in Nat
      <4> HIDE DEF e, i, c
      <4> QED
        BY ONLY <3>3
    <3> QED
      BY <3>4
  <2> HIDE DEF X
  <2> QED
    BY <2>1
<1>3. ASSUME NEW n \in Net
      PROVE  /\ NetEntries(n) \in Seq(X)
             /\ SumOver(f, NetEntries(n)) = NetCost(p, n)
  <2> DEFINE S == input.tree[n]
             k == Cardinality(S)
             a == Ascending(S)
             h == Prices(p, n)
             q == [j \in DOMAIN NetEntries(n) |-> f[NetEntries(n)[j]]]
  <2>1. k \in Nat /\ a \in Bijection(1 .. k, S)
    <3>1. S \in SUBSET Nat /\ IsFiniteSet(S)
      BY InputType
    <3> HIDE DEF S
    <3> QED
      BY <3>1, AscendingFacts
  <2>2. a \in [1 .. k -> S]
    <3> HIDE DEF a, k, S
    <3> QED
      BY <2>1 DEF Bijection, Injection
  <2>3. NetEntries(n) = [j \in 1 .. k |-> <<a[j], Rank(Passing(a[j]), n)>>]
    BY <2>2 DEF NetEntries, EdgeList, EdgeTreeIDs
  <2>4. ASSUME NEW j \in 1 .. k
        PROVE  /\ <<a[j], Rank(Passing(a[j]), n)>> \in X
               /\ f[<<a[j], Rank(Passing(a[j]), n)>>] = h[a[j]]
    <3> DEFINE e == a[j]
               r == Rank(Passing(e), n)
    <3>1. e \in S
      BY <2>2
    <3> HIDE DEF e
    <3>2. e \in Edge /\ n \in Passing(e) /\ r \in DOMAIN p[e]
      BY <3>1, RankOfNet
    <3>3. r \in Nat
      <4>1. DOMAIN p[e] = 1 .. Cardinality(Passing(e))
        BY <3>2 DEF Ranked
      <4> HIDE DEF r
      <4> QED
        BY <3>2, <4>1
    <3>4. h[e] = p[e][r].tdm
      BY <3>1 DEF Prices
    <3> HIDE DEF r, h
    <3>5. <<e, r>> \in X /\ f[<<e, r>>] = h[e]
      BY <3>2, <3>3, <3>4
    <3> QED
      BY <3>5 DEF e, r
  <2> HIDE DEF X, f
  <2>5. NetEntries(n) \in Seq(X)
    BY <2>1, <2>3, <2>4
  <2>6. q = [j \in 1 .. k |-> h[a[j]]]
    BY <2>3, <2>4
  <2>7. h \in [S -> Int]
    BY NetCostType
  <2>8. SumFunction(q) = SumFunction(h)
    <3> HIDE DEF q, h, a, k, S
    <3> QED
      BY ONLY <2>1, <2>6, <2>7, SumEnumerated
  <2> QED
    BY <2>5, <2>8 DEF NetCost, SumOver
<1>4. ss \in [1 .. m -> Seq(X)] /\ Entries(g) = FlattenSeq(ss)
  BY <1>1, <1>3 DEF Entries
<1> DEFINE F == FlattenSeq(ss)
           q == [k \in DOMAIN ss |-> SumOver(f, ss[k])]
<1>5. F \in Seq(X) /\ SumOver(f, F) = SumFunction(q)
  <2>1. ss \in Seq(Seq(X))
    BY <1>1, <1>4
  <2>2. FlattenSeq(ss) \in Seq(X) /\ SumOver(f, FlattenSeq(ss)) = SumOfSums(f, ss)
    <3> HIDE DEF ss, X, f
    <3> QED
      BY ONLY <1>2, <2>1, FlattenSums
  <2> QED
    BY <2>2 DEF SumOfSums
<1>6. q = [i \in DOMAIN s |-> NetCost(p, s[i])]
  <2>1. DOMAIN ss = DOMAIN s /\ \A k \in 1 .. m : ss[k] = NetEntries(s[k])
    BY <1>1
  <2> HIDE DEF ss, f, X, m, s
  <2> QED
    BY <1>1, <1>3, <2>1
<1>7. [i \in DOMAIN F |-> f[F[i]]] = [i \in DOMAIN F |-> p[F[i][1]][F[i][2]].tdm]
  <2>1. \A i \in DOMAIN F : F[i] \in X
    <3>1. F \in Seq(X)
      BY <1>5
    <3> HIDE DEF F, X
    <3> QED
      BY ONLY <3>1
  <2>2. \A x \in X : f[x] = p[x[1]][x[2]].tdm
    OBVIOUS
  <2> HIDE DEF F, X, f
  <2> QED
    BY <2>1, <2>2
<1> HIDE DEF F, q, f
<1> QED
  BY <1>4, <1>5, <1>6, <1>7 DEF GroupCost, F, s, SumOver

\* With the places of initVecs(), calcZ finds what the groups pay.
LEMMA SumsFound ==
  ASSUME input \in Inputs, NEW p, Ranked(p), sigmas = [g \in Gid |-> Entries(g)]
  PROVE  /\ ThroughSigmas(p) \in [Gid -> Nat]
         /\ \A g \in Gid : ThroughSigmas(p)[g] = GroupCost(p, g)
<1>1. ASSUME NEW g \in Gid PROVE ThroughSigmas(p)[g] = GroupCost(p, g) /\ GroupCost(p, g) \in Nat
  <2>1. sigmas[g] = Entries(g)
    OBVIOUS
  <2>2. ThroughSigmas(p)[g] =
          SumFunction([i \in DOMAIN Entries(g) |-> p[Entries(g)[i][1]][Entries(g)[i][2]].tdm])
    BY <2>1, Zenon DEF ThroughSigmas
  <2> QED
    BY <2>2, SumThroughSigmas, GroupCostType
<1>2. ThroughSigmas(p) = [g \in Gid |-> ThroughSigmas(p)[g]]
  BY DEF ThroughSigmas
<1> QED
  BY <1>1, <1>2

\* 0 in place of a sum is told from 0/0: it is a group without edges next to one
\* with some.
LEMMA ZeroSums ==
  ASSUME input \in Inputs, NEW p, Ranked(p), sigmas = [g \in Gid |-> Entries(g)],
         \A e \in Edge : \A i \in DOMAIN p[e] : p[e][i].tdm >= 1,
         NEW g \in Gid
  PROVE  (ThroughSigmas(p)[g] = 0 /\ Z(ThroughSigmas(p)) # 0) <=> (Edgeless(g) /\ ~AllEdgeless)
<1> DEFINE r == ThroughSigmas(p)
<1>1. r \in [Gid -> Nat] /\ \A h \in Gid : r[h] = GroupCost(p, h)
  BY SumsFound
<1>2. ASSUME NEW h \in Gid PROVE r[h] = 0 <=> Edgeless(h)
  BY <1>1, GroupCostType
<1> HIDE DEF r
<1>3. Z(r) # 0 <=> \E h \in Gid : r[h] # 0
  <2> DEFINE D == Gid
             max == Max(Range(r))
  <2>1. IsFiniteSet(D) /\ D # {} /\ r \in [D -> Nat]
    BY <1>1, InputType
  <2>2. max \in Nat /\ (\A x \in D : r[x] <= max) /\ \E x \in D : r[x] = max
    <3> HIDE DEF D
    <3> QED
      BY <2>1, MaxOfValues
  <2>3. Z(r) = max
    BY DEF Z
  <2> HIDE DEF max
  <2>4. ASSUME max # 0 PROVE \E h \in Gid : r[h] # 0
    BY <2>2, <2>4
  <2>5. ASSUME NEW h \in Gid, r[h] # 0 PROVE max # 0
    <3>1. r[h] \in Nat /\ r[h] <= max
      BY <1>1, <2>2
    <3> QED
      BY <2>2, <2>5, <3>1
  <2> QED
    BY <2>3, <2>4, <2>5
<1> QED
  BY <1>2, <1>3 DEF AllEdgeless, r

\* The places at which a group mentions a net.
Where(g, n) == {i \in DOMAIN input.group[g] : input.group[g][i] = n}

\* No group pays more than a dominant one: each mention of a net has one there.
LEMMA DominantPaysMost ==
  ASSUME input \in Inputs, NEW p, Ranked(p), NEW g \in Gid, Dominant(g), NEW h \in Gid
  PROVE  GroupCost(p, h) <= GroupCost(p, g)
<1> DEFINE a == input.group[g]
           b == input.group[h]
           l == Len(a)
           m == Len(b)
<1>1. /\ l \in Nat /\ DOMAIN a = 1 .. l /\ \A i \in 1 .. l : a[i] \in Net
      /\ m \in Nat /\ DOMAIN b = 1 .. m /\ \A i \in 1 .. m : b[i] \in Net
  <2>1. a \in Seq(Net) /\ b \in Seq(Net)
    BY InputType DEF Gid
  <2> HIDE DEF a, b
  <2> QED
    BY <2>1
<1>2. \A n : Where(g, n) = {i \in 1 .. l : a[i] = n} /\ Where(h, n) = {i \in 1 .. m : b[i] = n}
  BY <1>1 DEF Where
<1>3. \A n \in Net : Cardinality(Where(h, n)) <= Cardinality(Where(g, n))
  BY DEF Dominant, Mentions, Where
<1> HIDE DEF a, b, l, m
<1>4. ASSUME NEW n PROVE /\ Where(g, n) \in SUBSET Nat /\ IsFiniteSet(Where(g, n))
                         /\ Where(h, n) \in SUBSET Nat /\ IsFiniteSet(Where(h, n))
  <2>1. Where(g, n) \subseteq 1 .. l /\ Where(h, n) \subseteq 1 .. m
    BY <1>2
  <2> QED
    BY <1>1, <2>1, FS_Interval, FS_Subset
<1> DEFINE place(i) == Ascending(Where(g, b[i]))[Rank(Where(h, b[i]), i)]
           j == [i \in 1 .. m |-> place(i)]
<1>5. ASSUME NEW i \in 1 .. m
      PROVE  /\ place(i) \in 1 .. l /\ a[place(i)] = b[i]
             /\ \A k \in 1 .. m : place(k) = place(i) /\ b[k] = b[i] => k = i
  <2> DEFINE n == b[i]
             S == Where(g, n)
             T == Where(h, n)
             r == Rank(T, i)
  <2>1. n \in Net /\ i \in T /\ T \in SUBSET Nat /\ S \in SUBSET Nat
        /\ IsFiniteSet(S) /\ IsFiniteSet(T) /\ Cardinality(T) <= Cardinality(S)
    BY <1>1, <1>2, <1>3, <1>4
  <2>2. Cardinality(S) \in Nat /\ Cardinality(T) \in Nat
    BY <2>1, FS_CardinalityType
  <2> HIDE DEF S, T
  <2>3. Ascending(S) \in Bijection(1 .. Cardinality(S), S)
    BY <2>1, AscendingFacts
  <2>4. \A x \in T : Rank(T, x) \in 1 .. Cardinality(T) /\ Ascending(T)[Rank(T, x)] = x
    BY <2>1, AscendingFacts
  <2>5. /\ \A x \in 1 .. Cardinality(S) : Ascending(S)[x] \in S
        /\ \A x, y \in 1 .. Cardinality(S) : Ascending(S)[x] = Ascending(S)[y] => x = y
    <3> DEFINE f == Ascending(S)
               c == Cardinality(S)
    <3> HIDE DEF f, c
    <3>1. f \in Bijection(1 .. c, S)
      BY <2>3 DEF f, c
    <3>2. (\A x \in 1 .. c : f[x] \in S) /\ \A x, y \in 1 .. c : f[x] = f[y] => x = y
      BY <3>1 DEF Bijection, Injection, IsInjective
    <3> QED
      BY <3>2 DEF f, c
  <2>6. \A x \in T : Rank(T, x) \in 1 .. Cardinality(S)
    BY <2>1, <2>2, <2>4
  <2>7. place(i) = Ascending(S)[Rank(T, i)]
    BY DEF S, T
  <2>8. place(i) \in S
    BY <2>1, <2>5, <2>6, <2>7
  <2>9. place(i) \in 1 .. l /\ a[place(i)] = n
    <3> DEFINE x == place(i)
    <3> HIDE DEF x
    <3>1. x \in Where(g, n)
      BY <2>8 DEF x, S
    <3>2. x \in 1 .. l /\ a[x] = n
      BY <1>2, <3>1
    <3> QED
      BY <3>2 DEF x
  <2>10. ASSUME NEW k \in 1 .. m, place(k) = place(i), b[k] = n PROVE k = i
    <3>1. k \in T
      BY <1>2, <2>10 DEF T
    <3>2. place(k) = Ascending(S)[Rank(T, k)]
      BY <2>10 DEF S, T
    <3>3. Rank(T, k) = Rank(T, i)
      BY <2>1, <2>5, <2>6, <2>7, <2>10, <3>1, <3>2
    <3> QED
      BY <2>1, <2>4, <3>1, <3>3
  <2> QED
    BY <2>9, <2>10
<1>6. ASSUME NEW i \in 1 .. m, NEW k \in 1 .. m, place(k) = place(i) PROVE k = i
  <2>1. b[k] = b[i]
    BY <1>5, <1>6
  <2> QED
    BY <1>5, <1>6, <2>1
<1> HIDE DEF place
<1>7. j \in Injection(1 .. m, 1 .. l)
  <2>1. j \in [1 .. m -> 1 .. l] /\ \A i, k \in 1 .. m : j[i] = j[k] => i = k
    BY <1>5, <1>6
  <2> HIDE DEF j
  <2> QED
    BY <2>1 DEF Injection, IsInjective
<1> DEFINE f == [i \in 1 .. l |-> NetCost(p, a[i])]
           q == [i \in 1 .. m |-> NetCost(p, b[i])]
<1>8. f \in [1 .. l -> Nat]
  BY <1>1, NetCostType
<1>9. q = [i \in 1 .. m |-> f[j[i]]]
  <2>1. \A i \in 1 .. m : j[i] \in 1 .. l /\ a[j[i]] = b[i]
    BY <1>5
  <2> HIDE DEF j
  <2> QED
    BY <2>1
<1>10. GroupCost(p, g) = SumFunction(f) /\ GroupCost(p, h) = SumFunction(q)
  BY <1>1 DEF GroupCost, a, b
<1> HIDE DEF f, q, j
<1> QED
  BY <1>1, <1>7, <1>8, <1>9, <1>10, SumEmbedded

\* The sum of a dominant group is the largest.
LEMMA DominantSum ==
  ASSUME input \in Inputs, NEW p, Ranked(p), sigmas = [g \in Gid |-> Entries(g)],
         NEW g \in Gid, Dominant(g)
  PROVE  ThroughSigmas(p)[g] = Z(ThroughSigmas(p))
<1> DEFINE r == ThroughSigmas(p)
           D == Gid
           max == Max(Range(r))
<1>1. r \in [D -> Nat] /\ \A h \in D : r[h] = GroupCost(p, h)
  BY SumsFound
<1>2. \A h \in D : r[h] <= r[g]
  BY <1>1, DominantPaysMost
<1>3. IsFiniteSet(D) /\ D # {}
  BY InputType
<1>4. max \in Nat /\ (\A x \in D : r[x] <= max) /\ \E x \in D : r[x] = max
  <2> HIDE DEF D, r
  <2> QED
    BY <1>1, <1>3, MaxOfValues
<1> HIDE DEF r, max
<1>5. r[g] = max
  <2>1. r[g] \in Nat /\ r[g] <= max
    BY <1>1, <1>4
  <2>2. PICK x \in D : r[x] = max
    BY <1>4
  <2>3. max <= r[g]
    BY <1>2, <2>2
  <2> QED
    BY <1>4, <2>1, <2>3
<1> QED
  BY <1>5 DEF r, max, Z

\* What depends on the input alone stays.
LEMMA InputKept ==
  ASSUME input' = input
  PROVE  /\ Gid' = Gid /\ AllEdgeless' = AllEdgeless
         /\ \A e : Passing(e)' = Passing(e)
         /\ \A n : NetgroupsOf(n)' = NetgroupsOf(n)
         /\ \A g : Entries(g)' = Entries(g) /\ Edgeless(g)' = Edgeless(g) /\ Dominant(g)' = Dominant(g)
<1>1. \A e : Passing(e)' = Passing(e)
  BY DEF Passing
<1>2. \A n, e : EdgeTreeIDs(n, e)' = EdgeTreeIDs(n, e)
  BY <1>1 DEF EdgeTreeIDs
<1>3. \A n : NetEntries(n)' = NetEntries(n)
  BY <1>2 DEF NetEntries, EdgeList
<1>4. \A g : Entries(g)' = Entries(g)
  BY <1>3 DEF Entries
<1>5. Gid' = Gid /\ \A g : Edgeless(g)' = Edgeless(g) /\ Dominant(g)' = Dominant(g)
  BY DEF Gid, Edgeless, Dominant, Mentions
<1>6. AllEdgeless' = AllEdgeless
  BY <1>5 DEF AllEdgeless
<1>7. \A n : NetgroupsOf(n)' = NetgroupsOf(n)
  BY <1>5 DEF NetgroupsOf
<1> QED
  BY <1>1, <1>4, <1>5, <1>6, <1>7

-----------------------------------------------------------------------------
(* What the actions do with the patterns.                                  *)

\* The patterns in the order of the ids, as the invariant has them.
LEMMA PatternsRanked ==
  ASSUME IInv, ~Early, pc \notin {"apply", "done"}
  PROVE  /\ input \in Inputs /\ Ranked(patterns) /\ sigmas = [g \in Gid |-> Entries(g)]
         /\ \A e \in Edge : /\ Cardinality(Passing(e)) \in Nat
                            /\ DOMAIN patterns[e] = 1 .. Cardinality(Passing(e))
<1>1. input \in Inputs
  BY DEF IInv, Shapes
<1>2. Ranked(patterns) /\ sigmas = [g \in Gid |-> Entries(g)]
  BY DEF IInv, Indexed, Ranked
<1>3. ASSUME NEW e \in Edge
      PROVE  Cardinality(Passing(e)) \in Nat /\ DOMAIN patterns[e] = 1 .. Cardinality(Passing(e))
  <2>1. IsFiniteSet(Passing(e))
    BY <1>1, InputType
  <2>2. Cardinality(Passing(e)) \in Nat
    BY <2>1, FS_CardinalityType
  <2>3. DOMAIN patterns[e] = 1 .. Cardinality(Passing(e))
    BY <1>2 DEF Ranked
  <2> QED
    BY <2>2, <2>3
<1> QED
  BY <1>1, <1>2, <1>3

\* Other ratios for the same nets leave the order as it is.
LEMMA Repriced ==
  ASSUME input \in Inputs, NEW p, NEW q, Ranked(p),
         \A e \in Edge : DOMAIN q[e] = DOMAIN p[e] /\ q[e] = [i \in DOMAIN p[e] |-> q[e][i]],
         \A e \in Edge : \A i \in DOMAIN p[e] :
           q[e][i] = [net |-> p[e][i].net, tdm |-> q[e][i].tdm] /\ q[e][i].tdm \in Nat
  PROVE  Ranked(q)
<1> SUFFICES ASSUME NEW e \in Edge
             PROVE  /\ q[e] \in [1 .. Cardinality(Passing(e)) -> [net : Net, tdm : Nat]]
                    /\ \A i \in DOMAIN q[e] : q[e][i].net = Ascending(Passing(e))[i]
  BY DEF Ranked
<1> DEFINE m == Cardinality(Passing(e))
<1>1. /\ p[e] \in [1 .. m -> [net : Net, tdm : Nat]]
      /\ \A i \in DOMAIN p[e] : p[e][i].net = Ascending(Passing(e))[i]
  BY DEF Ranked
<1> HIDE DEF m
<1>2. DOMAIN q[e] = 1 .. m /\ q[e] = [i \in 1 .. m |-> q[e][i]]
  BY <1>1
<1>3. ASSUME NEW i \in 1 .. m PROVE q[e][i] \in [net : Net, tdm : Nat] /\ q[e][i].net = p[e][i].net
  <2>1. q[e][i] = [net |-> p[e][i].net, tdm |-> q[e][i].tdm] /\ q[e][i].tdm \in Nat
    BY <1>1
  <2>2. p[e][i].net \in Net
    BY <1>1
  <2> DEFINE t == q[e][i].tdm
             k == p[e][i].net
  <2> HIDE DEF t, k
  <2>3. q[e][i] = [net |-> k, tdm |-> t] /\ t \in Nat /\ k \in Net
    BY <2>1, <2>2 DEF t, k
  <2>4. q[e][i] \in [net : Net, tdm : Nat] /\ q[e][i].net = k
    BY <2>3
  <2> QED
    BY <2>4 DEF k
<1>4. q[e] \in [1 .. m -> [net : Net, tdm : Nat]]
  BY <1>2, <1>3
<1> QED
  BY <1>1, <1>2, <1>3, <1>4 DEF m

\* calcCauchy() gives every net of an edge a positive ratio.
LEMMA CauchyPrices ==
  ASSUME IInv, CalcCauchy
  PROVE  /\ Ranked(patterns') /\ patterns' = [e \in Edge |-> patterns'[e]]
         /\ \A e \in Edge : \A i \in DOMAIN patterns'[e] : patterns'[e][i].tdm >= 1
<1>1. ~Early /\ pc = "cauchy"
  BY DEF CalcCauchy, Early
<1>2. input \in Inputs /\ Ranked(patterns)
      /\ \A e \in Edge : Cardinality(Passing(e)) \in Nat /\ DOMAIN patterns[e] = 1 .. Cardinality(Passing(e))
  BY <1>1, PatternsRanked
<1>3. \A n \in Net : lambdaT[n] \in Nat /\ lambdaT[n] >= 1
  <2>1. lambdaT \in [Net -> 0 .. MaxWeight] /\ MaxWeight \in Nat
    BY LrAssumption DEF IInv, Shapes
  <2>2. \A n \in Net : lambdaT[n] >= 1
    BY <1>1 DEF IInv, Priced
  <2> QED
    BY <2>1, <2>2
<1>4. Scale \in Nat \ {0}
  BY LrAssumption
<1>5. ASSUME NEW e \in Edge
      PROVE  /\ DOMAIN patterns'[e] = DOMAIN patterns[e] /\ patterns'[e] = [i \in DOMAIN patterns[e] |-> patterns'[e][i]]
             /\ \A i \in DOMAIN patterns[e] :
                  /\ patterns'[e][i] = [net |-> patterns[e][i].net, tdm |-> patterns'[e][i].tdm]
                  /\ patterns'[e][i].tdm \in Nat /\ patterns'[e][i].tdm >= 1
  <2> DEFINE s == patterns[e]
             m == Cardinality(Passing(e))
             q == [j \in DOMAIN s |-> lambdaT[s[j].net]]
             nominator == SumFunction(q)
             new(i) == [s[i] EXCEPT !.tdm = (Scale * nominator) \div lambdaT[s[i].net]]
  <2>1. m \in Nat /\ DOMAIN s = 1 .. m /\ s \in [1 .. m -> [net : Net, tdm : Nat]]
    <3>1. m \in Nat /\ DOMAIN s = 1 .. m
      BY <1>2
    <3>2. s \in [1 .. m -> [net : Net, tdm : Nat]]
      BY <1>2 DEF Ranked
    <3> QED
      BY <3>1, <3>2
  <2>2. patterns'[e] = [i \in DOMAIN s |-> new(i)]
    BY DEF CalcCauchy
  <2> HIDE DEF s, m
  <2>3. q \in [1 .. m -> Nat] /\ \A i \in 1 .. m : q[i] = lambdaT[s[i].net] /\ q[i] >= 1
    BY <1>3, <2>1
  <2>4. nominator \in Nat /\ \A i \in 1 .. m : q[i] <= nominator
    <3> HIDE DEF q
    <3> QED
      BY <2>1, <2>3, SumOfNats
  <2> HIDE DEF q, nominator
  <2>5. ASSUME NEW i \in 1 .. m
        PROVE  /\ new(i) = [net |-> s[i].net, tdm |-> (Scale * nominator) \div lambdaT[s[i].net]]
               /\ new(i).tdm \in Nat /\ new(i).tdm >= 1
    <3>1. s[i] \in [net : Net, tdm : Nat]
      BY <2>1
    <3> DEFINE w == lambdaT[s[i].net]
               a == Scale * nominator
    <3>2. w \in Nat \ {0} /\ w <= nominator
      BY <2>3, <2>4
    <3>3. a \in Nat /\ w <= a
      <4> HIDE DEF w
      <4>1. Scale * nominator \in Nat /\ nominator <= Scale * nominator
        BY <1>4, <2>4
      <4> QED
        BY <2>4, <3>2, <4>1
    <3> HIDE DEF a, w
    <3>4. a \div w \in Nat /\ a \div w >= 1
      BY <3>2, <3>3
    <3>5. new(i) = [net |-> s[i].net, tdm |-> a \div w]
      BY <3>1 DEF a, w
    <3> QED
      BY <3>4, <3>5 DEF a, w
  <2> HIDE DEF new
  <2>6. DOMAIN patterns'[e] = 1 .. m /\ \A i \in 1 .. m : patterns'[e][i] = new(i)
    BY <2>1, <2>2
  <2>7. \A i \in 1 .. m : /\ patterns'[e][i] = [net |-> s[i].net, tdm |-> patterns'[e][i].tdm]
                          /\ patterns'[e][i].tdm \in Nat /\ patterns'[e][i].tdm >= 1
    BY <2>5, <2>6
  <2>8. patterns'[e] = [i \in DOMAIN s |-> patterns'[e][i]]
    BY <2>2
  <2> QED
    BY <2>1, <2>6, <2>7, <2>8 DEF s
<1>6. Ranked(patterns')
  <2> DEFINE q == patterns'
  <2>1. /\ \A e \in Edge : DOMAIN q[e] = DOMAIN patterns[e] /\ q[e] = [i \in DOMAIN patterns[e] |-> q[e][i]]
        /\ \A e \in Edge : \A i \in DOMAIN patterns[e] :
             q[e][i] = [net |-> patterns[e][i].net, tdm |-> q[e][i].tdm] /\ q[e][i].tdm \in Nat
    BY <1>5
  <2> HIDE DEF q
  <2>2. Ranked(q)
    BY <1>2, <2>1, Repriced
  <2> QED
    BY <2>2 DEF q
<1>7. patterns' = [e \in Edge |-> patterns'[e]]
  BY DEF CalcCauchy
<1> QED
  BY <1>5, <1>6, <1>7

\* The ceiling leaves even ratios in the order of the ids.
LEMMA CeilingPrices ==
  ASSUME IInv, TakeCeiling
  PROVE  /\ Ranked(patterns') /\ patterns' = [e \in Edge |-> patterns'[e]]
         /\ \A e \in Edge : \A i \in DOMAIN patterns'[e] :
              patterns'[e][i].tdm >= 1 /\ EvenRatio(patterns'[e][i].tdm)
<1>1. ~Early /\ pc = "ceil"
  BY DEF TakeCeiling, Early
<1>2. input \in Inputs /\ Ranked(patterns)
  BY <1>1, PatternsRanked
<1>3. ASSUME NEW e \in Edge
      PROVE  /\ DOMAIN patterns'[e] = DOMAIN patterns[e] /\ patterns'[e] = [i \in DOMAIN patterns[e] |-> patterns'[e][i]]
             /\ \A i \in DOMAIN patterns[e] :
                  /\ patterns'[e][i] = [net |-> patterns[e][i].net, tdm |-> patterns'[e][i].tdm]
                  /\ patterns'[e][i].tdm \in Nat /\ patterns'[e][i].tdm >= 1 /\ EvenRatio(patterns'[e][i].tdm)
  <2> DEFINE s == patterns[e]
             new(i) == [s[i] EXCEPT !.tdm = EvenCeil(@)]
  <2>1. patterns'[e] = [i \in DOMAIN s |-> new(i)]
    BY DEF TakeCeiling
  <2>2. \A i \in DOMAIN s : s[i] \in [net : Net, tdm : Nat] /\ s[i].tdm >= 1
    <3>1. s \in [1 .. Cardinality(Passing(e)) -> [net : Net, tdm : Nat]]
      BY <1>2 DEF Ranked
    <3>2. \A i \in DOMAIN s : s[i].tdm >= 1
      BY <1>1 DEF IInv, Priced
    <3> HIDE DEF s
    <3> QED
      BY <3>1, <3>2
  <2> HIDE DEF s
  <2>3. ASSUME NEW i \in DOMAIN s
        PROVE  /\ new(i) = [net |-> s[i].net, tdm |-> new(i).tdm]
               /\ new(i).tdm \in Nat /\ new(i).tdm >= 1 /\ EvenRatio(new(i).tdm)
    <3> DEFINE t == s[i].tdm
               c == EvenCeil(t)
    <3>1. s[i] \in [net : Net, tdm : Nat] /\ t \in Nat /\ t >= 1
      BY <2>2
    <3>2. new(i) = [net |-> s[i].net, tdm |-> c]
      <4> HIDE DEF c
      <4> QED
        BY <3>1 DEF c
    <3>3. c \in Nat /\ c >= 1 /\ EvenRatio(c)
      <4> HIDE DEF t
      <4> QED
        BY <3>1, CeilingIsEven
    <3> HIDE DEF c
    <3> QED
      BY <3>2, <3>3
  <2> HIDE DEF new
  <2>4. DOMAIN patterns'[e] = DOMAIN s /\ \A i \in DOMAIN s : patterns'[e][i] = new(i)
    BY <2>1
  <2>5. patterns'[e] = [i \in DOMAIN s |-> patterns'[e][i]]
    BY <2>1
  <2> QED
    BY <2>3, <2>4, <2>5 DEF s
<1>4. Ranked(patterns')
  <2> DEFINE q == patterns'
  <2>1. /\ \A e \in Edge : DOMAIN q[e] = DOMAIN patterns[e] /\ q[e] = [i \in DOMAIN patterns[e] |-> q[e][i]]
        /\ \A e \in Edge : \A i \in DOMAIN patterns[e] :
             q[e][i] = [net |-> patterns[e][i].net, tdm |-> q[e][i].tdm] /\ q[e][i].tdm \in Nat
    BY <1>3
  <2> HIDE DEF q
  <2>2. Ranked(q)
    BY <1>2, <2>1, Repriced
  <2> QED
    BY <2>2 DEF q
<1>5. patterns' = [e \in Edge |-> patterns'[e]]
  BY DEF TakeCeiling
<1> QED
  BY <1>3, <1>4, <1>5

\* Nets in the order of their ids are nets in some order.
LEMMA RankedIsArranged ==
  ASSUME input \in Inputs, NEW p, Ranked(p), NEW e \in Edge
  PROVE  Rearranged(e, p[e])
<1> DEFINE S == Passing(e)
           m == Cardinality(S)
           s == p[e]
<1>1. s \in [1 .. m -> [net : Net, tdm : Nat]] /\ \A i \in DOMAIN s : s[i].net = Ascending(S)[i]
  BY DEF Ranked
<1>2. Ascending(S) \in Bijection(1 .. m, S)
  <2>1. S \in SUBSET Nat /\ IsFiniteSet(S)
    BY InputType
  <2> HIDE DEF S
  <2> QED
    BY <2>1, AscendingFacts
<1>3. [i \in DOMAIN s |-> s[i].net] = Ascending(S)
  <2>1. DOMAIN s = 1 .. m /\ Ascending(S) = [i \in 1 .. m |-> Ascending(S)[i]]
    <3> DEFINE a == Ascending(S)
    <3> HIDE DEF a, s, m, S
    <3> QED
      BY <1>1, <1>2 DEF Bijection, Injection
  <2> HIDE DEF s, m, S
  <2> QED
    BY <1>1, <2>1
<1> QED
  BY <1>1, <1>2, <1>3 DEF Rearranged

\* round() leaves the nets of every edge in some order, with even ratios.
LEMMA RoundArranges ==
  ASSUME IInv, Round
  PROVE  /\ patterns' = [e \in Edge |-> patterns'[e]]
         /\ \A e \in Edge : /\ Rearranged(e, patterns'[e])
                            /\ \A i \in DOMAIN patterns'[e] : EvenRatio(patterns'[e][i].tdm)
<1>1. ~Early /\ pc = "round"
  BY DEF Round, Early
<1>2. input \in Inputs /\ Ranked(patterns)
      /\ \A e \in Edge : Cardinality(Passing(e)) \in Nat /\ DOMAIN patterns[e] = 1 .. Cardinality(Passing(e))
  BY <1>1, PatternsRanked
<1>3. PICK t \in OnePerEdge(Legal), ordered \in OnePerEdge(Orders) :
        patterns' = [e \in Edge |-> IF Full(e) THEN patterns[e]
          ELSE [i \in DOMAIN patterns[e] |-> [ordered[e][i] EXCEPT !.tdm = Scale * t[e][i]]]]
  BY DEF Round
<1>4. ASSUME NEW e \in Edge, Full(e)
      PROVE  /\ Rearranged(e, patterns'[e])
             /\ \A i \in DOMAIN patterns'[e] : EvenRatio(patterns'[e][i].tdm)
  <2>1. patterns'[e] = patterns[e]
    BY <1>3, <1>4
  <2>2. Rearranged(e, patterns[e])
    BY <1>2, RankedIsArranged
  <2>3. \A i \in DOMAIN patterns[e] : EvenRatio(patterns[e][i].tdm)
    BY <1>1 DEF IInv, Priced
  <2> QED
    BY <2>1, <2>2, <2>3
<1>5. ASSUME NEW e \in Edge, ~Full(e)
      PROVE  /\ Rearranged(e, patterns'[e])
             /\ \A i \in DOMAIN patterns'[e] : EvenRatio(patterns'[e][i].tdm)
  <2> DEFINE s == patterns[e]
             S == Passing(e)
             m == Cardinality(S)
             o == ordered[e]
             u == t[e]
             new == patterns'[e]
  <2>1. m \in Nat /\ DOMAIN s = 1 .. m /\ s \in [1 .. m -> [net : Net, tdm : Nat]]
        /\ [i \in DOMAIN s |-> s[i].net] \in Bijection(1 .. m, S)
    <3>1. m \in Nat /\ DOMAIN s = 1 .. m
      BY <1>2
    <3>2. Rearranged(e, s)
      BY <1>2, RankedIsArranged
    <3> QED
      BY <3>1, <3>2 DEF Rearranged
  <2>2. u \in [DOMAIN s -> EvenTdm]
    <3>1. u \in Legal(e)
      BY <1>3 DEF OnePerEdge
    <3> QED
      BY <3>1 DEF Legal
  <2>3. PICK p \in Injection(DOMAIN s, DOMAIN s) : o = [i \in DOMAIN s |-> s[p[i]]]
    <3>1. o \in Orders(e)
      BY <1>3 DEF OnePerEdge
    <3> QED
      BY <3>1 DEF Orders, Sorted
  <2>4. new = [i \in DOMAIN s |-> [o[i] EXCEPT !.tdm = Scale * u[i]]]
    BY <1>3, <1>5
  <2> HIDE DEF s, S, m, o, u, new
  <2>5. p \in Bijection(1 .. m, 1 .. m)
    <3> DEFINE D == 1 .. m
    <3>1. IsFiniteSet(D) /\ p \in Injection(D, D)
      BY <2>1, <2>3, FS_Interval
    <3>2. p \in Surjection(D, D)
      <4> HIDE DEF D
      <4> QED
        BY <3>1, FS_Injection
    <3> QED
      BY <3>1, <3>2 DEF Bijection
  <2>6. /\ p \in [1 .. m -> 1 .. m] /\ (\A i, j \in 1 .. m : p[i] = p[j] => i = j)
        /\ \A j \in 1 .. m : \E i \in 1 .. m : p[i] = j
    BY <2>5 DEF Bijection, Injection, Surjection, IsInjective
  <2>7. ASSUME NEW i \in 1 .. m
        PROVE  /\ new[i] \in [net : Net, tdm : Nat] /\ new[i].net = s[p[i]].net
               /\ EvenRatio(new[i].tdm)
    <3>1. p[i] \in 1 .. m /\ o[i] = s[p[i]] /\ new[i] = [o[i] EXCEPT !.tdm = Scale * u[i]]
      BY <2>1, <2>3, <2>4, <2>6
    <3>2. s[p[i]] \in [net : Net, tdm : Nat]
      BY <2>1, <3>1
    <3> DEFINE k == s[p[i]].net
               x == u[i]
               y == Scale * x
    <3>3. x \in Nat /\ x % 2 = 0 /\ x >= 2 /\ Scale \in Nat \ {0}
      BY <2>1, <2>2, LrAssumption
    <3>4. y \in Nat /\ y \div Scale = x
      <4> HIDE DEF x
      <4> QED
        BY <3>3
    <3>5. EvenRatio(y)
      <4> HIDE DEF x, y
      <4>1. y = Scale * x
        BY DEF y
      <4> QED
        BY <3>3, <3>4, <4>1 DEF EvenRatio
    <3>6. new[i] = [net |-> k, tdm |-> y] /\ k \in Net
      <4> HIDE DEF y
      <4> QED
        BY <3>1, <3>2 DEF y
    <3> HIDE DEF k, y
    <3>7. new[i] \in [net : Net, tdm : Nat] /\ new[i].net = k /\ EvenRatio(new[i].tdm)
      BY <3>4, <3>5, <3>6
    <3> QED
      BY <3>7 DEF k
  <2>8. DOMAIN new = 1 .. m /\ new \in [1 .. m -> [net : Net, tdm : Nat]]
    BY <2>1, <2>4, <2>7
  <2>9. [i \in DOMAIN new |-> new[i].net] \in Bijection(1 .. m, S)
    <3> DEFINE b == [i \in DOMAIN s |-> s[i].net]
               c == [i \in DOMAIN new |-> new[i].net]
    <3>1. /\ b \in [1 .. m -> S] /\ (\A i, j \in 1 .. m : b[i] = b[j] => i = j)
          /\ \A x \in S : \E i \in 1 .. m : b[i] = x
      <4>1. b \in Bijection(1 .. m, S)
        BY <2>1
      <4> HIDE DEF b
      <4> QED
        BY <4>1 DEF Bijection, Injection, Surjection, IsInjective
    <3>2. c = [i \in 1 .. m |-> c[i]] /\ \A i \in 1 .. m : c[i] = b[p[i]]
      BY <2>1, <2>6, <2>7, <2>8
    <3> HIDE DEF b, c
    <3>3. c \in [1 .. m -> S]
      BY <2>6, <3>1, <3>2
    <3>4. \A i, j \in 1 .. m : c[i] = c[j] => i = j
      BY <2>6, <3>1, <3>2
    <3>5. \A x \in S : \E i \in 1 .. m : c[i] = x
      <4> SUFFICES ASSUME NEW x \in S PROVE \E i \in 1 .. m : c[i] = x
        OBVIOUS
      <4>1. PICK j \in 1 .. m : b[j] = x
        BY <3>1
      <4>2. PICK i \in 1 .. m : p[i] = j
        BY <2>6
      <4> QED
        BY <3>2, <4>1, <4>2
    <3>6. c \in Bijection(1 .. m, S)
      BY <3>3, <3>4, <3>5 DEF Bijection, Injection, Surjection, IsInjective
    <3> QED
      BY <3>6 DEF c
  <2>10. \A i \in DOMAIN new : EvenRatio(new[i].tdm)
    BY <2>7, <2>8
  <2>11. Rearranged(e, new)
    BY <2>8, <2>9 DEF Rearranged, m, S
  <2> QED
    BY <2>10, <2>11 DEF new
<1>6. patterns' = [e \in Edge |-> patterns'[e]]
  BY <1>3
<1> QED
  BY <1>4, <1>5, <1>6

-----------------------------------------------------------------------------
(* The invariant, one lemma per action.                                    *)

\* At first nothing is indexed, no multiplier is 0 and the window is empty.
LEMMA InitInv == ASSUME Init PROVE IInv
<1> USE DEF Init
<1>0. /\ input \in Inputs /\ Limit \in Nat /\ Window \in Nat \ {0} /\ MaxWeight \in Nat
  BY LrAssumption
<1>1. Shapes
  BY <1>0 DEF Shapes, Steps
<1>2. Fresh
  BY DEF Fresh
<1>3. Indexed
  BY DEF Indexed, Early
<1>4. Priced
  BY DEF Priced
<1>5. Weighed
  BY DEF Weighed
<1>6. InWindow
  BY <1>0 DEF InWindow, Recorded, Holds
<1>7. Arranged /\ Written
  BY DEF Arranged, Written
<1> QED
  BY <1>1, <1>2, <1>3, <1>4, <1>5, <1>6, <1>7 DEF IInv

\* calcLambdaT() goes on with positive weights, or stops for a weight that is 0.
LEMMA CalcLambdaTStep == ASSUME IInv, CalcLambdaT PROVE IInv'
<1>0. /\ pc = "lambdaT" /\ input' = input /\ iteration' = iteration /\ lambda' = lambda
      /\ UNCHANGED <<patterns, sigmas, sums, samples, table>>
      /\ made' = [made EXCEPT !.lambdaT = made.lambda]
      /\ lambdaT' \in [Net -> 0 .. MaxWeight] /\ \A n \in Net : lambdaT'[n] = 0 <=> Weightless(n)
      /\ pc' = IF \E n \in Net : lambdaT'[n] = 0 THEN "aborted" ELSE AfterLambdaT
  BY DEF CalcLambdaT
<1>1. /\ Gid' = Gid /\ AllEdgeless' = AllEdgeless
      /\ \A e : Passing(e)' = Passing(e)
      /\ \A n : NetgroupsOf(n)' = NetgroupsOf(n)
      /\ \A g : Entries(g)' = Entries(g) /\ Edgeless(g)' = Edgeless(g) /\ Dominant(g)' = Dominant(g)
  BY <1>0, InputKept
<1>2. \/ pc' = "aborted" /\ \E n \in Net : lambdaT'[n] = 0
      \/ pc' \in {"index", "cauchy"} /\ (pc' = "index" <=> iteration = 0) /\ \A n \in Net : lambdaT'[n] # 0
  BY <1>0 DEF AfterLambdaT
<1>3. MaxWeight \in Nat /\ iteration \in 0 .. Limit + 1 /\ Limit \in Nat
  BY LrAssumption DEF IInv, Shapes
<1>4. Shapes'
  BY <1>0, <1>1, <1>2 DEF IInv, Shapes, Steps
<1>5. Fresh'
  BY <1>0, <1>2 DEF IInv, Shapes, Fresh
<1>6. Indexed'
  <2>1. Early' <=> Early
    BY <1>0, <1>2, <1>3 DEF Early
  <2>2. pc' \notin {"apply", "done"} /\ pc \notin {"apply", "done"}
    BY <1>0, <1>2
  <2>3. Indexed
    BY DEF IInv
  <2> QED
    BY <1>0, <1>1, <2>1, <2>2, <2>3 DEF Indexed
<1>7. Priced'
  <2>1. pc' \notin {"lambdaT", "aborted"} => \A n \in Net : lambdaT'[n] >= 1
    BY <1>0, <1>2, <1>3
  <2> QED
    BY <1>2, <2>1 DEF Priced
<1>8. Weighed'
  <2>1. \A n : Weightless(n)' = Weightless(n)
    BY <1>0, <1>1 DEF Weightless
  <2>2. /\ pc' \notin {"lambdaT", "aborted", "undefined"} => \A n \in Net : ~Weightless(n)'
        /\ pc' = "aborted" => \E n \in Net : Weightless(n)'
        /\ pc' # "undefined"
    BY <1>0, <1>2, <2>1
  <2> QED
    BY <1>0, <1>1, <2>2 DEF IInv, Weighed
<1>9. InWindow'
  <2>1. pc' # "aborted" => Recorded' = Recorded
    BY <1>0, <1>2 DEF Recorded
  <2> QED
    BY <1>0, <1>1, <1>2, <2>1 DEF IInv, InWindow
<1>10. Arranged' /\ Written'
  BY <1>0, <1>2 DEF IInv, Arranged, Written
<1> QED
  BY <1>4, <1>5, <1>6, <1>7, <1>8, <1>9, <1>10 DEF IInv

\* initVecs() enters the nets of every edge in the order of their ids.
LEMMA IndexStep == ASSUME IInv, InitSigmasAndPatterns PROVE IInv'
<1>0. /\ pc = "index" /\ pc' = "cauchy" /\ input' = input
      /\ UNCHANGED <<iteration, lambda, lambdaT, sums, samples, made, table>>
  BY DEF InitSigmasAndPatterns
<1>1. /\ Gid' = Gid /\ AllEdgeless' = AllEdgeless
      /\ \A e : Passing(e)' = Passing(e)
      /\ \A n : NetgroupsOf(n)' = NetgroupsOf(n)
      /\ \A g : Entries(g)' = Entries(g) /\ Edgeless(g)' = Edgeless(g) /\ Dominant(g)' = Dominant(g)
  BY <1>0, InputKept
<1>2. patterns' = [e \in Edge |->
        [i \in 1 .. Cardinality(Passing(e)) |-> [net |-> Ascending(Passing(e))[i], tdm |-> 0]]]
  BY DEF InitSigmasAndPatterns
<1>3. Shapes'
  BY <1>0, <1>1, <1>2 DEF IInv, Shapes, Steps
<1>4. Fresh'
  BY <1>0 DEF IInv, Fresh
<1>5. Indexed'
  <2>1. ~Early' /\ pc' \notin {"apply", "done"}
    BY <1>0 DEF Early
  <2>2. sigmas' = [g \in Gid |-> Entries(g)]
    <3>1. \A n, e : EdgeTreeIDs(n, e) = EdgeTreeIDs(n, e)
      OBVIOUS
    <3> QED
      BY DEF InitSigmasAndPatterns, Entries, NetEntries, EdgeList
  <2>3. ASSUME NEW e \in Edge
        PROVE  /\ patterns'[e] \in [1 .. Cardinality(Passing(e)) -> [net : Net, tdm : Nat]]
               /\ \A i \in DOMAIN patterns'[e] : patterns'[e][i].net = Ascending(Passing(e))[i]
    <3> DEFINE S == Passing(e)
               m == Cardinality(S)
               a == Ascending(S)
               s == patterns'[e]
    <3>1. S \in SUBSET Nat /\ S \in SUBSET Net /\ IsFiniteSet(S)
      BY InputType DEF IInv, Shapes
    <3>2. s = [i \in 1 .. m |-> [net |-> a[i], tdm |-> 0]]
      BY <1>2
    <3> HIDE DEF S
    <3>3. a \in Bijection(1 .. m, S)
      BY <3>1, AscendingFacts
    <3> HIDE DEF a, m, s
    <3>4. a \in [1 .. m -> S]
      BY <3>3 DEF Bijection, Injection
    <3>5. s \in [1 .. m -> [net : Net, tdm : Nat]] /\ \A i \in DOMAIN s : s[i].net = a[i]
      BY <3>1, <3>2, <3>4
    <3> QED
      BY <3>5 DEF S, m, a, s
  <2> QED
    BY <1>1, <2>1, <2>2, <2>3 DEF Indexed
<1>6. Priced'
  BY <1>0 DEF IInv, Priced
<1>7. Weighed'
  <2>1. \A n : Weightless(n)' = Weightless(n)
    BY <1>0, <1>1 DEF Weightless
  <2> QED
    BY <1>0, <1>1, <2>1 DEF IInv, Weighed
<1>8. InWindow'
  <2>1. Recorded' = Recorded
    BY <1>0 DEF Recorded
  <2> QED
    BY <1>0, <1>1, <2>1 DEF IInv, InWindow
<1>9. Arranged' /\ Written'
  BY <1>0 DEF IInv, Arranged, Written
<1> QED
  BY <1>3, <1>4, <1>5, <1>6, <1>7, <1>8, <1>9 DEF IInv

\* calcCauchy() replaces the ratios.
LEMMA CalcCauchyStep == ASSUME IInv, CalcCauchy PROVE IInv'
<1>0. /\ pc = "cauchy" /\ pc' = "z" /\ input' = input
      /\ made' = [made EXCEPT !.patterns = made.lambdaT, !.bound = made.lambdaT]
      /\ UNCHANGED <<iteration, lambda, lambdaT, sigmas, sums, samples, table>>
  BY DEF CalcCauchy
<1>1. /\ Gid' = Gid /\ AllEdgeless' = AllEdgeless
      /\ \A e : Passing(e)' = Passing(e)
      /\ \A n : NetgroupsOf(n)' = NetgroupsOf(n)
      /\ \A g : Entries(g)' = Entries(g) /\ Edgeless(g)' = Edgeless(g) /\ Dominant(g)' = Dominant(g)
  BY <1>0, InputKept
<1>2. /\ Ranked(patterns') /\ patterns' = [e \in Edge |-> patterns'[e]]
      /\ \A e \in Edge : \A i \in DOMAIN patterns'[e] : patterns'[e][i].tdm >= 1
  BY CauchyPrices
<1>3. Shapes'
  BY <1>0, <1>1, <1>2 DEF IInv, Shapes, Steps
<1>4. Fresh'
  BY <1>0 DEF IInv, Shapes, Fresh
<1>5. Indexed'
  <2>1. ~Early /\ ~Early'
    BY <1>0 DEF Early
  <2>2. sigmas' = [g \in Gid |-> Entries(g)]
    BY <1>0, <2>1 DEF IInv, Indexed
  <2> QED
    BY <1>1, <1>2, <2>1, <2>2 DEF Indexed, Ranked
<1>6. Priced'
  BY <1>0, <1>2 DEF IInv, Priced
<1>7. Weighed'
  <2>1. \A n : Weightless(n)' = Weightless(n)
    BY <1>0, <1>1 DEF Weightless
  <2> QED
    BY <1>0, <1>1, <2>1 DEF IInv, Weighed
<1>8. InWindow'
  <2>1. Recorded' = Recorded
    BY <1>0 DEF Recorded
  <2> QED
    BY <1>0, <1>1, <2>1 DEF IInv, InWindow
<1>9. Arranged' /\ Written'
  BY <1>0 DEF IInv, Arranged, Written
<1> QED
  BY <1>3, <1>4, <1>5, <1>6, <1>7, <1>8, <1>9 DEF IInv

\* calcZ() records the sums of the groups and, of groups that pay, a sample.
LEMMA Recording ==
  ASSUME IInv, NEW p, Ranked(p), sigmas = [g \in Gid |-> Entries(g)],
         \A e \in Edge : \A i \in DOMAIN p[e] : p[e][i].tdm >= 1,
         RecordSums(p)
  PROVE  /\ sums' = ThroughSigmas(p) /\ sums' \in [Gid -> Nat]
         /\ samples' \in [Gid -> [0 .. Window - 1 -> Nat]]
         /\ iteration % Window \in 0 .. Window - 1
         /\ \A g \in Gid : (Edgeless(g) => AllEdgeless) =>
              \A s \in 0 .. Window - 1 :
                samples'[g][s] = IF s = iteration % Window THEN iteration + 1 ELSE samples[g][s]
<1>0. /\ sums' = ThroughSigmas(p)
      /\ samples' = [g \in Gid |-> [samples[g] EXCEPT ![Slot] =
           IF sums'[g] = 0 /\ Z(sums') # 0 THEN 0 ELSE iteration + 1]]
  BY DEF RecordSums
<1>1. input \in Inputs /\ iteration \in Nat /\ Window \in Nat \ {0}
      /\ samples \in [Gid -> [0 .. Window - 1 -> Nat]]
  BY LrAssumption DEF IInv, Shapes
<1>2. sums' \in [Gid -> Nat]
  BY <1>0, <1>1, SumsFound
<1>3. Slot \in 0 .. Window - 1 /\ Slot = iteration % Window
  BY <1>1, Division DEF Slot
<1> DEFINE new(g) == IF sums'[g] = 0 /\ Z(sums') # 0 THEN 0 ELSE iteration + 1
<1>4. \A g \in Gid : new(g) \in Nat
  BY <1>1
<1>5. \A g \in Gid : (Edgeless(g) => AllEdgeless) => new(g) = iteration + 1
  BY <1>0, <1>1, ZeroSums
<1> HIDE DEF new
<1>6. \A g \in Gid : samples'[g] = [samples[g] EXCEPT ![Slot] = new(g)]
  BY <1>0 DEF new
<1>7. samples' \in [Gid -> [0 .. Window - 1 -> Nat]]
  <2>1. ASSUME NEW g \in Gid PROVE samples'[g] \in [0 .. Window - 1 -> Nat]
    <3> DEFINE D == 0 .. Window - 1
               r == samples[g]
               c == new(g)
    <3>1. r \in [D -> Nat] /\ c \in Nat /\ Slot \in D /\ samples'[g] = [r EXCEPT ![Slot] = c]
      BY <1>1, <1>3, <1>4, <1>6
    <3> HIDE DEF D, r, c
    <3>2. samples'[g] \in [D -> Nat]
      BY ONLY <3>1
    <3> QED
      BY <3>2 DEF D
  <2>2. samples' = [g \in Gid |-> samples'[g]]
    BY <1>0
  <2> QED
    BY <2>1, <2>2
<1>8. ASSUME NEW g \in Gid, Edgeless(g) => AllEdgeless, NEW s \in 0 .. Window - 1
      PROVE  samples'[g][s] = IF s = iteration % Window THEN iteration + 1 ELSE samples[g][s]
  <2>1. samples[g] \in [0 .. Window - 1 -> Nat] /\ new(g) = iteration + 1
    BY <1>1, <1>5, <1>8
  <2>2. samples'[g] = [samples[g] EXCEPT ![Slot] = iteration + 1]
    BY <1>6, <2>1
  <2> QED
    BY <1>3, <2>1, <2>2
<1> QED
  BY <1>0, <1>2, <1>3, <1>7, <1>8

\* The window moves on by one iteration.
LEMMA WindowMoves ==
  ASSUME NEW k \in Nat, NEW s \in 0 .. Window - 1, NEW old \in Nat, NEW new,
         Holds(s, old, k - 1), new = IF s = k % Window THEN k + 1 ELSE old
  PROVE  Holds(s, new, k)
<1>0. Window \in Nat \ {0}
  BY LrAssumption
<1>1. CASE s = k % Window
  <2>1. new = k + 1 /\ (k + 1) - 1 = k
    BY <1>1
  <2>2. new \in 1 .. k + 1 /\ new + Window > k + 1
    BY <1>0, <2>1
  <2> QED
    BY <1>1, <2>1, <2>2 DEF Holds
<1>2. CASE s # k % Window
  <2>1. new = old /\ (k - 1) + 1 = k
    BY <1>2
  <2>2. CASE s > k - 1 /\ old = 0
    <3>1. s # k
      <4>1. k < Window => k % Window = k
        BY <1>0
      <4> QED
        BY <1>0, <1>2, <4>1
    <3> QED
      BY <1>0, <2>1, <2>2, <3>1 DEF Holds
  <2>3. CASE old \in 1 .. k /\ old + Window > k /\ (old - 1) % Window = s
    <3> DEFINE a == old - 1
    <3>1. a \in Nat /\ a % Window = s
      BY <2>3
    <3>2. a + Window # k
      <4>1. (a + Window) % Window = a % Window
        <5> HIDE DEF a
        <5> QED
          BY <1>0, <3>1, NextRound
      <4> QED
        BY <1>2, <3>1, <4>1
    <3>3. old + Window # k + 1
      BY <1>0, <2>3, <3>2
    <3> QED
      BY <1>0, <2>1, <2>3, <3>3 DEF Holds
  <2> QED
    BY <2>1, <2>2, <2>3 DEF Holds
<1> QED
  BY <1>1, <1>2

\* calcZ() records the iteration.
LEMMA CalcZStep == ASSUME IInv, CalcZ PROVE IInv'
<1>0. /\ pc = "z" /\ pc' \in {"loop", "test"} /\ (iteration = 0 => pc' = "loop") /\ input' = input
      /\ made' = [made EXCEPT !.sums = made.patterns]
      /\ RecordSums(patterns)
      /\ UNCHANGED <<iteration, lambda, lambdaT, patterns, sigmas, table>>
  BY DEF CalcZ
<1>1. /\ Gid' = Gid /\ AllEdgeless' = AllEdgeless
      /\ \A e : Passing(e)' = Passing(e)
      /\ \A n : NetgroupsOf(n)' = NetgroupsOf(n)
      /\ \A g : Entries(g)' = Entries(g) /\ Edgeless(g)' = Edgeless(g) /\ Dominant(g)' = Dominant(g)
  BY <1>0, InputKept
<1>2. ~Early /\ ~Early'
  BY <1>0 DEF Early
<1>3. Ranked(patterns) /\ sigmas = [g \in Gid |-> Entries(g)]
      /\ \A e \in Edge : \A i \in DOMAIN patterns[e] : patterns[e][i].tdm >= 1
  <2>1. Ranked(patterns) /\ sigmas = [g \in Gid |-> Entries(g)]
    BY <1>0, <1>2, PatternsRanked
  <2> QED
    BY <1>0, <2>1 DEF IInv, Priced
<1>4. /\ sums' = ThroughSigmas(patterns) /\ sums' \in [Gid -> Nat]
      /\ samples' \in [Gid -> [0 .. Window - 1 -> Nat]]
      /\ \A g \in Gid : (Edgeless(g) => AllEdgeless) =>
           \A s \in 0 .. Window - 1 :
             samples'[g][s] = IF s = iteration % Window THEN iteration + 1 ELSE samples[g][s]
  BY <1>0, <1>3, Recording
<1>5. Shapes'
  <2>1. iteration \in Nat
    BY LrAssumption DEF IInv, Shapes
  <2>2. pc' \in Steps /\ (pc' = "index" => iteration = 0)
        /\ (pc' \in {"test", "ceil", "round", "apply", "done"} => iteration >= 1)
    BY <1>0, <2>1 DEF Steps
  <2>3. made' \in [lambda : Int, lambdaT : Int, patterns : Int, bound : Int, sums : Int]
    BY <1>0 DEF IInv, Shapes
  <2>4. sums' \in [Gid' -> Nat] /\ samples' \in [Gid' -> [0 .. Window - 1 -> Nat]]
        /\ lambda' \in [Gid' -> BOOLEAN]
    BY <1>0, <1>1, <1>4 DEF IInv, Shapes
  <2> QED
    BY <1>0, <2>2, <2>3, <2>4 DEF IInv, Shapes
<1>6. Fresh'
  BY <1>0 DEF IInv, Shapes, Fresh
<1>7. Indexed'
  BY <1>0, <1>1, <1>2 DEF IInv, Indexed
<1>8. Priced'
  <2>1. sums' = ThroughSigmas(patterns)'
    BY <1>0, <1>1, <1>4 DEF ThroughSigmas
  <2> QED
    BY <1>0, <2>1 DEF IInv, Priced
<1>9. Weighed'
  <2>1. \A n : Weightless(n)' = Weightless(n)
    BY <1>0, <1>1 DEF Weightless
  <2> QED
    BY <1>0, <1>1, <2>1 DEF IInv, Weighed
<1>10. InWindow'
  <2>1. Recorded' = iteration /\ Recorded = iteration - 1
    BY <1>0 DEF Recorded
  <2>2. ASSUME NEW g \in Gid, Edgeless(g) => AllEdgeless, NEW s \in 0 .. Window - 1
        PROVE  Holds(s, samples'[g][s], iteration)
    <3> DEFINE old == samples[g][s]
               new == samples'[g][s]
    <3>1. iteration \in Nat /\ old \in Nat
      BY LrAssumption DEF IInv, Shapes
    <3>2. new = IF s = iteration % Window THEN iteration + 1 ELSE old
      BY <1>4, <2>2
    <3>3. Holds(s, old, iteration - 1)
      BY <1>0, <2>1, <2>2 DEF IInv, InWindow
    <3> HIDE DEF old, new
    <3>4. Holds(s, new, iteration)
      BY <3>1, <3>2, <3>3, WindowMoves
    <3> QED
      BY <3>4 DEF new
  <2> QED
    BY <1>1, <2>1, <2>2 DEF InWindow
<1>11. Arranged' /\ Written'
  BY <1>0 DEF IInv, Arranged, Written
<1> QED
  BY <1>5, <1>6, <1>7, <1>8, <1>9, <1>10, <1>11 DEF IInv

\* updateLambdaNG() leaves no multiplier to the groups without edges next to others,
\* and leaves its multiplier to a dominant group.
LEMMA UpdateStep == ASSUME IInv, UpdateLambdaNG PROVE IInv'
<1>0. /\ pc = "loop" /\ iteration <= Limit /\ iteration' = iteration + 1 /\ input' = input
      /\ pc' \in {"lambdaT", "undefined"}
      /\ made' = [made EXCEPT !.lambda = made.sums + 1]
      /\ UNCHANGED <<lambdaT, patterns, sigmas, sums, samples, table>>
  BY DEF UpdateLambdaNG, AfterUpdate
<1>a. PICK left \in SUBSET {g \in Gid : lambda[g] /\ ~SampleIsZero(g)} :
        /\ \A g \in Gid : lambda[g] /\ ~MayVanish(g) => g \in left
        /\ lambda' = [g \in Gid |-> g \in left]
        /\ pc' = IF left = {} THEN "undefined" ELSE AfterUpdate
  BY DEF UpdateLambdaNG
<1>1. /\ Gid' = Gid /\ AllEdgeless' = AllEdgeless
      /\ \A e : Passing(e)' = Passing(e)
      /\ \A n : NetgroupsOf(n)' = NetgroupsOf(n)
      /\ \A g : Entries(g)' = Entries(g) /\ Edgeless(g)' = Edgeless(g) /\ Dominant(g)' = Dominant(g)
  BY <1>0, InputKept
<1>2. iteration \in Nat /\ Limit \in Nat /\ iteration + 1 >= 1
  BY LrAssumption DEF IInv, Shapes
<1>3. ~Early /\ ~Early'
  BY <1>0, <1>2 DEF Early
<1>4. ASSUME NEW g \in Gid
      PROVE  /\ SampleIsZero(g) <=> (Edgeless(g) /\ ~AllEdgeless)
             /\ Dominant(g) => ~MayVanish(g)
  <2>1. input \in Inputs /\ Ranked(patterns) /\ sigmas = [h \in Gid |-> Entries(h)]
    BY <1>0, <1>3, PatternsRanked
  <2>2. \A e \in Edge : \A i \in DOMAIN patterns[e] : patterns[e][i].tdm >= 1
    BY <1>0 DEF IInv, Priced
  <2>3. sums = ThroughSigmas(patterns)
    BY <1>0 DEF IInv, Priced
  <2>4. (ThroughSigmas(patterns)[g] = 0 /\ Z(ThroughSigmas(patterns)) # 0) <=> (Edgeless(g) /\ ~AllEdgeless)
    BY <2>1, <2>2, ZeroSums
  <2>5. ASSUME Dominant(g) PROVE ~MayVanish(g)
    <3>1. sums[g] = Z(sums) /\ sums[g] \in Nat
      BY <2>1, <2>3, <2>5, DominantSum, SumsFound
    <3> QED
      BY <3>1 DEF MayVanish
  <2> QED
    BY <2>3, <2>4, <2>5 DEF SampleIsZero
<1>5. Shapes'
  <2>1. lambda' \in [Gid -> BOOLEAN] /\ iteration' \in 0 .. Limit + 1
    BY <1>0, <1>a, <1>2
  <2>2. made' \in [lambda : Int, lambdaT : Int, patterns : Int, bound : Int, sums : Int]
    <3>1. made \in [lambda : Int, lambdaT : Int, patterns : Int, bound : Int, sums : Int]
      BY DEF IInv, Shapes
    <3>2. made.sums + 1 \in Int
      BY <3>1
    <3> QED
      BY <1>0, <3>1, <3>2
  <2>3. pc' \in Steps /\ pc' \notin {"index", "test", "ceil", "round", "apply", "done"}
    BY <1>0 DEF Steps
  <2> QED
    BY <1>0, <1>1, <2>1, <2>2, <2>3 DEF IInv, Shapes
<1>6. Fresh'
  BY <1>0 DEF IInv, Shapes, Fresh
<1>7. Indexed'
  BY <1>0, <1>1, <1>3 DEF IInv, Indexed
<1>8. Priced'
  BY <1>0 DEF IInv, Priced
<1>9. Weighed'
  <2>1. ASSUME NEW g \in Gid, Dominant(g) PROVE lambda'[g]
    BY <1>a, <1>4, <2>1 DEF IInv, Weighed
  <2>2. ASSUME NEW g \in Gid, lambda'[g], Edgeless(g) PROVE AllEdgeless
    BY <1>a, <1>4, <2>2
  <2>3. ASSUME pc' = "undefined", NEW g \in Gid PROVE ~lambda'[g]
    BY <1>a, <2>3 DEF AfterUpdate
  <2> QED
    BY <1>0, <1>1, <2>1, <2>2, <2>3 DEF Weighed
<1>10. InWindow'
  <2>1. Recorded' = Recorded
    BY <1>0, <1>2 DEF Recorded
  <2> QED
    BY <1>0, <1>1, <2>1 DEF IInv, InWindow
<1>11. Arranged' /\ Written'
  BY <1>0 DEF IInv, Arranged, Written
<1> QED
  BY <1>5, <1>6, <1>7, <1>8, <1>9, <1>10, <1>11 DEF IInv

\* The tests of the loop only move the position.
LEMMA TestStep == ASSUME IInv, Converged \/ GoOn \/ LimitReached PROVE IInv'
<1>0. /\ UNCHANGED <<input, iteration, lambda, lambdaT, patterns, sigmas, sums, samples, made, table>>
      /\ \/ pc = "test" /\ pc' \in {"ceil", "loop"}
         \/ pc = "loop" /\ pc' = "ceil" /\ iteration > Limit
  BY DEF Converged, GoOn, LimitReached, Keep
<1>1. /\ Gid' = Gid /\ AllEdgeless' = AllEdgeless
      /\ \A e : Passing(e)' = Passing(e)
      /\ \A n : NetgroupsOf(n)' = NetgroupsOf(n)
      /\ \A g : Entries(g)' = Entries(g) /\ Edgeless(g)' = Edgeless(g) /\ Dominant(g)' = Dominant(g)
  BY <1>0, InputKept
<1>2. iteration \in Nat /\ Limit \in Nat
  BY LrAssumption DEF IInv, Shapes
<1>3. Shapes'
  <2>1. pc' \in {"test", "ceil", "round", "apply", "done"} => iteration >= 1
    BY <1>0, <1>2 DEF IInv, Shapes
  <2> QED
    BY <1>0, <1>1, <2>1 DEF IInv, Shapes, Steps
<1>4. Fresh'
  BY <1>0 DEF IInv, Fresh
<1>5. Indexed'
  <2>1. ~Early /\ ~Early'
    BY <1>0 DEF Early
  <2> QED
    BY <1>0, <1>1, <2>1 DEF IInv, Indexed
<1>6. Priced'
  <2>1. ThroughSigmas(patterns)' = ThroughSigmas(patterns)
    BY <1>0, <1>1 DEF ThroughSigmas
  <2> QED
    BY <1>0, <2>1 DEF IInv, Priced
<1>7. Weighed'
  <2>1. \A n : Weightless(n)' = Weightless(n)
    BY <1>0, <1>1 DEF Weightless
  <2> QED
    BY <1>0, <1>1, <2>1 DEF IInv, Weighed
<1>8. InWindow'
  <2>1. pc' = "loop" => Recorded' = Recorded
    BY <1>0 DEF Recorded
  <2> QED
    BY <1>0, <1>1, <2>1 DEF IInv, InWindow
<1>9. Arranged' /\ Written'
  BY <1>0 DEF IInv, Arranged, Written
<1> QED
  BY <1>3, <1>4, <1>5, <1>6, <1>7, <1>8, <1>9 DEF IInv

\* The ceiling keeps the order, and the sums are of the new ratios.
LEMMA CeilingStep == ASSUME IInv, TakeCeiling PROVE IInv'
<1>0. /\ pc = "ceil" /\ pc' \in {"round", "apply"} /\ input' = input
      /\ RecordSums(patterns')
      /\ UNCHANGED <<iteration, lambda, lambdaT, sigmas, made, table>>
  BY DEF TakeCeiling
<1>1. /\ Gid' = Gid /\ AllEdgeless' = AllEdgeless
      /\ \A e : Passing(e)' = Passing(e)
      /\ \A n : NetgroupsOf(n)' = NetgroupsOf(n)
      /\ \A g : Entries(g)' = Entries(g) /\ Edgeless(g)' = Edgeless(g) /\ Dominant(g)' = Dominant(g)
  BY <1>0, InputKept
<1>2. ~Early /\ ~Early'
  BY <1>0 DEF Early
<1>3. /\ Ranked(patterns') /\ patterns' = [e \in Edge |-> patterns'[e]]
      /\ \A e \in Edge : \A i \in DOMAIN patterns'[e] :
           patterns'[e][i].tdm >= 1 /\ EvenRatio(patterns'[e][i].tdm)
  BY CeilingPrices
<1>4. input \in Inputs /\ sigmas = [g \in Gid |-> Entries(g)]
  BY <1>0, <1>2, PatternsRanked
<1>5. /\ sums' = ThroughSigmas(patterns') /\ sums' \in [Gid -> Nat]
      /\ samples' \in [Gid -> [0 .. Window - 1 -> Nat]]
  <2> DEFINE p == patterns'
  <2>1. Ranked(p) /\ (\A e \in Edge : \A i \in DOMAIN p[e] : p[e][i].tdm >= 1) /\ RecordSums(p)
    BY <1>0, <1>3
  <2>2. /\ sums' = ThroughSigmas(p) /\ sums' \in [Gid -> Nat]
        /\ samples' \in [Gid -> [0 .. Window - 1 -> Nat]]
    <3> HIDE DEF p
    <3> QED
      BY <1>4, <2>1, Recording
  <2> QED
    BY <2>2
<1>6. Shapes'
  <2>1. iteration >= 1
    BY <1>0 DEF IInv, Shapes
  <2> QED
    BY <1>0, <1>1, <1>3, <1>5, <2>1 DEF IInv, Shapes, Steps
<1>7. Fresh'
  BY <1>0 DEF IInv, Fresh
<1>8. Indexed'
  <2>1. sigmas' = [g \in Gid |-> Entries(g)]
    BY <1>0, <1>4
  <2> QED
    BY <1>1, <1>2, <1>3, <2>1 DEF Indexed, Ranked
<1>9. Priced'
  <2>1. sums' = ThroughSigmas(patterns)'
    BY <1>0, <1>1, <1>5 DEF ThroughSigmas
  <2> QED
    BY <1>0, <1>3, <2>1 DEF IInv, Priced
<1>10. Weighed'
  <2>1. \A n : Weightless(n)' = Weightless(n)
    BY <1>0, <1>1 DEF Weightless
  <2> QED
    BY <1>0, <1>1, <2>1 DEF IInv, Weighed
<1>11. InWindow'
  BY <1>0 DEF InWindow
<1>12. Arranged'
  <2>1. ASSUME NEW e \in Edge
        PROVE  Rearranged(e, patterns'[e])
    <3> DEFINE p == patterns'
    <3> HIDE DEF p
    <3>1. Ranked(p)
      BY <1>3 DEF p
    <3>2. Rearranged(e, p[e])
      BY <1>4, <3>1, RankedIsArranged
    <3> QED
      BY <3>2 DEF p
  <2> QED
    BY <1>1, <1>3, <2>1 DEF Arranged, Rearranged
<1>13. Written'
  BY <1>0 DEF IInv, Written
<1> QED
  BY <1>6, <1>7, <1>8, <1>9, <1>10, <1>11, <1>12, <1>13 DEF IInv

\* round() changes the order, which nothing reads through _sigmas any more.
LEMMA RoundStep == ASSUME IInv, Round PROVE IInv'
<1>0. /\ pc = "round" /\ pc' = "apply" /\ input' = input
      /\ UNCHANGED <<iteration, lambda, lambdaT, sigmas, sums, samples, made, table>>
  BY DEF Round
<1>1. /\ Gid' = Gid /\ AllEdgeless' = AllEdgeless
      /\ \A e : Passing(e)' = Passing(e)
      /\ \A n : NetgroupsOf(n)' = NetgroupsOf(n)
      /\ \A g : Entries(g)' = Entries(g) /\ Edgeless(g)' = Edgeless(g) /\ Dominant(g)' = Dominant(g)
  BY <1>0, InputKept
<1>2. ~Early /\ ~Early'
  BY <1>0 DEF Early
<1>3. /\ patterns' = [e \in Edge |-> patterns'[e]]
      /\ \A e \in Edge : /\ Rearranged(e, patterns'[e])
                         /\ \A i \in DOMAIN patterns'[e] : EvenRatio(patterns'[e][i].tdm)
  BY RoundArranges
<1>4. Shapes'
  BY <1>0, <1>1, <1>3 DEF IInv, Shapes, Steps
<1>5. Fresh'
  BY <1>0 DEF IInv, Fresh
<1>6. Indexed'
  <2>1. sigmas' = [g \in Gid |-> Entries(g)]
    BY <1>0, <1>2 DEF IInv, Indexed
  <2> QED
    BY <1>0, <1>1, <1>2, <1>3, <2>1 DEF Indexed, Rearranged
<1>7. Priced'
  BY <1>0 DEF IInv, Priced
<1>8. Weighed'
  <2>1. \A n : Weightless(n)' = Weightless(n)
    BY <1>0, <1>1 DEF Weightless
  <2> QED
    BY <1>0, <1>1, <2>1 DEF IInv, Weighed
<1>9. InWindow'
  BY <1>0 DEF InWindow
<1>10. Arranged'
  BY <1>1, <1>3 DEF Arranged, Rearranged
<1>11. Written'
  BY <1>0 DEF IInv, Written
<1> QED
  BY <1>4, <1>5, <1>6, <1>7, <1>8, <1>9, <1>10, <1>11 DEF IInv

\* Apply fills the table.
LEMMA ApplyStep == ASSUME IInv, Apply PROVE IInv'
<1>0. /\ pc = "apply" /\ pc' = "done" /\ input' = input
      /\ table' = [e \in Edge |-> [n \in Net |->
           IF Places(e, n) # {} THEN RatioFor(e, n) ELSE table[e][n]]]
      /\ UNCHANGED <<iteration, lambda, lambdaT, patterns, sigmas, sums, samples, made>>
  BY DEF Apply
<1>1. /\ Gid' = Gid /\ AllEdgeless' = AllEdgeless
      /\ \A e : Passing(e)' = Passing(e)
      /\ \A n : NetgroupsOf(n)' = NetgroupsOf(n)
      /\ \A g : Entries(g)' = Entries(g) /\ Edgeless(g)' = Edgeless(g) /\ Dominant(g)' = Dominant(g)
  BY <1>0, InputKept
<1>2. ~Early /\ ~Early'
  BY <1>0 DEF Early
<1>3. Shapes'
  BY <1>0, <1>1 DEF IInv, Shapes, Steps
<1>4. Fresh'
  BY <1>0 DEF IInv, Fresh
<1>5. Indexed'
  BY <1>0, <1>1, <1>2 DEF IInv, Indexed
<1>6. Priced'
  BY <1>0 DEF IInv, Priced
<1>7. Weighed'
  <2>1. \A n : Weightless(n)' = Weightless(n)
    BY <1>0, <1>1 DEF Weightless
  <2> QED
    BY <1>0, <1>1, <2>1 DEF IInv, Weighed
<1>8. InWindow'
  BY <1>0 DEF InWindow
<1>9. Arranged'
  BY <1>0, <1>1 DEF IInv, Arranged, Rearranged
<1>10. Written'
  <2>1. \A e, n : Places(e, n)' = Places(e, n) /\ RatioFor(e, n)' = RatioFor(e, n)
    BY <1>0 DEF Places, RatioFor, TdmOf
  <2>2. table = [e \in Edge |-> [n \in Net |-> 0]]
    BY <1>0 DEF IInv, Written
  <2>3. \A e \in Edge, n \in Net : table[e][n] = 0
    BY <2>2
  <2>4. table' = [e \in Edge |-> [n \in Net |-> IF Places(e, n) # {} THEN RatioFor(e, n) ELSE 0]]
    BY <1>0, <2>3
  <2> QED
    BY <1>0, <2>1, <2>4 DEF Written
<1> QED
  BY <1>3, <1>4, <1>5, <1>6, <1>7, <1>8, <1>9, <1>10 DEF IInv

\* Nothing moves.
LEMMA StutterStep == ASSUME IInv, UNCHANGED vars PROVE IInv'
<1>0. UNCHANGED <<input, iteration, lambda, lambdaT, patterns, sigmas, sums, samples, made, table, pc>>
  BY DEF vars
<1>1. /\ Gid' = Gid /\ AllEdgeless' = AllEdgeless
      /\ \A e : Passing(e)' = Passing(e)
      /\ \A n : NetgroupsOf(n)' = NetgroupsOf(n)
      /\ \A g : Entries(g)' = Entries(g) /\ Edgeless(g)' = Edgeless(g) /\ Dominant(g)' = Dominant(g)
  BY <1>0, InputKept
<1>2. (Early' <=> Early) /\ Recorded' = Recorded /\ ThroughSigmas(patterns)' = ThroughSigmas(patterns)
  BY <1>0, <1>1 DEF Early, Recorded, ThroughSigmas
<1>3. \A n : Weightless(n)' = Weightless(n)
  BY <1>0, <1>1 DEF Weightless
<1>4. \A e, n : Places(e, n)' = Places(e, n) /\ RatioFor(e, n)' = RatioFor(e, n)
  BY <1>0 DEF Places, RatioFor, TdmOf
<1>5. Shapes' /\ Fresh'
  BY <1>0, <1>1 DEF IInv, Shapes, Fresh
<1>6. Indexed'
  BY <1>0, <1>1, <1>2 DEF IInv, Indexed
<1>7. Priced' /\ Weighed'
  BY <1>0, <1>1, <1>2, <1>3 DEF IInv, Priced, Weighed
<1>8. InWindow'
  BY <1>0, <1>1, <1>2 DEF IInv, InWindow
<1>9. Arranged'
  BY <1>0, <1>1 DEF IInv, Arranged, Rearranged
<1>10. Written'
  BY <1>0, <1>4 DEF IInv, Written
<1> QED
  BY <1>5, <1>6, <1>7, <1>8, <1>9, <1>10 DEF IInv

\* The inductive invariant, for every number of nets, edges, groups and iterations.
THEOREM Invariant == Spec => []IInv
<1>1. Init => IInv
  BY InitInv
<1>2. IInv /\ [Next]_vars => IInv'
  <2> SUFFICES ASSUME IInv, [Next]_vars PROVE IInv'
    OBVIOUS
  <2>1. CASE CalcLambdaT
    BY <2>1, CalcLambdaTStep
  <2>2. CASE InitSigmasAndPatterns
    BY <2>2, IndexStep
  <2>3. CASE CalcCauchy
    BY <2>3, CalcCauchyStep
  <2>4. CASE CalcZ
    BY <2>4, CalcZStep
  <2>5. CASE UpdateLambdaNG
    BY <2>5, UpdateStep
  <2>6. CASE Converged \/ GoOn \/ LimitReached
    BY <2>6, TestStep
  <2>7. CASE TakeCeiling
    BY <2>7, CeilingStep
  <2>8. CASE Round
    BY <2>8, RoundStep
  <2>9. CASE Apply
    BY <2>9, ApplyStep
  <2>10. CASE Stopped \/ UNCHANGED vars
    BY <2>10, StutterStep DEF Stopped
  <2> QED
    BY <2>1, <2>2, <2>3, <2>4, <2>5, <2>6, <2>7, <2>8, <2>9, <2>10 DEF Next
<1> QED
  BY <1>1, <1>2, PTL DEF Spec

-----------------------------------------------------------------------------
(* What the invariant is for.                                              *)

\* The test of the loop, and the step of the multipliers, see sums and bound of
\* the multipliers of this iteration.
THEOREM OneMultiplier == Spec => []GapOfOneMultiplier
<1>1. IInv => GapOfOneMultiplier
  BY DEF IInv, Fresh, GapOfOneMultiplier
<1> QED
  BY <1>1, Invariant, PTL

\* The place of a net on an edge of its tree, by the order of the ids or by search.
LEMMA PlaceOfNet ==
  ASSUME input \in Inputs, Ranked(patterns), NEW n \in Net, NEW e \in input.tree[n]
  PROVE  TdmOf(e, n) = patterns[e][Rank(Passing(e), n)].tdm
<1> DEFINE r == Rank(Passing(e), n)
           S == Places(e, n)
<1>1. /\ r \in DOMAIN patterns[e]
      /\ \A i \in DOMAIN patterns[e] : patterns[e][i].net = n <=> i = r
  BY RankOfNet
<1>2. r \in Nat
  <2>1. e \in Edge
    BY RankOfNet
  <2>2. DOMAIN patterns[e] = 1 .. Cardinality(Passing(e))
    BY <2>1 DEF Ranked
  <2> HIDE DEF r
  <2> QED
    BY <1>1, <2>2
<1> HIDE DEF r
<1>3. S = {r}
  BY <1>1 DEF Places
<1>4. Min(S) = r
  <2> HIDE DEF S
  <2>1. S \in SUBSET Nat /\ S # {}
    BY <1>2, <1>3
  <2>2. Min(S) \in S
    BY <2>1, MinOfNats
  <2> QED
    BY <1>3, <2>2
<1> QED
  BY <1>4 DEF TdmOf, r

\* Sums found through _sigmas are those the trees and membership lists define.
THEOREM SumsAreTotals == Spec => []TotalsThroughSigmas
<1>1. ASSUME IInv PROVE TotalsThroughSigmas
  <2> SUFFICES ASSUME pc \in {"loop", "test", "round"}, NEW g \in Gid
               PROVE  sums[g] = SumFunction([i \in DOMAIN input.group[g] |->
                        LET n == input.group[g][i]
                        IN  SumFunction([e \in input.tree[n] |-> TdmOf(e, n)])])
    BY DEF TotalsThroughSigmas
  <2>1. ~Early /\ pc \notin {"apply", "done"}
    BY DEF Early
  <2>2. input \in Inputs /\ Ranked(patterns) /\ sigmas = [h \in Gid |-> Entries(h)]
    BY <1>1, <2>1, PatternsRanked
  <2>3. sums[g] = GroupCost(patterns, g)
    <3>1. sums = ThroughSigmas(patterns)
      BY <1>1 DEF IInv, Priced
    <3> QED
      BY <2>2, <3>1, SumsFound
  <2>4. ASSUME NEW n \in Net
        PROVE  Prices(patterns, n) = [e \in input.tree[n] |-> TdmOf(e, n)]
    BY <2>2, PlaceOfNet DEF Prices
  <2> DEFINE s == input.group[g]
             c(i) == SumFunction([e \in input.tree[s[i]] |-> TdmOf(e, s[i])])
  <2>5. \A i \in DOMAIN s : s[i] \in Net
    BY <2>2, InputType DEF Gid
  <2>6. \A i \in DOMAIN s : NetCost(patterns, s[i]) = c(i)
    BY <2>4, <2>5 DEF NetCost
  <2>7. GroupCost(patterns, g) = SumFunction([i \in DOMAIN s |-> c(i)])
    <3> HIDE DEF c
    <3>1. [i \in DOMAIN s |-> NetCost(patterns, s[i])] = [i \in DOMAIN s |-> c(i)]
      BY <2>6
    <3> QED
      BY <3>1 DEF GroupCost
  <2> QED
    BY <2>3, <2>7
<1> QED
  BY <1>1, Invariant, PTL

\* Whatever vanishes, a dominant group keeps its multiplier: only an input with a net
\* in no such group meets the assertion, only one without such a group loses all
\* multipliers, and one with an unpriced net passes only without any edges.
THEOREM DominantGroupsSave == Spec => []StopsWithoutDominantGroup
<1>1. ASSUME IInv PROVE StopsWithoutDominantGroup
  <2>1. \A n : Unpriced(n) <=> \A g \in NetgroupsOf(n) : Edgeless(g)
    BY DEF Unpriced, Edgeless
  <2>2. ASSUME pc = "aborted" PROVE \E n \in Net : \A g \in NetgroupsOf(n) : ~Dominant(g)
    <3>1. PICK n \in Net : Weightless(n)
      BY <1>1, <2>2 DEF IInv, Weighed
    <3>2. \A g \in NetgroupsOf(n) : ~Dominant(g)
      BY <1>1, <3>1 DEF IInv, Weighed, Weightless, NetgroupsOf
    <3> QED
      BY <3>2
  <2>4. ASSUME pc = "undefined", NEW g \in Gid PROVE ~Dominant(g)
    BY <1>1, <2>4 DEF IInv, Weighed
  <2>3. ASSUME pc = "done", NEW n \in Net, Unpriced(n)
        PROVE  \A m \in Net : input.tree[m] = {} /\ NetgroupsOf(m) # {}
    <3>1. \A m \in Net : \E g \in NetgroupsOf(m) : g \in Gid /\ lambda[g]
      BY <1>1, <2>3 DEF IInv, Weighed, Weightless, NetgroupsOf
    <3>2. PICK g \in NetgroupsOf(n) : g \in Gid /\ lambda[g]
      BY <3>1
    <3>3. Edgeless(g)
      BY <2>1, <2>3, <3>2
    <3>4. iteration >= 1
      BY <1>1, <2>3 DEF IInv, Shapes
    <3>5. AllEdgeless
      BY <1>1, <3>2, <3>3, <3>4 DEF IInv, Weighed
    <3>6. ASSUME NEW m \in Net PROVE input.tree[m] = {} /\ NetgroupsOf(m) # {}
      <4>1. PICK h \in NetgroupsOf(m) : h \in Gid
        BY <3>1
      <4>2. m \in ToSet(input.group[h]) /\ Edgeless(h)
        BY <3>5, <4>1 DEF NetgroupsOf, AllEdgeless
      <4> QED
        BY <4>1, <4>2 DEF Edgeless
    <3> QED
      BY <3>6
  <2> QED
    BY <2>2, <2>3, <2>4 DEF StopsWithoutDominantGroup
<1> QED
  BY <1>1, Invariant, PTL

\* At the end the nets of an edge, and no others, are found there, with an even ratio
\* if it fits UI.
LEMMA OwnerRatio ==
  ASSUME IInv, pc \in {"apply", "done"}, NEW e \in Edge, NEW n \in Net
  PROVE  /\ Places(e, n) # {} <=> n \in Passing(e)
         /\ Places(e, n) # {} => RatioFor(e, n) \in Nat
         /\ Places(e, n) # {} /\ TdmOf(e, n) < Scale * UIntSize =>
              /\ RatioFor(e, n) > 0 /\ RatioFor(e, n) % 2 = 0
              /\ RatioFor(e, n) * Scale = TdmOf(e, n)
<1> DEFINE s == patterns[e]
           S == Passing(e)
           m == Cardinality(S)
           b == [i \in DOMAIN s |-> s[i].net]
           P == Places(e, n)
<1>1. s \in [1 .. m -> [net : Net, tdm : Nat]] /\ b \in Bijection(1 .. m, S)
      /\ \A i \in DOMAIN s : EvenRatio(s[i].tdm)
  BY DEF IInv, Arranged, Rearranged
<1>2. P = {i \in DOMAIN s : s[i].net = n}
  BY DEF Places
<1>3. DOMAIN s = 1 .. m /\ \A i \in 1 .. m : b[i] = s[i].net
  BY <1>1
<1> HIDE DEF b, S, s, m, P
<1>4. b \in [1 .. m -> S] /\ \A x \in S : \E i \in 1 .. m : b[i] = x
  BY <1>1 DEF Bijection, Injection, Surjection
<1>5. P # {} <=> n \in S
  BY <1>2, <1>3, <1>4
<1>6. ASSUME P # {}
      PROVE  /\ RatioFor(e, n) \in Nat
             /\ TdmOf(e, n) < Scale * UIntSize =>
                  /\ RatioFor(e, n) > 0 /\ RatioFor(e, n) % 2 = 0
                  /\ RatioFor(e, n) * Scale = TdmOf(e, n)
  <2> DEFINE i == Min(P)
             t == s[i].tdm
             x == t \div Scale
  <2>1. P \in SUBSET Nat
    BY <1>2, <1>3
  <2>2. i \in P
    BY <1>6, <2>1, MinOfNats
  <2> HIDE DEF i
  <2>3. t \in Nat /\ EvenRatio(t)
    BY <1>1, <1>2, <2>2
  <2>4. TdmOf(e, n) = t /\ RatioFor(e, n) = IF x < UIntSize THEN x ELSE x % UIntSize
    BY DEF TdmOf, RatioFor, i, P, s
  <2>5. Scale \in Nat \ {0} /\ UIntSize \in Nat \ {0}
    BY LrAssumption
  <2> HIDE DEF t
  <2>6. x \in Nat /\ x > 0 /\ x % 2 = 0 /\ t = Scale * x
    BY <2>3, <2>5 DEF EvenRatio
  <2> HIDE DEF x
  <2>7. x * Scale = Scale * x /\ x % UIntSize \in Nat
    BY <2>5, <2>6
  <2>8. ASSUME t < Scale * UIntSize PROVE x < UIntSize
    <3> SUFFICES ASSUME UIntSize <= x PROVE FALSE
      BY <2>5, <2>6
    <3>1. Scale * UIntSize <= Scale * x
      BY <2>5, <2>6
    <3> QED
      BY <2>5, <2>6, <2>8, <3>1
  <2> QED
    BY <2>4, <2>6, <2>7, <2>8
<1> QED
  BY <1>5, <1>6 DEF P, S

\* The table gets, for every net on every edge of its tree and nowhere else, the
\* even ratio legalised for it if it fits UI.
THEOREM OwnersServed == Spec => []AppliedToOwner
<1>1. ASSUME IInv PROVE AppliedToOwner
  <2>1. input \in Inputs /\ iteration \in 0 .. Limit + 1
        /\ lambda \in [Gid -> BOOLEAN] /\ lambdaT \in [Net -> 0 .. MaxWeight] /\ sums \in [Gid -> Nat]
    BY <1>1 DEF IInv, Shapes
  <2>2. ASSUME NEW e \in Edge, NEW i \in DOMAIN patterns[e] PROVE patterns[e][i].net \in Net
    <3>1. CASE Early
      BY <1>1, <2>2, <3>1 DEF IInv, Indexed
    <3>2. CASE ~Early
      <4> DEFINE s == patterns[e]
                 m == Cardinality(Passing(e))
      <4>1. s \in [1 .. m -> [net : Net, tdm : Nat]] /\ i \in DOMAIN s
        BY <1>1, <3>2 DEF IInv, Indexed
      <4>2. s[i].net \in Net
        <5> HIDE DEF s, m
        <5> QED
          BY ONLY <4>1
      <4> QED
        BY <4>2
    <3> QED
      BY <3>1, <3>2
  <2>3. CASE pc # "done"
    <3>1. table = [e \in Edge |-> [n \in Net |-> 0]]
      BY <1>1, <2>3 DEF IInv, Written
    <3>2. table \in [Edge -> [Net -> Nat]]
      BY <3>1
    <3> QED
      BY <2>1, <2>2, <2>3, <3>2 DEF AppliedToOwner, TypeOK
  <2>4. CASE pc = "done"
    <3>1. table = [e \in Edge |-> [n \in Net |-> IF Places(e, n) # {} THEN RatioFor(e, n) ELSE 0]]
      BY <1>1, <2>4 DEF IInv, Written
    <3>2. ASSUME NEW e \in Edge, NEW n \in Net
          PROVE  /\ table[e][n] \in Nat
                 /\ IF n \in Passing(e)
                    THEN TdmOf(e, n) < Scale * UIntSize =>
                           table[e][n] > 0 /\ table[e][n] % 2 = 0 /\ table[e][n] * Scale = TdmOf(e, n)
                    ELSE table[e][n] = 0
      <4>1. table[e][n] = IF Places(e, n) # {} THEN RatioFor(e, n) ELSE 0
        BY <3>1
      <4>2. /\ Places(e, n) # {} <=> n \in Passing(e)
            /\ Places(e, n) # {} => RatioFor(e, n) \in Nat
            /\ Places(e, n) # {} /\ TdmOf(e, n) < Scale * UIntSize =>
                 /\ RatioFor(e, n) > 0 /\ RatioFor(e, n) % 2 = 0
                 /\ RatioFor(e, n) * Scale = TdmOf(e, n)
        BY <1>1, <2>4, OwnerRatio
      <4>3. CASE n \in Passing(e)
        <5>1. table[e][n] = RatioFor(e, n)
          BY <4>1, <4>2, <4>3
        <5> QED
          BY <4>2, <4>3, <5>1
      <4>4. CASE n \notin Passing(e)
        BY <4>1, <4>2, <4>4
      <4> QED
        BY <4>3, <4>4
    <3>3. table \in [Edge -> [Net -> Nat]]
      <4>1. ASSUME NEW e \in Edge PROVE table[e] \in [Net -> Nat]
        <5>1. table[e] = [n \in Net |-> table[e][n]]
          BY <3>1
        <5> QED
          BY <3>2, <5>1
      <4>2. table = [e \in Edge |-> table[e]]
        BY <3>1
      <4> QED
        BY <4>1, <4>2
    <3> QED
      BY <2>1, <2>2, <3>2, <3>3 DEF AppliedToOwner, TypeOK
  <2> QED
    BY <2>3, <2>4
<1> QED
  BY <1>1, Invariant, PTL

\* The samples up to the first empty slot are those of the latest iterations.
LEMMA RecentSamples ==
  ASSUME NEW k \in Nat, NEW f \in [0 .. Window - 1 -> Nat],
         \A s \in 0 .. Window - 1 : Holds(s, f[s], k)
  PROVE  {f[s] : s \in {s \in 0 .. Window - 1 : \A r \in 0 .. s : f[r] # 0}} =
           {i + 1 : i \in Max({0, k - Window + 1}) .. k}
<1> DEFINE low == Max({0, k - Window + 1})
           slots == {s \in 0 .. Window - 1 : \A r \in 0 .. s : f[r] # 0}
<1>0. Window \in Nat \ {0}
  BY LrAssumption
<1>1. low \in Nat /\ low >= k - Window + 1 /\ (low = 0 \/ low = k - Window + 1)
  <2> DEFINE a == k - Window + 1
  <2>1. a \in Int
    BY <1>0
  <2> HIDE DEF a
  <2>2. \E x \in {0, a} : \A y \in {0, a} : x >= y
    BY <2>1
  <2>3. Max({0, a}) \in {0, a} /\ \A y \in {0, a} : Max({0, a}) >= y
    BY <2>2 DEF Max
  <2>4. Max({0, a}) \in Nat /\ Max({0, a}) >= a /\ (Max({0, a}) = 0 \/ Max({0, a}) = a)
    BY <2>1, <2>3
  <2> QED
    BY <2>4 DEF a
<1>2. ASSUME NEW s \in 0 .. Window - 1, s <= k
      PROVE  f[s] \in 1 .. k + 1 /\ f[s] + Window > k + 1 /\ (f[s] - 1) % Window = s
  BY <1>2 DEF Holds
<1>3. ASSUME NEW s \in 0 .. Window - 1, s > k PROVE f[s] = 0
  <2> SUFFICES ASSUME f[s] \in 1 .. k + 1, (f[s] - 1) % Window = s PROVE FALSE
    BY <1>3 DEF Holds
  <2> DEFINE j == f[s] - 1
  <2>1. j \in Nat /\ j <= k /\ j < Window /\ j % Window = s
    BY <1>0, <1>3
  <2> HIDE DEF j
  <2>2. j % Window = j
    <3>1. j \in Nat /\ j < Window
      BY <2>1
    <3> QED
      BY ONLY <1>0, <3>1
  <2> QED
    BY <1>3, <2>1, <2>2
<1>4. slots = {s \in 0 .. Window - 1 : s <= k}
  <2>1. ASSUME NEW s \in slots PROVE s \in 0 .. Window - 1 /\ s <= k
    <3>1. s \in 0 .. Window - 1 /\ s \in 0 .. s /\ f[s] # 0
      OBVIOUS
    <3> QED
      BY <1>3, <3>1
  <2>2. ASSUME NEW s \in 0 .. Window - 1, s <= k PROVE s \in slots
    <3>1. ASSUME NEW r \in 0 .. s PROVE f[r] # 0
      <4>1. r \in 0 .. Window - 1 /\ r <= k
        BY <1>0, <2>2
      <4>2. f[r] \in 1 .. k + 1
        BY <1>2, <4>1
      <4> QED
        BY <4>2
    <3> QED
      BY <3>1
  <2> HIDE DEF slots
  <2> QED
    BY <2>1, <2>2
<1> HIDE DEF low, slots
<1>5. ASSUME NEW s \in slots PROVE \E i \in low .. k : f[s] = i + 1
  <2> DEFINE i == f[s] - 1
  <2>1. f[s] \in 1 .. k + 1 /\ f[s] + Window > k + 1
    BY <1>2, <1>4
  <2>2. /\ i \in Nat /\ f[s] = i + 1 /\ i <= k /\ i + Window > k
        /\ k \in Nat /\ low \in Nat
    BY <1>0, <1>1, <2>1
  <2> HIDE DEF i
  <2>3. low <= i
    BY ONLY <1>0, <1>1, <2>2
  <2>4. i \in low .. k
    BY <2>2, <2>3
  <2> QED
    BY <2>2, <2>4
<1>6. ASSUME NEW i \in low .. k PROVE \E s \in slots : f[s] = i + 1
  <2> DEFINE s == i % Window
             q == i \div Window
             y == Window * q
  <2>1. i \in Nat /\ i <= k /\ i + Window > k
    BY <1>0, <1>1
  <2>2. s \in 0 .. Window - 1 /\ q \in Nat /\ i = y + s
    BY <1>0, <2>1, Division
  <2>3. y \in Nat
    <3> HIDE DEF q
    <3> QED
      BY <1>0, <2>2
  <2>4. s <= k
    <3> HIDE DEF s, y, q
    <3> QED
      BY <2>1, <2>2, <2>3
  <2> DEFINE j == f[s] - 1
  <2>5. j \in Nat /\ j <= k /\ j + Window > k /\ j % Window = i % Window /\ f[s] = j + 1
    <3>1. f[s] \in 1 .. k + 1 /\ f[s] + Window > k + 1 /\ (f[s] - 1) % Window = s
      BY <1>2, <2>2, <2>4
    <3> HIDE DEF s
    <3>2. j % Window = s
      BY <3>1
    <3>3. j \in Nat /\ j <= k /\ j + Window > k /\ f[s] = j + 1
      <4> DEFINE v == f[s]
      <4>1. v \in 1 .. k + 1 /\ v + Window > k + 1
        BY <3>1
      <4> HIDE DEF v
      <4>2. v - 1 \in Nat /\ v - 1 <= k /\ (v - 1) + Window > k /\ v = (v - 1) + 1
        BY ONLY <1>0, <4>1, k \in Nat
      <4> QED
        BY <4>2 DEF v
    <3>4. s = i % Window
      BY DEF s
    <3> HIDE DEF j
    <3> QED
      BY <3>2, <3>3, <3>4
  <2> HIDE DEF j, s, y, q
  <2>6. ~ (j < i)
    <3> SUFFICES ASSUME j < i PROVE FALSE
      OBVIOUS
    <3>1. j + Window <= i
      BY <1>0, <2>1, <2>5, SameSlot
    <3> QED
      BY <1>0, <2>1, <2>5, <3>1
  <2>7. ~ (i < j)
    <3> SUFFICES ASSUME i < j PROVE FALSE
      OBVIOUS
    <3>1. i + Window <= j
      BY <1>0, <2>1, <2>5, SameSlot
    <3> QED
      BY <1>0, <2>1, <2>5, <3>1
  <2>8. j = i
    BY <2>1, <2>5, <2>6, <2>7
  <2>9. s \in slots
    BY <1>4, <2>2, <2>4
  <2> QED
    BY <2>5, <2>8, <2>9
<1>7. {f[s] : s \in slots} = {i + 1 : i \in low .. k}
  BY <1>5, <1>6
<1> QED
  BY <1>7 DEF slots, low

\* The mean is over the samples of the latest iterations, whatever the window.
THEOREM MeanOfRecent == Spec => []WindowIsRecent
<1>1. ASSUME IInv PROVE WindowIsRecent
  <2> SUFFICES ASSUME pc = "loop", NEW g \in Gid, ~SampleIsZero(g)
               PROVE  Sampled(g) = {i + 1 : i \in Max({0, iteration - Window + 1}) .. iteration}
    BY DEF WindowIsRecent
  <2>1. ~Early
    BY DEF Early
  <2>2. Edgeless(g) => AllEdgeless
    <3>1. input \in Inputs /\ Ranked(patterns) /\ sigmas = [h \in Gid |-> Entries(h)]
      BY <1>1, <2>1, PatternsRanked
    <3>2. \A e \in Edge : \A i \in DOMAIN patterns[e] : patterns[e][i].tdm >= 1
      BY <1>1 DEF IInv, Priced
    <3>3. sums = ThroughSigmas(patterns)
      BY <1>1 DEF IInv, Priced
    <3>4. (ThroughSigmas(patterns)[g] = 0 /\ Z(ThroughSigmas(patterns)) # 0) <=> (Edgeless(g) /\ ~AllEdgeless)
      BY <3>1, <3>2, ZeroSums
    <3> QED
      BY <3>3, <3>4 DEF SampleIsZero
  <2> DEFINE f == samples[g]
  <2>3. iteration \in Nat /\ f \in [0 .. Window - 1 -> Nat]
    BY <1>1, LrAssumption DEF IInv, Shapes
  <2>4. \A s \in 0 .. Window - 1 : Holds(s, f[s], iteration)
    BY <1>1, <2>2 DEF IInv, InWindow, Recorded
  <2>5. Sampled(g) = {f[s] : s \in {s \in 0 .. Window - 1 : \A r \in 0 .. s : f[r] # 0}}
    BY DEF Sampled
  <2> HIDE DEF f
  <2> QED
    BY <2>3, <2>4, <2>5, RecentSamples
<1> QED
  BY <1>1, Invariant, PTL
=============================================================================
