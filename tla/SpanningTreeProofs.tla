-------------------------- MODULE SpanningTreeProofs --------------------------
(***************************************************************************)
(* Proofs about BfsDistance and SpanningTree, in four parts.               *)
(*                                                                         *)
(* Breadth-first search: the queue of a task holds FPGAs of one distance,  *)
(* then of the next, and the FPGAs seen are those within the first of them *)
(* and some of those within the second.  An FPGA is seen first from one    *)
(* that is nearest to it, so its distance is right as soon as it is        *)
(* entered.                                                                *)
(*                                                                         *)
(* Trees and cuts: a set of edges spans when every cut is crossed.  Any    *)
(* spanning tree that holds the edges taken so far, but not the next one,  *)
(* can give up an edge across the same cut for it (Exchange), which is no  *)
(* cheaper.  So some cheapest tree holds all edges taken, and in the end   *)
(* is made of them.                                                        *)
(*                                                                         *)
(* The walk: each edge of a tree is the only one across some cut, so only  *)
(* one terminal already met can have queued a terminal (OneWayIn), and the *)
(* queue holds a terminal once.                                            *)
(*                                                                         *)
(* The steps of SpanningTree: MstInv puts the three together.              *)
(***************************************************************************)
EXTENDS SpanningTree, SetFacts

-----------------------------------------------------------------------------
(* Breadth-first search.                                                   *)

\* The neighbours of the members of S in the graph g, and S itself.
Grown(g, S) == S \cup UNION {ToSet(g[u]) : u \in S}

\* The FPGAs are finitely many, and a graph maps them to lists of FPGAs.
LEMMA FpgaFacts ==
  /\ FpgaNum \in Nat \ {0} /\ FpgaNum - 1 \in Nat
  /\ IsFiniteSet(Fpga) /\ Cardinality(Fpga) = FpgaNum
  /\ \A g \in Graphs : g \in [Fpga -> Seq(Fpga)]
<1>1. FpgaNum \in Nat \ {0} /\ \A g \in Graphs : g \in [Fpga -> Seq(Fpga)]
  BY AdjacencyAssumption
<1>2. IsFiniteSet(0 .. FpgaNum - 1) /\ Cardinality(0 .. FpgaNum - 1) = FpgaNum
  BY <1>1, FS_Interval
<1> QED
  BY <1>1, <1>2 DEF Fpga

\* The members of a list.
LEMMA MembersOf ==
  ASSUME NEW S, NEW q \in Seq(S)
  PROVE  /\ ToSet(q) \subseteq S
         /\ \A x : x \in ToSet(q) <=> \E i \in 1 .. Len(q) : q[i] = x
BY DEF ToSet

\* The balls around s.
LEMMA BallFacts ==
  ASSUME NEW g \in Graphs, NEW s \in Fpga
  PROVE  /\ Ball(g, s) \in [0 .. FpgaNum - 1 -> SUBSET Fpga]
         /\ Ball(g, s)[0] = {s}
         /\ \A k \in 1 .. FpgaNum - 1 : Ball(g, s)[k] = Grown(g, Ball(g, s)[k - 1])
<1> DEFINE n == FpgaNum - 1
           Y == SUBSET Fpga
           base == {s}
           G == [i \in 1 .. n |-> [y \in Y |-> Grown(g, y)]]
<1>1. n \in Nat /\ g \in [Fpga -> Seq(Fpga)]
  BY FpgaFacts
<1>2. ASSUME NEW y \in Y PROVE Grown(g, y) \in Y
  <2>1. ASSUME NEW u \in y PROVE ToSet(g[u]) \subseteq Fpga
    BY <1>1, MembersOf
  <2> QED
    BY <2>1 DEF Grown
<1>3. PICK h \in [SUBSET (1 .. n) -> Y] : IsFold(h, n, base, G)
  <2>1. G \in [1 .. n -> [Y -> Y]] /\ base \in Y
    BY <1>2
  <2> HIDE DEF G, Y, base, n
  <2> QED
    BY <1>1, <2>1, FoldExists
<1> DEFINE b == [k \in 0 .. n |-> h[1 .. k]]
           Step(f) == [k \in 0 .. n |-> IF k = 0 THEN {s} ELSE Grown(g, f[k - 1])]
<1>4. ASSUME NEW k \in 1 .. n
      PROVE  h[1 .. k] = Grown(g, h[1 .. k - 1])
  <2> DEFINE S == 1 .. k
  <2>1. k \in Nat /\ S \in SUBSET (1 .. k) /\ S # {} /\ k \in S /\ S \in SUBSET (1 .. n)
    <3> HIDE DEF n
    <3>1. k \in Nat /\ 1 <= k /\ k <= n
      BY <1>1
    <3>2. k \in 1 .. k /\ 1 .. k # {}
      BY <3>1
    <3>3. 1 .. k \in SUBSET (1 .. n)
      BY <1>1, <3>1
    <3> QED
      BY <3>1, <3>2, <3>3
  <2>2. Max(S) = k
    <3> HIDE DEF S
    <3> QED
      BY <2>1, MaxOfIndices
  <2>3. S \ {k} = 1 .. k - 1 /\ 1 .. k - 1 \in SUBSET (1 .. n)
    <3> HIDE DEF n
    <3> QED
      BY <1>1
  <2>4. h[S] = G[k][h[S \ {k}]]
    BY <1>3, <2>1, <2>2 DEF IsFold
  <2>5. h[1 .. k - 1] \in Y
    BY <2>3
  <2> QED
    BY <2>3, <2>4, <2>5
<1>5. h[1 .. 0] = {s}
  <2>1. 1 .. 0 = {} /\ {} \in SUBSET (1 .. n)
    OBVIOUS
  <2> QED
    BY <1>3, <2>1 DEF IsFold
<1>6. b = Step(b)
  <2>1. ASSUME NEW k \in 0 .. n PROVE b[k] = IF k = 0 THEN {s} ELSE Grown(g, b[k - 1])
    <3>1. CASE k = 0
      BY <1>5, <3>1
    <3>2. CASE k # 0
      <4>1. k \in 1 .. n /\ k - 1 \in 0 .. n
        BY <1>1, <3>2
      <4> QED
        BY <1>4, <3>2, <4>1
    <3> QED
      BY <3>1, <3>2
  <2>2. b = [k \in 0 .. n |-> b[k]]
    OBVIOUS
  <2> HIDE DEF b
  <2> QED
    BY <2>1, <2>2
<1>7. Ball(g, s) = CHOOSE f : f = Step(f)
  BY DEF Ball, Grown
<1> DEFINE c == Ball(g, s)
<1>8. c = Step(c)
  <2> HIDE DEF Step, b
  <2> QED
    BY <1>6, <1>7
<1> HIDE DEF c
<1>9. c[0] = {s} /\ \A k \in 1 .. n : c[k] = Grown(g, c[k - 1])
  <2>1. 0 \in 0 .. n /\ \A k \in 1 .. n : k \in 0 .. n /\ k # 0
    BY <1>1
  <2> HIDE DEF n
  <2> QED
    BY <1>8, <2>1
<1>10. c \in [0 .. n -> Y]
  <2> DEFINE good == {k \in 0 .. n : c[k] \in Y}
  <2>1. 0 \in good
    BY <1>1, <1>9
  <2>2. ASSUME NEW k \in 0 .. n - 1, k \in good PROVE k + 1 \in good
    <3>1. k + 1 \in 1 .. n /\ (k + 1) - 1 = k /\ k + 1 \in 0 .. n
      BY <1>1
    <3>2. c[k + 1] = Grown(g, c[k])
      BY <1>9, <3>1
    <3> QED
      BY <1>2, <2>2, <3>1, <3>2
  <2>3. 0 .. n \subseteq good
    <3> HIDE DEF good, n
    <3> QED
      BY <1>1, <2>1, <2>2, IntervalInduction, Zenon
  <2>4. DOMAIN c = 0 .. n /\ c = [k \in 0 .. n |-> c[k]]
    BY <1>8
  <2> HIDE DEF n, Y
  <2> QED
    BY <2>3, <2>4
<1> QED
  BY <1>9, <1>10 DEF c

\* A ball contains the smaller balls around its centre.
LEMMA BallsGrow ==
  ASSUME NEW g \in Graphs, NEW s \in Fpga, NEW j \in 0 .. FpgaNum - 1
  PROVE  \A k \in 0 .. FpgaNum - 1 : j <= k => Ball(g, s)[j] \subseteq Ball(g, s)[k]
<1> DEFINE n == FpgaNum - 1
           b == Ball(g, s)
           good == {k \in 0 .. n : j <= k => b[j] \subseteq b[k]}
<1>1. n \in Nat
  BY FpgaFacts
<1>2. 0 \in good
  <2>1. 0 \in 0 .. n /\ (j <= 0 => j = 0)
    BY <1>1
  <2> HIDE DEF b
  <2> QED
    BY <2>1
<1>3. ASSUME NEW k \in 0 .. n - 1, k \in good PROVE k + 1 \in good
  <2>1. k + 1 \in 1 .. n /\ (k + 1) - 1 = k /\ k + 1 \in 0 .. n
    BY <1>1
  <2>2. b[k + 1] = Grown(g, b[k])
    BY <2>1, BallFacts
  <2>3. b[k] \subseteq b[k + 1]
    BY <2>2 DEF Grown
  <2>4. j <= k + 1 => j <= k \/ j = k + 1
    BY <1>1
  <2> HIDE DEF b
  <2> QED
    BY <1>3, <2>1, <2>3, <2>4
<1>4. 0 .. n \subseteq good
  <2> HIDE DEF good, n
  <2> QED
    BY <1>1, <1>2, <1>3, IntervalInduction, Zenon
<1> QED
  BY <1>4

\* The least of the radii of the balls that hold v is its hop count.
LEMMA HopsFacts ==
  ASSUME NEW g \in Graphs, NEW s \in Fpga, NEW v \in Fpga
  PROVE  /\ \A d \in 0 .. FpgaNum - 1 :
              v \in Ball(g, s)[d] /\ (d > 0 => v \notin Ball(g, s)[d - 1]) => Hops(g, s)[v] = d
         /\ (\A d \in 0 .. FpgaNum - 1 : v \notin Ball(g, s)[d]) => Hops(g, s)[v] = Unreached
<1> DEFINE b == Ball(g, s)
           within == {k \in 0 .. FpgaNum - 1 : v \in b[k]}
<1>1. Hops(g, s)[v] = IF within = {} THEN Unreached ELSE Min(within)
  BY DEF Hops
<1>2. ASSUME NEW d \in 0 .. FpgaNum - 1, v \in b[d], d > 0 => v \notin b[d - 1]
      PROVE  Min(within) = d /\ within # {}
  <2>1. d \in within /\ within \in SUBSET Nat
    BY <1>2
  <2>2. Min(within) \in within /\ Min(within) <= d
    <3> HIDE DEF within
    <3> QED
      BY <2>1, MinOfNats
  <2> DEFINE m == Min(within)
  <2>3. m \in 0 .. FpgaNum - 1 /\ v \in b[m] /\ m <= d
    BY <2>2
  <2> HIDE DEF m
  <2>4. ASSUME m < d PROVE FALSE
    <3>1. d > 0 /\ d - 1 \in 0 .. FpgaNum - 1 /\ m <= d - 1
      BY <2>3, <2>4, FpgaFacts
    <3>2. b[m] \subseteq b[d - 1]
      BY <2>3, <3>1, BallsGrow
    <3> QED
      BY <1>2, <2>3, <3>1, <3>2
  <2>5. m = d
    BY <2>3, <2>4, FpgaFacts
  <2> QED
    BY <2>1, <2>5 DEF m
<1> HIDE DEF b
<1>3. (\A d \in 0 .. FpgaNum - 1 : v \notin b[d]) => within = {}
  OBVIOUS
<1> HIDE DEF within
<1> QED
  BY <1>1, <1>2, <1>3 DEF b

-----------------------------------------------------------------------------
(* One task.                                                               *)

\* The task of s: its row is right as far as it has got.
QueueOK(s, q, V, row) ==
  /\ q \in Seq(Fpga) /\ IsInjective(q) /\ ToSet(q) \subseteq V
  /\ s \in V /\ V \subseteq Fpga
  /\ row \in [Fpga -> -1 .. FpgaNum - 1]
  /\ \A v \in Fpga \ V : row[v] = Unreached
  /\ \A v \in V : row[v] \in 0 .. Cardinality(V) - 1
  /\ \A i, j \in 1 .. Len(q) : i <= j => row[q[i]] <= row[q[j]] /\ row[q[j]] <= row[q[1]] + 1

Settled(g, q, V, row) ==
  \A v \in V \ ToSet(q) :
    ToSet(g[v]) \subseteq V /\ (q # <<>> => row[v] <= row[q[1]])

Measured(g, s, q, V, row) ==
  /\ \A v \in V : v \in Ball(g, s)[row[v]]
  /\ \A k \in 0 .. FpgaNum - 1 :
       (q # <<>> => k <= row[q[1]]) => Ball(g, s)[k] \subseteq {v \in V : row[v] <= k}

Explored(g, s, q, V, row) ==
  QueueOK(s, q, V, row) /\ Settled(g, q, V, row) /\ Measured(g, s, q, V, row)

\* What a task has entered is the hop count.
LEMMA ExploredExact ==
  ASSUME NEW g \in Graphs, NEW s \in Fpga, NEW q, NEW V, NEW row, Explored(g, s, q, V, row)
  PROVE  /\ \A v \in V : row[v] = Hops(g, s)[v]
         /\ q = <<>> => row = Hops(g, s)
<1>1. /\ q \in Seq(Fpga) /\ ToSet(q) \subseteq V /\ V \subseteq Fpga
      /\ row \in [Fpga -> -1 .. FpgaNum - 1]
      /\ \A v \in Fpga \ V : row[v] = Unreached
      /\ \A v \in V : row[v] \in 0 .. Cardinality(V) - 1
  BY DEF Explored, QueueOK
<1>2. /\ \A v \in V : v \in Ball(g, s)[row[v]]
      /\ \A k \in 0 .. FpgaNum - 1 :
           (q # <<>> => k <= row[q[1]]) => Ball(g, s)[k] \subseteq {v \in V : row[v] <= k}
  BY DEF Explored, Measured
<1>3. ASSUME NEW v \in V PROVE row[v] \in 0 .. FpgaNum - 1
  <2>1. IsFiniteSet(Fpga) /\ Cardinality(V) <= FpgaNum /\ Cardinality(V) \in Nat
    BY <1>1, FpgaFacts, FS_Subset, FS_CardinalityType
  <2> QED
    BY <1>1, <2>1, FpgaFacts
<1>4. ASSUME NEW v \in V, q # <<>> PROVE row[v] <= row[q[1]] + 1
  <2>1. Len(q) \in Nat /\ 1 \in 1 .. Len(q) /\ q[1] \in V
    BY <1>1, <1>4, MembersOf
  <2>2. row[q[1]] \in Int /\ row[v] \in Int
    BY <1>3, <2>1
  <2>3. CASE v \in ToSet(q)
    <3>1. PICK j \in 1 .. Len(q) : q[j] = v
      BY <1>1, <2>3, MembersOf
    <3>2. 1 <= j
      BY <3>1
    <3> QED
      BY <2>1, <3>1, <3>2 DEF Explored, QueueOK
  <2>4. CASE v \notin ToSet(q)
    <3>1. row[v] <= row[q[1]]
      BY <1>4, <2>4 DEF Explored, Settled
    <3> QED
      BY <2>2, <3>1
  <2> QED
    BY <2>3, <2>4
<1>5. ASSUME NEW v \in V PROVE row[v] = Hops(g, s)[v]
  <2> DEFINE d == row[v]
  <2>1. d \in 0 .. FpgaNum - 1 /\ v \in Ball(g, s)[d] /\ v \in Fpga
    BY <1>1, <1>2, <1>3
  <2>2. ASSUME d > 0 PROVE v \notin Ball(g, s)[d - 1]
    <3>1. d - 1 \in 0 .. FpgaNum - 1
      BY <2>1, <2>2, FpgaFacts
    <3>2. q # <<>> => d - 1 <= row[q[1]]
      <4> SUFFICES ASSUME q # <<>> PROVE d - 1 <= row[q[1]]
        OBVIOUS
      <4>1. q[1] \in V
        BY <1>1, MembersOf
      <4> QED
        BY <1>3, <1>4, <4>1, <2>1
    <3>3. Ball(g, s)[d - 1] \subseteq {x \in V : row[x] <= d - 1}
      BY <1>2, <3>1, <3>2
    <3> QED
      BY <2>1, <3>3
  <2> QED
    BY <2>1, <2>2, HopsFacts
<1>6. ASSUME q = <<>> PROVE row = Hops(g, s)
  <2>1. ASSUME NEW v \in Fpga PROVE row[v] = Hops(g, s)[v]
    <3>1. CASE v \in V
      BY <1>5, <3>1
    <3>2. CASE v \notin V
      <4>1. \A d \in 0 .. FpgaNum - 1 : v \notin Ball(g, s)[d]
        BY <1>2, <1>6, <3>2
      <4> QED
        BY <1>1, <3>2, <4>1, HopsFacts
    <3> QED
      BY <3>1, <3>2
  <2>2. Hops(g, s) = [v \in Fpga |-> Hops(g, s)[v]]
    BY DEF Hops
  <2> QED
    BY <1>1, <2>1, <2>2
<1> QED
  BY <1>5, <1>6

\* A task that starts.
LEMMA ExploredStarts ==
  ASSUME NEW g \in Graphs, NEW s \in Fpga, NEW row, 
         row = [v \in Fpga |-> IF v = s THEN 0 ELSE Unreached]
  PROVE  Explored(g, s, <<s>>, {s}, row)
<1>1. /\ Cardinality({s}) = 1 /\ <<s>> \in Seq(Fpga) /\ ToSet(<<s>>) = {s} /\ IsInjective(<<s>>)
      /\ Len(<<s>>) = 1 /\ <<s>>[1] = s
  <2>1. Cardinality({s}) = 1
    BY FS_Singleton
  <2>2. <<s>> \in Seq(Fpga) /\ DOMAIN <<s>> = {1} /\ <<s>>[1] = s /\ Len(<<s>>) = 1
    OBVIOUS
  <2>3. ToSet(<<s>>) = {s} /\ IsInjective(<<s>>)
    <3> DEFINE q == <<s>>
    <3> HIDE DEF q
    <3>1. DOMAIN q = {1} /\ q[1] = s
      BY <2>2 DEF q
    <3>2. ToSet(q) = {s} /\ IsInjective(q)
      BY <3>1 DEF ToSet, IsInjective
    <3> QED
      BY <3>2 DEF q
  <2> QED
    BY <2>1, <2>2, <2>3
<1>2. QueueOK(s, <<s>>, {s}, row)
  <2>1. row \in [Fpga -> -1 .. FpgaNum - 1]
    BY FpgaFacts DEF Unreached
  <2>2. \A i, j \in 1 .. 1 : i = 1 /\ j = 1
    OBVIOUS
  <2>3. row[s] = 0
    OBVIOUS
  <2> HIDE DEF Unreached
  <2>4. \A v \in Fpga \ {s} : row[v] = Unreached
    OBVIOUS
  <2> QED
    BY <1>1, <2>1, <2>2, <2>3, <2>4 DEF QueueOK
<1>3. Settled(g, <<s>>, {s}, row)
  BY <1>1 DEF Settled
<1>4. Measured(g, s, <<s>>, {s}, row)
  <2>1. row[s] = 0 /\ Ball(g, s)[0] = {s}
    BY BallFacts
  <2>2. \A k \in 0 .. FpgaNum - 1 : k <= 0 => k = 0
    BY FpgaFacts
  <2> QED
    BY <1>1, <2>1, <2>2 DEF Measured
<1> QED
  BY <1>2, <1>3, <1>4 DEF Explored

\* A set that holds s and the neighbours of its members holds every ball around s.
LEMMA BallsInClosed ==
  ASSUME NEW g \in Graphs, NEW s \in Fpga, NEW V, s \in V, \A v \in V : ToSet(g[v]) \subseteq V
  PROVE  \A k \in 0 .. FpgaNum - 1 : Ball(g, s)[k] \subseteq V
<1> DEFINE n == FpgaNum - 1
           b == Ball(g, s)
           good == {k \in 0 .. n : b[k] \subseteq V}
<1>1. n \in Nat
  BY FpgaFacts
<1>2. 0 \in good
  BY <1>1, BallFacts
<1>3. ASSUME NEW k \in 0 .. n - 1, k \in good PROVE k + 1 \in good
  <2>1. k + 1 \in 1 .. n /\ (k + 1) - 1 = k /\ k + 1 \in 0 .. n
    BY <1>1
  <2>2. b[k + 1] = Grown(g, b[k])
    BY <2>1, BallFacts
  <2> HIDE DEF b
  <2> QED
    BY <1>3, <2>1, <2>2 DEF Grown
<1>4. 0 .. n \subseteq good
  <2> HIDE DEF good, n
  <2> QED
    BY <1>1, <1>2, <1>3, IntervalInduction, Zenon
<1> QED
  BY <1>4

\* q2 is q without its head and with the members of F behind it.
Advanced(q, F, q2) ==
  /\ q2 \in Seq(Fpga) /\ IsInjective(q2) /\ Len(q2) = (Len(q) - 1) + Len(F)
  /\ \A i \in 1 .. Len(q) - 1 : q2[i] = q[i + 1]
  /\ \A i \in Len(q) .. Len(q2) : q2[i] \in ToSet(F)
  /\ ToSet(q2) = (ToSet(q) \ {q[1]}) \cup ToSet(F)

\* The queue after its head has made way for what follows it.
LEMMA QueueStep ==
  ASSUME NEW q \in Seq(Fpga), q # <<>>, IsInjective(q),
         NEW F \in Seq(Fpga), IsInjective(F), ToSet(F) \cap ToSet(q) = {},
         NEW q2, q2 = Tail(q) \o F
  PROVE  Advanced(q, F, q2)
<1> DEFINE n == Len(q)
           m == Len(F)
           t == Tail(q)
<1>1. n \in Nat \ {0} /\ m \in Nat
  OBVIOUS
<1>2. t \in Seq(Fpga) /\ Len(t) = n - 1 /\ \A i \in 1 .. n - 1 : t[i] = q[i + 1]
  OBVIOUS
<1>3. /\ q2 \in Seq(Fpga) /\ Len(q2) = (n - 1) + m
      /\ \A i \in 1 .. n - 1 : q2[i] = q[i + 1]
      /\ \A i \in n .. (n - 1) + m : q2[i] = F[i - (n - 1)]
  <2> HIDE DEF t
  <2>1. q2 = t \o F
    BY DEF t
  <2> QED
    BY <1>1, <1>2, <2>1
<1>4. /\ DOMAIN q = 1 .. n /\ DOMAIN F = 1 .. m
      /\ DOMAIN q2 = 1 .. (n - 1) + m
  BY <1>3
<1>5. /\ \A i, j \in 1 .. n : q[i] = q[j] => i = j
      /\ \A i, j \in 1 .. m : F[i] = F[j] => i = j
  BY <1>4 DEF IsInjective
<1>6. \A i \in n .. (n - 1) + m : i - (n - 1) \in 1 .. m /\ q2[i] \in ToSet(F)
  <2>1. \A i \in n .. (n - 1) + m : i - (n - 1) \in 1 .. m
    BY <1>1
  <2> HIDE DEF n, m
  <2> QED
    BY <1>3, <1>4, <2>1 DEF ToSet
<1>7. \A i \in 1 .. n - 1 : i + 1 \in 1 .. n /\ q2[i] \in ToSet(q) /\ q2[i] # q[1]
  <2>1. \A i \in 1 .. n - 1 : i + 1 \in 1 .. n /\ i + 1 # 1 /\ 1 \in 1 .. n
    BY <1>1
  <2> HIDE DEF n, m
  <2> SUFFICES ASSUME NEW i \in 1 .. n - 1
               PROVE  i + 1 \in 1 .. n /\ q2[i] \in ToSet(q) /\ q2[i] # q[1]
    OBVIOUS
  <2>2. q2[i] = q[i + 1] /\ i + 1 \in 1 .. n
    BY <1>3, <2>1
  <2>3. q[i + 1] # q[1]
    BY <1>5, <2>1
  <2> QED
    BY <1>4, <2>2, <2>3 DEF ToSet
<1> HIDE DEF n, m, t
<1>8. \A i \in 1 .. (n - 1) + m : i \in 1 .. n - 1 \/ i \in n .. (n - 1) + m
  BY <1>1
<1>9. ASSUME NEW i \in 1 .. (n - 1) + m, NEW j \in 1 .. (n - 1) + m, q2[i] = q2[j]
      PROVE  i = j
  <2>1. CASE i \in 1 .. n - 1 /\ j \in 1 .. n - 1
    <3>1. i + 1 = j + 1
      BY <1>3, <1>5, <1>7, <1>9, <2>1
    <3> QED
      BY <1>1, <3>1
  <2>2. CASE i \in n .. (n - 1) + m /\ j \in n .. (n - 1) + m
    <3>1. F[i - (n - 1)] = F[j - (n - 1)]
      BY <1>3, <1>9, <2>2
    <3>2. i - (n - 1) \in 1 .. m /\ j - (n - 1) \in 1 .. m
      BY <1>6, <2>2
    <3>3. i - (n - 1) = j - (n - 1)
      BY <1>5, <3>1, <3>2
    <3> QED
      BY <1>1, <3>3
  <2>3. CASE i \in 1 .. n - 1 /\ j \in n .. (n - 1) + m
    BY <1>6, <1>7, <1>9, <2>3
  <2>4. CASE j \in 1 .. n - 1 /\ i \in n .. (n - 1) + m
    BY <1>6, <1>7, <1>9, <2>4
  <2> QED
    BY <1>8, <2>1, <2>2, <2>3, <2>4
<1>10. ToSet(q2) = (ToSet(q) \ {q[1]}) \cup ToSet(F)
  <2>1. ASSUME NEW x \in ToSet(q2) PROVE x \in (ToSet(q) \ {q[1]}) \cup ToSet(F)
    <3>1. PICK i \in 1 .. (n - 1) + m : q2[i] = x
      BY <1>4 DEF ToSet
    <3> QED
      BY <1>6, <1>7, <1>8, <3>1
  <2>2. ASSUME NEW x \in ToSet(q), x # q[1] PROVE x \in ToSet(q2)
    <3>1. PICK i \in 1 .. n : q[i] = x
      BY <1>4 DEF ToSet
    <3>2. i - 1 \in 1 .. n - 1 /\ (i - 1) + 1 = i /\ i - 1 \in 1 .. (n - 1) + m
      BY <1>1, <2>2, <3>1
    <3>3. q2[i - 1] = x
      BY <1>3, <3>1, <3>2
    <3> QED
      BY <1>4, <3>2, <3>3 DEF ToSet
  <2>3. ASSUME NEW x \in ToSet(F) PROVE x \in ToSet(q2)
    <3>1. PICK i \in 1 .. m : F[i] = x
      BY <1>4 DEF ToSet
    <3>2. i + (n - 1) \in n .. (n - 1) + m /\ (i + (n - 1)) - (n - 1) = i /\ i + (n - 1) \in 1 .. (n - 1) + m
      BY <1>1, <3>1
    <3>3. q2[i + (n - 1)] = x
      BY <1>3, <3>1, <3>2
    <3> QED
      BY <1>4, <3>2, <3>3 DEF ToSet
  <2> QED
    BY <2>1, <2>2, <2>3
<1>11. IsInjective(q2)
  BY <1>4, <1>9 DEF IsInjective
<1> QED
  BY <1>3, <1>6, <1>10, <1>11 DEF Advanced, n, m

\* The row with the distances of the fresh neighbours N of u.
RowAfter(row, u, N) == [v \in Fpga |-> IF v \in N THEN row[u] + 1 ELSE row[v]]

\* What a task keeps when it looks at the neighbours of the head of its queue.
LEMMA ExploredStep ==
  ASSUME NEW g \in Graphs, NEW s \in Fpga, NEW q, NEW V, NEW row,
         Explored(g, s, q, V, row), q # <<>>,
         NEW F \in Seq(Fpga), IsInjective(F), ToSet(F) = ToSet(g[q[1]]) \ V,
         NEW q2, q2 = Tail(q) \o F,
         NEW V2, V2 = V \cup ToSet(F),
         NEW row2, row2 = RowAfter(row, q[1], ToSet(F))
  PROVE  Explored(g, s, q2, V2, row2)
<1> DEFINE u == q[1]
           d == row[u]
           N == ToSet(F)
<1>1. /\ q \in Seq(Fpga) /\ IsInjective(q) /\ ToSet(q) \subseteq V
      /\ s \in V /\ V \subseteq Fpga
      /\ row \in [Fpga -> -1 .. FpgaNum - 1]
      /\ \A v \in Fpga \ V : row[v] = Unreached
      /\ \A v \in V : row[v] \in 0 .. Cardinality(V) - 1
      /\ \A i, j \in 1 .. Len(q) : i <= j => row[q[i]] <= row[q[j]] /\ row[q[j]] <= row[q[1]] + 1
  BY DEF Explored, QueueOK
<1>2. \A v \in V \ ToSet(q) : ToSet(g[v]) \subseteq V /\ row[v] <= d
  BY DEF Explored, Settled
<1>3. /\ \A v \in V : v \in Ball(g, s)[row[v]]
      /\ \A k \in 0 .. d : k \in 0 .. FpgaNum - 1 => Ball(g, s)[k] \subseteq {v \in V : row[v] <= k}
  BY DEF Explored, Measured
<1>4. Len(q) \in Nat \ {0} /\ 1 \in 1 .. Len(q) /\ u \in ToSet(q) /\ u \in V /\ u \in Fpga
  <2>1. Len(q) \in Nat \ {0}
    BY <1>1
  <2>2. 1 \in 1 .. Len(q)
    BY <2>1
  <2>3. u \in ToSet(q)
    BY <1>1, <2>2, MembersOf
  <2> QED
    BY <1>1, <2>1, <2>2, <2>3
<1>5. g \in [Fpga -> Seq(Fpga)] /\ N \subseteq Fpga /\ N \cap V = {} /\ N \cap ToSet(q) = {}
  BY <1>1, FpgaFacts, MembersOf
<1>6. /\ q2 \in Seq(Fpga) /\ IsInjective(q2) /\ Len(q2) = (Len(q) - 1) + Len(F)
      /\ \A i \in 1 .. Len(q) - 1 : q2[i] = q[i + 1]
      /\ \A i \in Len(q) .. Len(q2) : q2[i] \in N
      /\ ToSet(q2) = (ToSet(q) \ {u}) \cup N
  <2>1. /\ q \in Seq(Fpga) /\ q # <<>> /\ IsInjective(q)
        /\ F \in Seq(Fpga) /\ IsInjective(F) /\ ToSet(F) \cap ToSet(q) = {}
        /\ q2 = Tail(q) \o F
    BY <1>1, <1>5
  <2>2. Advanced(q, F, q2)
    BY ONLY <2>1, QueueStep
  <2> QED
    BY <2>2 DEF Advanced
<1>7. V2 \subseteq Fpga /\ ToSet(q2) \subseteq V2 /\ s \in V2
  BY <1>1, <1>5, <1>6
<1>8. /\ Cardinality(V) \in Nat \ {0} /\ Cardinality(V2) \in Nat
      /\ Cardinality(V) <= Cardinality(V2) /\ Cardinality(V2) <= FpgaNum
      /\ N # {} => Cardinality(V) + 1 <= Cardinality(V2)
  <2>1. IsFiniteSet(V2) /\ Cardinality(V2) <= FpgaNum /\ IsFiniteSet(V) /\ Cardinality(V) <= Cardinality(V2)
    BY <1>1, <1>7, FpgaFacts, FS_Subset
  <2>2. Cardinality(V) \in Nat /\ Cardinality(V2) \in Nat /\ Cardinality(V) # 0
    BY <1>1, <2>1, FS_CardinalityType, FS_EmptySet
  <2>3. ASSUME NEW x \in N PROVE Cardinality(V) + 1 <= Cardinality(V2)
    <3>1. x \notin V /\ V \cup {x} \subseteq V2
      BY <1>5
    <3>2. Cardinality(V \cup {x}) = Cardinality(V) + 1
      BY <2>1, <3>1, FS_AddElement
    <3>3. Cardinality(V \cup {x}) <= Cardinality(V2)
      BY <2>1, <3>1, FS_Subset
    <3> QED
      BY <3>2, <3>3
  <2> QED
    BY <2>1, <2>2, <2>3
<1>9. d \in 0 .. Cardinality(V) - 1 /\ d \in 0 .. FpgaNum - 1 /\ d \in Nat
  <2>1. d \in 0 .. Cardinality(V) - 1
    BY <1>1, <1>4
  <2> HIDE DEF d
  <2> QED
    BY <1>8, <2>1, FpgaFacts
<1>10. /\ \A v \in N : row2[v] = d + 1
       /\ \A v \in Fpga \ N : row2[v] = row[v]
       /\ \A v \in V : row2[v] = row[v]
  BY <1>1, <1>5 DEF RowAfter
<1> HIDE DEF d, u, N
<1>11. \A v \in V2 : row2[v] \in 0 .. Cardinality(V2) - 1
  <2> TAKE v \in V2
  <2>1. CASE v \in N
    <3>1. d + 1 \in 0 .. Cardinality(V2) - 1
      BY <1>8, <1>9, <2>1
    <3> QED
      BY <1>10, <2>1, <3>1
  <2>2. CASE v \in V
    <3>1. row[v] \in 0 .. Cardinality(V) - 1
      BY <1>1, <2>2
    <3>2. row[v] \in 0 .. Cardinality(V2) - 1
      BY <1>8, <3>1
    <3>3. row2[v] = row[v]
      BY <1>10, <2>2
    <3> QED
      BY <3>2, <3>3
  <2> QED
    BY <2>1, <2>2 DEF N
<1>12. \A v \in V2 : row2[v] \in Int
  <2> TAKE v \in V2
  <2>1. row2[v] \in 0 .. Cardinality(V2) - 1
    BY <1>11
  <2> QED
    BY <1>8, <2>1
<1>13. \A v \in V : row[v] \in Int
  <2> TAKE v \in V
  <2>1. row[v] \in 0 .. Cardinality(V) - 1
    BY <1>1
  <2> QED
    BY <1>8, <2>1
<1>14. \A v \in Fpga \ V2 : row2[v] = Unreached
  BY <1>1, <1>10 DEF N
<1>15. row2 \in [Fpga -> -1 .. FpgaNum - 1]
  <2>1. ASSUME NEW v \in Fpga PROVE row2[v] \in -1 .. FpgaNum - 1
    <3>1. CASE v \in V2
      <4>1. row2[v] \in 0 .. Cardinality(V2) - 1
        BY <1>11, <3>1
      <4> QED
        BY <1>8, <4>1, FpgaFacts
    <3>2. CASE v \notin V2
      <4>1. row2[v] = -1
        BY <1>14, <3>2 DEF Unreached
      <4>2. -1 \in -1 .. FpgaNum - 1
        BY FpgaFacts
      <4> QED
        BY <4>1, <4>2
    <3> QED
      BY <3>1, <3>2
  <2> QED
    BY <2>1 DEF RowAfter
\* The rows of the old members of the queue, and of the new ones.
<1>16. ASSUME NEW i \in 1 .. Len(q2)
       PROVE  /\ row2[q2[i]] \in {d, d + 1}
              /\ i \notin 1 .. Len(q) - 1 => row2[q2[i]] = d + 1
  <2>1. CASE i \in 1 .. Len(q) - 1
    <3>1. i + 1 \in 1 .. Len(q) /\ 1 <= i + 1 /\ q2[i] = q[i + 1]
      BY <1>4, <1>6, <2>1
    <3>2. q[i + 1] \in V
      BY <1>1, <3>1, MembersOf
    <3>3. row[q[1]] <= row[q[i + 1]] /\ row[q[i + 1]] <= row[q[1]] + 1
      BY <1>1, <1>4, <3>1
    <3>4. row[q[i + 1]] \in Int /\ row2[q2[i]] = row[q[i + 1]]
      BY <1>10, <1>13, <3>1, <3>2
    <3> DEFINE r == row[q[i + 1]]
    <3>5. d <= r /\ r <= d + 1 /\ r \in Int
      BY <3>3, <3>4 DEF d, u
    <3> HIDE DEF r
    <3>6. r \in {d, d + 1}
      BY <1>9, <3>5
    <3> QED
      BY <2>1, <3>4, <3>6 DEF r
  <2>2. CASE i \notin 1 .. Len(q) - 1
    <3>1. Len(q2) \in Nat
      BY <1>6
    <3>2. i \in Len(q) .. Len(q2)
      BY <1>4, <2>2, <3>1
    <3> QED
      BY <1>6, <1>10, <3>2
  <2> QED
    BY <2>1, <2>2
<1>17. ASSUME NEW i \in 1 .. Len(q2), NEW j \in 1 .. Len(q2), i <= j
       PROVE  row2[q2[i]] <= row2[q2[j]] /\ row2[q2[j]] <= row2[q2[1]] + 1
  <2>0. Len(q2) \in Nat /\ 1 \in 1 .. Len(q2)
    BY <1>6, <1>17
  <2>1. row2[q2[i]] \in {d, d + 1} /\ row2[q2[j]] \in {d, d + 1} /\ row2[q2[1]] \in {d, d + 1}
    BY <1>16, <2>0
  <2>2. row2[q2[j]] <= row2[q2[1]] + 1
    <3>1. \A x, y \in {d, d + 1} : x <= y + 1
      BY <1>9
    <3> QED
      BY <2>1, <3>1
  <2>3. CASE j \in 1 .. Len(q) - 1
    <3>1. /\ i \in 1 .. Len(q) - 1
          /\ i + 1 \in 1 .. Len(q) /\ j + 1 \in 1 .. Len(q) /\ i + 1 <= j + 1
      BY <1>4, <1>17, <2>0, <2>3
    <3>2. row[q[i + 1]] <= row[q[j + 1]]
      BY <1>1, <3>1
    <3>3. q2[i] = q[i + 1] /\ q2[j] = q[j + 1] /\ q[i + 1] \in V /\ q[j + 1] \in V
      BY <1>1, <1>6, <2>3, <3>1, MembersOf
    <3>4. row2[q2[i]] = row[q[i + 1]] /\ row2[q2[j]] = row[q[j + 1]]
      BY <1>10, <3>3
    <3> QED
      BY <2>2, <3>2, <3>4
  <2>4. CASE j \notin 1 .. Len(q) - 1
    <3>1. row2[q2[j]] = d + 1
      BY <1>16, <2>4
    <3>2. \A x \in {d, d + 1} : x <= d + 1
      BY <1>9
    <3> QED
      BY <2>1, <2>2, <3>1, <3>2
  <2> QED
    BY <2>3, <2>4
<1>18. QueueOK(s, q2, V2, row2)
  <2>1. \A i, j \in 1 .. Len(q2) : i <= j => row2[q2[i]] <= row2[q2[j]] /\ row2[q2[j]] <= row2[q2[1]] + 1
    BY <1>17
  <2> QED
    BY <1>6, <1>7, <1>11, <1>14, <1>15, <2>1 DEF QueueOK
<1>19. \A v \in V2 \ ToSet(q2) : v \in V /\ ToSet(g[v]) \subseteq V2 /\ row2[v] <= d
  <2> TAKE v \in V2 \ ToSet(q2)
  <2>1. v \in V /\ v \notin N
    BY <1>6 DEF N
  <2>2. CASE v = u
    <3>1. ToSet(g[v]) \subseteq V2
      BY <2>2 DEF u
    <3>2. row2[v] = d
      BY <1>10, <2>1, <2>2 DEF d
    <3> QED
      BY <1>9, <2>1, <3>1, <3>2
  <2>3. CASE v # u
    <3>1. v \in V \ ToSet(q)
      BY <1>6, <2>1, <2>3
    <3> QED
      BY <1>2, <1>10, <2>1, <3>1
  <2> QED
    BY <2>2, <2>3
<1>20. Settled(g, q2, V2, row2)
  <2>1. ASSUME NEW v \in V2 \ ToSet(q2), q2 # <<>> PROVE row2[v] <= row2[q2[1]]
    <3>1. 1 \in 1 .. Len(q2)
      BY <1>6, <2>1
    <3>2. row2[q2[1]] \in {d, d + 1}
      BY <1>16, <3>1
    <3>3. row2[v] <= d /\ row2[v] \in Int
      BY <1>19, <1>12
    <3>4. \A x \in Int, y \in {d, d + 1} : x <= d => x <= y
      BY <1>9
    <3> QED
      BY <3>2, <3>3, <3>4
  <2> QED
    BY <1>19, <2>1 DEF Settled
<1>21. \A v \in V2 : v \in Ball(g, s)[row2[v]]
  <2> TAKE v \in V2
  <2>1. CASE v \in N
    <3>1. d + 1 \in 0 .. Cardinality(V2) - 1
      BY <1>10, <1>11, <2>1
    <3>2. d + 1 \in 1 .. FpgaNum - 1 /\ (d + 1) - 1 = d
      BY <1>8, <1>9, <3>1, FpgaFacts
    <3>3. Ball(g, s)[d + 1] = Grown(g, Ball(g, s)[d])
      BY <3>2, BallFacts
    <3>4. u \in Ball(g, s)[d] /\ v \in ToSet(g[u])
      BY <1>3, <1>4, <2>1 DEF N, d, u
    <3>5. v \in Ball(g, s)[d + 1]
      BY <3>3, <3>4 DEF Grown
    <3> QED
      BY <1>10, <2>1, <3>5
  <2>2. CASE v \in V
    BY <1>3, <1>10, <2>2
  <2> QED
    BY <2>1, <2>2 DEF N
<1>22. ASSUME NEW k \in 0 .. FpgaNum - 1, q2 # <<>> => k <= row2[q2[1]], NEW x \in Ball(g, s)[k]
       PROVE  x \in V2 /\ row2[x] <= k
  <2>1. CASE k <= d
    <3>1. k \in 0 .. d
      BY <1>9, <2>1
    <3>2. x \in V /\ row[x] <= k
      BY <1>3, <1>22, <3>1
    <3> QED
      BY <1>10, <3>2
  <2>2. CASE k > d /\ q2 = <<>>
    <3>1. ToSet(q2) = {}
      BY <2>2 DEF ToSet
    <3>2. \A v \in V2 : ToSet(g[v]) \subseteq V2 /\ row2[v] <= d
      BY <1>19, <3>1
    <3>3. Ball(g, s)[k] \subseteq V2
      BY <1>7, <3>2, BallsInClosed
    <3>4. x \in V2 /\ row2[x] <= d /\ row2[x] \in Int
      BY <1>22, <1>12, <3>2, <3>3
    <3> QED
      BY <1>9, <2>2, <3>4
  <2>3. CASE k > d /\ q2 # <<>>
    <3>1. 1 \in 1 .. Len(q2) /\ Len(q2) \in Nat
      BY <1>6, <2>3
    <3>2. row2[q2[1]] \in {d, d + 1} /\ k <= row2[q2[1]]
      BY <1>16, <1>22, <2>3, <3>1
    <3>3. k = d + 1 /\ row2[q2[1]] = d + 1
      BY <1>9, <2>3, <3>2
    <3>4. ASSUME NEW v \in ToSet(q2) PROVE row2[v] = d + 1
      <4>1. PICK i \in 1 .. Len(q2) : q2[i] = v
        <5>1. q2 \in Seq(Fpga) /\ v \in ToSet(q2)
          BY <1>6, <3>4
        <5> QED
          BY ONLY <5>1, MembersOf
      <4>2. 1 <= i
        BY <4>1
      <4>3. row2[q2[1]] <= row2[v] /\ row2[v] \in {d, d + 1}
        BY <1>16, <1>17, <3>1, <4>1, <4>2
      <4> QED
        BY <1>9, <3>3, <4>3
    <3>5. d \in 0 .. d /\ k \in 1 .. FpgaNum - 1 /\ k - 1 = d
      BY <1>9, <3>3, FpgaFacts
    <3>6. Ball(g, s)[k] = Grown(g, Ball(g, s)[d])
      BY <3>5, BallFacts
    <3>7. ASSUME NEW y \in Ball(g, s)[d] PROVE y \in V2 /\ ToSet(g[y]) \subseteq V2
      <4>1. y \in V /\ row[y] <= d
        BY <1>3, <1>9, <3>5
      <4>2. row2[y] <= d /\ row2[y] \in Int /\ y \in V2
        BY <1>10, <1>12, <4>1
      <4>3. y \notin ToSet(q2)
        <5> SUFFICES ASSUME y \in ToSet(q2) PROVE FALSE
          OBVIOUS
        <5>1. row2[y] = d + 1
          BY <3>4
        <5> QED
          BY <1>9, <4>2, <5>1
      <4> QED
        BY <1>19, <4>2, <4>3
    <3>8. x \in V2
      BY <1>22, <3>6, <3>7 DEF Grown
    <3>9. row2[x] <= d + 1
      <4>1. CASE x \in ToSet(q2)
        <5>1. row2[x] = d + 1
          BY <3>4, <4>1
        <5> QED
          BY <1>9, <5>1
      <4>2. CASE x \notin ToSet(q2)
        <5>1. row2[x] <= d /\ row2[x] \in Int
          BY <1>19, <1>12, <3>8, <4>2
        <5> QED
          BY <1>9, <5>1
      <4> QED
        BY <4>1, <4>2
    <3> QED
      BY <3>3, <3>8, <3>9
  <2> QED
    BY <1>9, <2>1, <2>2, <2>3
<1>23. Measured(g, s, q2, V2, row2)
  BY <1>21, <1>22 DEF Measured
<1> QED
  BY <1>18, <1>20, <1>23 DEF Explored

\* The fresh neighbours of u are its neighbours outside visited, once each: a first
\* place in the list for each.
LEMMA FreshFacts ==
  ASSUME NEW u, adjlist[u] \in Seq(Fpga)
  PROVE  /\ FreshNeighbours(u) \in Seq(Fpga)
         /\ IsInjective(FreshNeighbours(u))
         /\ ToSet(FreshNeighbours(u)) = ToSet(adjlist[u]) \ visited
<1> DEFINE list == adjlist[u]
           firsts == {i \in DOMAIN list :
                        list[i] \notin visited /\ \A j \in 1 .. i - 1 : list[j] # list[i]}
           n == Cardinality(firsts)
           a == Ascending(firsts)
           F == [i \in 1 .. n |-> list[a[i]]]
<1>1. Len(list) \in Nat /\ DOMAIN list = 1 .. Len(list) /\ \A i \in 1 .. Len(list) : list[i] \in Fpga
  OBVIOUS
<1>2. FreshNeighbours(u) = F
  BY DEF FreshNeighbours
<1> HIDE DEF list
<1>3. firsts \in SUBSET (1 .. Len(list)) /\ firsts \in SUBSET Nat /\ IsFiniteSet(firsts)
  <2>1. firsts \in SUBSET (1 .. Len(list))
    BY <1>1
  <2>2. IsFiniteSet(1 .. Len(list))
    BY <1>1, FS_Interval
  <2> DEFINE D == 1 .. Len(list)
  <2> HIDE DEF firsts, D
  <2>3. IsFiniteSet(firsts)
    BY <2>1, <2>2, FS_Subset DEF D
  <2>4. firsts \in SUBSET Nat
    BY <1>1, <2>1
  <2> QED
    BY <2>1, <2>3, <2>4
<1>4. /\ \A i \in firsts : list[i] \notin visited /\ \A j \in firsts : list[i] = list[j] => i = j
      /\ \A x \in ToSet(list) \ visited : \E i \in firsts : list[i] = x
  <2>1. ASSUME NEW i \in firsts, NEW j \in firsts, list[i] = list[j] PROVE i = j
    <3>1. ~(i < j)
      <4>1. i < j => i \in 1 .. j - 1
        BY <1>3
      <4> QED
        BY <2>1, <4>1
    <3>2. ~(j < i)
      <4>1. j < i => j \in 1 .. i - 1
        BY <1>3
      <4> QED
        BY <2>1, <4>1
    <3> HIDE DEF firsts
    <3>3. i \in Nat /\ j \in Nat
      BY <1>3
    <3> QED
      BY <3>1, <3>2, <3>3
  <2>2. ASSUME NEW x \in ToSet(list), x \notin visited PROVE \E i \in firsts : list[i] = x
    <3> DEFINE S == {k \in 1 .. Len(list) : list[k] = x}
    <3>1. S \in SUBSET Nat /\ S # {}
      BY <1>1 DEF ToSet
    <3>2. PICK i \in S : \A k \in S : i <= k
      <4> HIDE DEF S
      <4> QED
        BY <3>1, LeastNat
    <3>3. i \in 1 .. Len(list) /\ list[i] = x
      BY <3>2
    <3>4. ASSUME NEW j \in 1 .. i - 1 PROVE list[j] # list[i]
      <4>1. j \in 1 .. Len(list) /\ ~(i <= j)
        BY <1>1, <3>3
      <4> QED
        BY <3>2, <3>3, <4>1
    <3>5. i \in firsts
      BY <1>1, <2>2, <3>3, <3>4
    <3> QED
      BY <3>3, <3>5
  <2>3. \A i \in firsts : list[i] \notin visited
    OBVIOUS
  <2> HIDE DEF firsts
  <2> QED
    BY <2>1, <2>2, <2>3
<1> HIDE DEF firsts
<1>5. n \in Nat /\ a \in Bijection(1 .. n, firsts)
  BY <1>3, AscendingFacts
<1>6. /\ a \in [1 .. n -> firsts] /\ \A i, j \in 1 .. n : a[i] = a[j] => i = j
      /\ \A y \in firsts : \E i \in 1 .. n : a[i] = y
  BY <1>5 DEF Bijection, Injection, Surjection, IsInjective
<1> HIDE DEF a, n
<1>7. F \in [1 .. n -> Fpga] /\ DOMAIN F = 1 .. n
  <2>1. ASSUME NEW i \in 1 .. n PROVE list[a[i]] \in Fpga
    BY <1>1, <1>3, <1>6
  <2> QED
    BY <2>1
<1>8. F \in Seq(Fpga)
  <2> HIDE DEF F
  <2> QED
    BY <1>5, <1>7
<1>9. IsInjective(F)
  <2>1. ASSUME NEW i \in 1 .. n, NEW j \in 1 .. n, F[i] = F[j] PROVE i = j
    <3>1. list[a[i]] = list[a[j]]
      BY <2>1
    <3>2. a[i] = a[j]
      BY <1>4, <1>6, <3>1
    <3> QED
      BY <1>6, <3>2
  <2> HIDE DEF F
  <2> QED
    BY <1>7, <2>1 DEF IsInjective
<1>10. ToSet(F) = ToSet(list) \ visited
  <2>1. ASSUME NEW i \in 1 .. n PROVE F[i] \in ToSet(list) \ visited
    <3>1. F[i] = list[a[i]] /\ a[i] \in firsts
      BY <1>6
    <3>2. a[i] \in DOMAIN list /\ list[a[i]] \notin visited
      BY <1>1, <1>3, <1>4, <3>1
    <3> HIDE DEF F
    <3> QED
      BY <3>1, <3>2 DEF ToSet
  <2>2. ASSUME NEW x \in ToSet(list) \ visited PROVE \E i \in 1 .. n : F[i] = x
    <3>1. PICK y \in firsts : list[y] = x
      BY <1>4
    <3>2. PICK i \in 1 .. n : a[i] = y
      BY <1>6
    <3>3. F[i] = x
      BY <3>1, <3>2
    <3> HIDE DEF F
    <3> QED
      BY <3>3
  <2> HIDE DEF F
  <2>3. ToSet(F) \subseteq ToSet(list) \ visited
    BY <1>7, <2>1 DEF ToSet
  <2>4. \A i \in 1 .. n : F[i] \in ToSet(F)
    BY <1>7 DEF ToSet
  <2>5. ToSet(list) \ visited \subseteq ToSet(F)
    BY <2>2, <2>4
  <2> QED
    BY <2>3, <2>5
<1> HIDE DEF F
<1> QED
  BY <1>2, <1>8, <1>9, <1>10 DEF list

-----------------------------------------------------------------------------
(* All tasks.                                                              *)

\* The task of src has got somewhere, the rows before it are right, and those behind
\* it are untouched.
BfsInv ==
  /\ adjlist \in Graphs /\ src \in Fpga
  /\ dists \in [Fpga -> [Fpga -> -1 .. FpgaNum - 1]]
  /\ Explored(adjlist, src, bfsQ, visited, dists[src])
  /\ \A s \in Fpga : s < src => dists[s] = Hops(adjlist, s)
  /\ \A s \in Fpga : s > src => dists[s] = [v \in Fpga |-> Unreached]

\* The task of the first source has just begun.
LEMMA BfsInitInv == BfsInit => BfsInv
<1> SUFFICES ASSUME BfsInit PROVE BfsInv
  OBVIOUS
<1> DEFINE row == dists[src]
<1>1. adjlist \in Graphs /\ src = 0 /\ bfsQ = <<src>> /\ visited = {src} /\ src \in Fpga
  BY FpgaFacts DEF BfsInit, Fpga
<1>2. dists = [[u \in Fpga |-> [v \in Fpga |-> Unreached]] EXCEPT ![src][src] = 0]
  BY DEF BfsInit, Begun
<1>3. /\ row = [v \in Fpga |-> IF v = src THEN 0 ELSE Unreached]
      /\ \A s \in Fpga : s # src => dists[s] = [v \in Fpga |-> Unreached]
      /\ dists \in [Fpga -> [Fpga -> -1 .. FpgaNum - 1]]
  <2>1. Unreached \in -1 .. FpgaNum - 1 /\ 0 \in -1 .. FpgaNum - 1
    BY FpgaFacts DEF Unreached
  <2> QED
    BY <1>1, <1>2, <2>1
<1>4. Explored(adjlist, src, <<src>>, {src}, row)
  <2> HIDE DEF row
  <2> QED
    BY <1>1, <1>3, ExploredStarts
<1>5. \A s \in Fpga : ~(s < src) /\ (s > src => s # src)
  BY <1>1 DEF Fpga
<1> QED
  BY <1>1, <1>3, <1>4, <1>5 DEF BfsInv

\* A step of the search stays within the row of its source.
LEMMA BfsVisitInv == BfsInv /\ VisitNext => BfsInv'
<1> SUFFICES ASSUME BfsInv, VisitNext PROVE BfsInv'
  OBVIOUS
<1> DEFINE q == bfsQ
           u == q[1]
           F == FreshNeighbours(u)
           row == dists[src]
           row2 == [v \in Fpga |-> IF v \in ToSet(F) THEN row[u] + 1 ELSE row[v]]
<1>1. /\ adjlist \in Graphs /\ src \in Fpga
      /\ dists \in [Fpga -> [Fpga -> -1 .. FpgaNum - 1]]
      /\ Explored(adjlist, src, q, visited, row)
  BY DEF BfsInv
<1>2. q # <<>> /\ q \in Seq(Fpga) /\ Head(q) = u /\ u \in Fpga
  <2>1. q # <<>> /\ q \in Seq(Fpga)
    BY <1>1 DEF VisitNext, Explored, QueueOK
  <2> QED
    BY <2>1
<1>3. adjlist[u] \in Seq(Fpga)
  BY <1>1, <1>2, FpgaFacts
<1>4. F \in Seq(Fpga) /\ IsInjective(F) /\ ToSet(F) = ToSet(adjlist[u]) \ visited
  <2> HIDE DEF u
  <2> QED
    BY <1>3, FreshFacts
<1>5. /\ bfsQ' = Tail(q) \o F /\ visited' = visited \cup ToSet(F)
      /\ dists' = [dists EXCEPT ![src] = row2]
      /\ adjlist' = adjlist /\ src' = src
  <2>1. dists' = [dists EXCEPT ![src] = [v \in Fpga |-> IF v \in ToSet(F) THEN @[u] + 1 ELSE @[v]]]
    BY <1>2 DEF VisitNext
  <2> QED
    BY <1>2, <2>1 DEF VisitNext, Queued
<1> HIDE DEF F
<1>6. dists'[src] = row2 /\ \A s \in Fpga : s # src => dists'[s] = dists[s]
  BY <1>1, <1>5
<1>7. Explored(adjlist, src, bfsQ', visited', row2)
  <2> HIDE DEF row
  <2>1. row2 = RowAfter(row, q[1], ToSet(F))
    BY DEF RowAfter
  <2>2. ToSet(F) = ToSet(adjlist[q[1]]) \ visited
    BY <1>4
  <2> HIDE DEF row2, u
  <2>3. /\ adjlist \in Graphs /\ src \in Fpga /\ Explored(adjlist, src, q, visited, row) /\ q # <<>>
        /\ F \in Seq(Fpga) /\ IsInjective(F)
        /\ bfsQ' = Tail(q) \o F /\ visited' = visited \cup ToSet(F)
    BY <1>1, <1>2, <1>4, <1>5
  <2> QED
    BY ONLY <2>1, <2>2, <2>3, ExploredStep
<1>8. row2 \in [Fpga -> -1 .. FpgaNum - 1]
  BY <1>7 DEF Explored, QueueOK
<1>9. dists' \in [Fpga -> [Fpga -> -1 .. FpgaNum - 1]]
  <2> HIDE DEF row2
  <2> QED
    BY <1>1, <1>5, <1>8
<1>10. \A s \in Fpga : (s < src => s # src) /\ (s > src => s # src)
  BY <1>1 DEF Fpga
<1> HIDE DEF row2
<1> QED
  BY <1>1, <1>5, <1>6, <1>7, <1>9, <1>10 DEF BfsInv

\* The row a task leaves behind is right, and the next one is still untouched.
LEMMA BfsNextSourceInv == BfsInv /\ NextSource => BfsInv'
<1> SUFFICES ASSUME BfsInv, NextSource PROVE BfsInv'
  OBVIOUS
<1> DEFINE t == src + 1
<1>1. /\ adjlist \in Graphs /\ src \in Fpga
      /\ dists \in [Fpga -> [Fpga -> -1 .. FpgaNum - 1]]
      /\ Explored(adjlist, src, bfsQ, visited, dists[src])
      /\ \A s \in Fpga : s < src => dists[s] = Hops(adjlist, s)
      /\ \A s \in Fpga : s > src => dists[s] = [v \in Fpga |-> Unreached]
  BY DEF BfsInv
<1>2. /\ bfsQ = <<>> /\ src < FpgaNum - 1 /\ src' = t /\ bfsQ' = <<t>> /\ visited' = {t}
      /\ dists' = [dists EXCEPT ![t][t] = 0] /\ adjlist' = adjlist
  BY DEF NextSource, Begun
<1>3. t \in Fpga /\ src < t /\ \A s \in Fpga : (s < t => s < src \/ s = src) /\ (s > t => s > src /\ s # t)
  <2>1. src \in 0 .. FpgaNum - 1 /\ FpgaNum \in Nat
    BY <1>1, FpgaFacts DEF Fpga
  <2>2. t \in 0 .. FpgaNum - 1 /\ src < t
    BY <1>2, <2>1
  <2>3. \A s \in 0 .. FpgaNum - 1 : (s < t => s < src \/ s = src) /\ (s > t => s > src /\ s # t)
    BY <2>1
  <2> QED
    BY <2>2, <2>3 DEF Fpga
<1> HIDE DEF t
<1>4. dists[src] = Hops(adjlist, src)
  BY <1>1, <1>2, ExploredExact
<1>5. /\ dists'[t] = [dists[t] EXCEPT ![t] = 0]
      /\ \A s \in Fpga : s # t => dists'[s] = dists[s]
  BY <1>1, <1>2, <1>3
<1>6. dists'[t] = [v \in Fpga |-> IF v = t THEN 0 ELSE Unreached]
  BY <1>1, <1>3, <1>5
<1>7. Explored(adjlist, t, <<t>>, {t}, dists'[t])
  BY <1>1, <1>3, <1>6, ExploredStarts
<1>8. dists' \in [Fpga -> [Fpga -> -1 .. FpgaNum - 1]]
  <2>1. dists'[t] \in [Fpga -> -1 .. FpgaNum - 1]
    BY <1>7 DEF Explored, QueueOK
  <2>2. ASSUME NEW s \in Fpga PROVE dists'[s] \in [Fpga -> -1 .. FpgaNum - 1]
    BY <1>1, <1>5, <2>1
  <2>3. DOMAIN dists' = Fpga /\ dists' = [s \in Fpga |-> dists'[s]]
    BY <1>1, <1>2
  <2> QED
    BY <2>2, <2>3
<1>9. \A s \in Fpga : s < t => dists'[s] = Hops(adjlist, s)
  <2> TAKE s \in Fpga
  <2> HAVE s < t
  <2>1. s # t
    BY <1>3 DEF Fpga
  <2> QED
    BY <1>1, <1>3, <1>4, <1>5, <2>1
<1>10. \A s \in Fpga : s > t => dists'[s] = [v \in Fpga |-> Unreached]
  BY <1>1, <1>3, <1>5
<1> QED
  BY <1>1, <1>2, <1>3, <1>7, <1>8, <1>9, <1>10 DEF BfsInv

\* Steps that leave the tables alone.
LEMMA BfsSameInv == BfsInv /\ UNCHANGED bfsVars => BfsInv'
<1> SUFFICES ASSUME BfsInv, UNCHANGED bfsVars PROVE BfsInv'
  OBVIOUS
<1>1. adjlist' = adjlist /\ src' = src /\ bfsQ' = bfsQ /\ visited' = visited /\ dists' = dists
  BY DEF bfsVars
<1> QED
  BY <1>1 DEF BfsInv

\* The invariant of the tasks says what the runs check.
LEMMA BfsInvExact == BfsInv => RowExact
<1> SUFFICES ASSUME BfsInv PROVE DistsExact
  BY DEF RowExact
<1>1. /\ adjlist \in Graphs /\ src \in Fpga
      /\ dists \in [Fpga -> [Fpga -> -1 .. FpgaNum - 1]]
      /\ Explored(adjlist, src, bfsQ, visited, dists[src])
      /\ \A s \in Fpga : s < src => dists[s] = Hops(adjlist, s)
      /\ \A s \in Fpga : s > src => dists[s] = [v \in Fpga |-> Unreached]
  BY DEF BfsInv
<1>2. /\ visited \subseteq Fpga /\ ToSet(bfsQ) \subseteq visited /\ IsInjective(bfsQ)
      /\ \A v \in Fpga \ visited : dists[src][v] = Unreached
  BY <1>1 DEF Explored, QueueOK
<1>3. /\ \A v \in visited : dists[src][v] = Hops(adjlist, src)[v]
      /\ bfsQ = <<>> => dists[src] = Hops(adjlist, src)
  BY <1>1, ExploredExact
<1>4. ASSUME NEW s \in Fpga, NEW v \in Fpga
      PROVE  dists[s][v] = IF s < src \/ (s = src /\ (v \in visited \/ bfsQ = <<>>))
                             THEN Hops(adjlist, s)[v] ELSE Unreached
  <2>1. CASE s < src
    BY <1>1, <2>1
  <2>2. CASE s = src
    <3>1. ~(s < src)
      BY <1>1, <2>2 DEF Fpga
    <3> QED
      BY <1>2, <1>3, <2>2, <3>1
  <2>3. CASE s > src
    <3>1. ~(s < src) /\ s # src
      BY <1>1, <2>3 DEF Fpga
    <3> QED
      BY <1>1, <2>3, <3>1
  <2>4. s < src \/ s = src \/ s > src
    BY <1>1 DEF Fpga
  <2> QED
    BY <2>1, <2>2, <2>3, <2>4
<1> QED
  BY <1>1, <1>2, <1>4 DEF DistsExact

-----------------------------------------------------------------------------
(* Trees and cuts.  T is a finite set, P the edges between its members, d  *)
(* their costs, M the edges of a tree that covers C.                       *)

Cost(d, E) == SumFunction([e \in E |-> d[e]])

\* The edges P between the members of T, and their costs.
Edges(T, P, d) ==
  /\ IsFiniteSet(T) /\ IsFiniteSet(P)
  /\ \A e \in P : e[1] \in T /\ e[2] \in T /\ e[1] # e[2] /\ d[e] \in Int

\* A set of edges is finite and has a cost.
LEMMA CostInt ==
  ASSUME NEW T, NEW P, NEW d, Edges(T, P, d), NEW E \in SUBSET P
  PROVE  IsFiniteSet(E) /\ Cost(d, E) \in Int
<1> DEFINE f == [e \in E |-> d[e]]
<1>1. IsFiniteSet(E) /\ f \in [E -> Int]
  BY FS_Subset DEF Edges
<1>2. Cost(d, E) = SumFunction(f)
  BY DEF Cost
<1> HIDE DEF f
<1>3. PICK h : SumsUp(h, E, f)
  BY <1>1, SumOverSet
<1> QED
  BY <1>1, <1>2, <1>3 DEF SumsUp

\* A new edge adds its cost.
LEMMA CostGrows ==
  ASSUME NEW T, NEW P, NEW d, Edges(T, P, d), NEW E \in SUBSET P, NEW p \in P, p \notin E
  PROVE  Cost(d, E) \in Int /\ Cost(d, E \cup {p}) = Cost(d, E) + d[p]
<1> DEFINE f == [e \in E |-> d[e]]
           g == [e \in E \cup {p} |-> d[e]]
<1>1. /\ f \in [E -> Int] /\ g \in [E \cup {p} -> Int]
      /\ \A e \in E : g[e] = f[e]
      /\ g[p] = d[p] /\ IsFiniteSet(E)
  BY CostInt DEF Edges
<1>2. Cost(d, E) = SumFunction(f) /\ Cost(d, E \cup {p}) = SumFunction(g)
  BY DEF Cost
<1> HIDE DEF f, g
<1>3. SumFunction(f) \in Int /\ SumFunction(g) = SumFunction(f) + g[p]
  BY <1>1, SumGrows
<1> QED
  BY <1>1, <1>2, <1>3

\* An edge no dearer in place of another.
LEMMA CostSwap ==
  ASSUME NEW T, NEW P, NEW d, Edges(T, P, d), NEW F \in SUBSET P,
         NEW f \in F, NEW p \in P, p \notin F, d[p] <= d[f]
  PROVE  Cost(d, (F \ {f}) \cup {p}) <= Cost(d, F)
<1> DEFINE E == F \ {f}
<1>1. E \in SUBSET P /\ p \notin E /\ f \notin E /\ f \in P
  OBVIOUS
<1>2. E \cup {f} = F
  OBVIOUS
<1> HIDE DEF E
<1>3. Cost(d, E) \in Int /\ Cost(d, E \cup {p}) = Cost(d, E) + d[p]
  BY <1>1, CostGrows
<1>4. Cost(d, F) = Cost(d, E) + d[f]
  <2>1. Cost(d, E \cup {f}) = Cost(d, E) + d[f]
    BY <1>1, CostGrows
  <2> QED
    BY <1>2, <2>1
<1>5. d[p] \in Int /\ d[f] \in Int
  BY <1>1 DEF Edges
<1>6. Cost(d, E \cup {p}) <= Cost(d, F)
  BY <1>3, <1>4, <1>5
<1> QED
  BY <1>6 DEF E

\* The edges of F across the cut W.
Cross(F, W) == {e \in F : Across(e, W)}

\* Where one of two cuts is, but not both.
Differ(X, W) == (X \ W) \cup (W \ X)

\* An edge crosses the difference of two cuts when it crosses one of them.
LEMMA AcrossDiffer ==
  \A e, X, W : Across(e, Differ(X, W)) <=> ~(Across(e, X) <=> Across(e, W))
BY DEF Across, Differ

\* A spanning tree with an edge p it lacks, across a cut C, spans without one of its
\* own edges across C: otherwise each of these is the only one, with p, that
\* crosses some cut, and of the cuts p crosses the one with fewest edges of the
\* tree, all across C, could be changed by the cut of one of them to have fewer.
LEMMA Exchange ==
  ASSUME NEW T, IsFiniteSet(T), NEW F, IsFiniteSet(F), Spans(F, T), NEW p, p \notin F,
         NEW C \in SUBSET T, Across(p, C), p[1] \in T, p[2] \in T
  PROVE  \E f \in F : Across(f, C) /\ Spans((F \ {f}) \cup {p}, T)
<1> SUFFICES ASSUME \A f \in F : Across(f, C) => ~Spans((F \ {f}) \cup {p}, T)
             PROVE  FALSE
  OBVIOUS
<1>1. ASSUME NEW f \in F, Across(f, C)
      PROVE  \E W \in SUBSET T : ~Across(p, W) /\ Across(f, W) /\ \A e \in F : Across(e, W) => e = f
  <2> DEFINE G == (F \ {f}) \cup {p}
  <2>1. Cardinality(G) = Cardinality(F)
    <3>1. IsFiniteSet(F \ {f}) /\ Cardinality(F \ {f}) = Cardinality(F) - 1
      BY FS_RemoveElement
    <3>2. Cardinality(G) = Cardinality(F \ {f}) + 1
      BY <3>1, FS_AddElement
    <3>3. Cardinality(F) \in Int
      BY FS_CardinalityType
    <3> QED
      BY <3>1, <3>2, <3>3
  <2>2. ~Spans(G, T)
    BY <1>1
  <2>3. PICK W \in SUBSET T : W # {} /\ W # T /\ \A e \in G : ~Across(e, W)
    <3> HIDE DEF G
    <3> QED
      BY <2>1, <2>2 DEF Spans
  <2>4. PICK e \in F : Across(e, W)
    BY <2>3 DEF Spans
  <2>5. \A h \in F : Across(h, W) => h = f
    BY <2>3
  <2> QED
    BY <2>3, <2>4, <2>5
<1> DEFINE Cuts == {X \in SUBSET T : Across(p, X) /\ Cross(F, X) \subseteq Cross(F, C)}
           Sizes == {Cardinality(Cross(F, X)) : X \in Cuts}
<1>2. \A X : IsFiniteSet(Cross(F, X)) /\ Cardinality(Cross(F, X)) \in Nat
  <2> TAKE X
  <2>1. Cross(F, X) \in SUBSET F
    BY DEF Cross
  <2> QED
    BY <2>1, FS_Subset, FS_CardinalityType
<1>3. C \in Cuts
  OBVIOUS
<1>4. Sizes \in SUBSET Nat /\ Sizes # {}
  <2> HIDE DEF Cuts
  <2> QED
    BY <1>2, <1>3
<1>5. PICK m \in Sizes : \A k \in Sizes : m <= k
  <2> HIDE DEF Sizes
  <2> QED
    BY <1>4, LeastNat
<1>6. PICK X \in Cuts : m = Cardinality(Cross(F, X))
  OBVIOUS
<1>7. X \in SUBSET T /\ Across(p, X) /\ Cross(F, X) \subseteq Cross(F, C)
  OBVIOUS
<1>8. X # {} /\ X # T
  <2>1. X # {}
    BY <1>7 DEF Across
  <2>2. X # T
    <3> SUFFICES ASSUME X = T PROVE FALSE
      OBVIOUS
    <3> QED
      BY <1>7 DEF Across
  <2> QED
    BY <2>1, <2>2
<1>9. PICK f \in F : Across(f, X)
  BY <1>7, <1>8 DEF Spans
<1>10. Across(f, C)
  BY <1>7, <1>9 DEF Cross
<1>11. PICK W \in SUBSET T : ~Across(p, W) /\ Across(f, W) /\ \A e \in F : Across(e, W) => e = f
  BY <1>1, <1>10
<1> DEFINE Y == Differ(X, W)
<1>12. Cross(F, Y) = Cross(F, X) \ {f}
  <2>1. \A e \in F : Across(e, Y) <=> Across(e, X) /\ e # f
    BY <1>9, <1>11, AcrossDiffer
  <2> HIDE DEF Y
  <2> QED
    BY <2>1 DEF Cross
<1>13. Y \in Cuts
  <2>1. Across(p, Y)
    BY <1>7, <1>11, AcrossDiffer
  <2>2. Y \in SUBSET T
    BY <1>7 DEF Differ
  <2> HIDE DEF Y
  <2> QED
    BY <1>7, <1>12, <2>1, <2>2
<1>14. Cardinality(Cross(F, Y)) = Cardinality(Cross(F, X)) - 1
  <2>1. f \in Cross(F, X)
    BY <1>9 DEF Cross
  <2> DEFINE A == Cross(F, X)
  <2>2. IsFiniteSet(A) /\ f \in A
    BY <1>2, <2>1
  <2> HIDE DEF Y, A
  <2>3. Cardinality(A \ {f}) = Cardinality(A) - 1
    BY ONLY <2>2, FS_RemoveElement
  <2> QED
    BY <1>12, <2>3 DEF A
<1>15. Cardinality(Cross(F, Y)) \in Sizes
  BY <1>13
<1> HIDE DEF Sizes, Y, Cuts
<1> QED
  BY <1>2, <1>5, <1>6, <1>14, <1>15

\* Every cut of C is crossed by an edge of M between members of C.
Linked(M, C) ==
  \A W \in SUBSET C : W # {} /\ W # C => \E e \in M : e[1] \in C /\ e[2] \in C /\ Across(e, W)

\* Every edge of M is the only one across some cut.
Bridges(M) ==
  \A e \in M : \E W : Across(e, W) /\ \A f \in M : Across(f, W) => f = e

\* E can be made, at no cost, into a spanning tree that holds M.
Extends(T, P, d, M, E) ==
  \E F \in SUBSET P : Spans(F, T) /\ M \subseteq F /\ Cost(d, F) <= Cost(d, E)

\* M is a tree of C and part of a cheapest spanning tree of T, if there is one.
Tree(T, P, d, C, M) ==
  /\ C \subseteq T
  /\ M \subseteq P /\ \A e \in M : e[1] \in C /\ e[2] \in C
  /\ Cardinality(M) = Cardinality(C) - 1
  /\ Linked(M, C)
  /\ Bridges(M)
  /\ \A E \in SUBSET P : Spans(E, T) => Extends(T, P, d, M, E)

\* One member, no edge.
LEMMA TreeStarts ==
  ASSUME NEW T, NEW P, NEW d, Edges(T, P, d), NEW a \in T
  PROVE  Tree(T, P, d, {a}, {})
<1>1. Cardinality({}) = Cardinality({a}) - 1
  <2>1. Cardinality({}) = 0
    BY FS_EmptySet
  <2>2. Cardinality({a}) = 1
    BY FS_Singleton
  <2> QED
    BY <2>1, <2>2
<1>2. Linked({}, {a})
  BY DEF Linked
<1>3. Bridges({})
  BY DEF Bridges
<1>4. ASSUME NEW E \in SUBSET P, Spans(E, T) PROVE Extends(T, P, d, {}, E)
  <2>1. Cost(d, E) <= Cost(d, E)
    BY CostInt
  <2> QED
    BY <1>4, <2>1 DEF Extends
<1> QED
  BY <1>1, <1>2, <1>3, <1>4 DEF Tree

\* An edge from a linked set to a new member links it.
LEMMA LinkedGrows ==
  ASSUME NEW M, NEW C, Linked(M, C), NEW p \in M, NEW a \in C, NEW b, b \notin C,
         {p[1], p[2]} = {a, b}
  PROVE  Linked(M, C \cup {b})
<1> SUFFICES ASSUME NEW W \in SUBSET (C \cup {b}), W # {}, W # C \cup {b}
             PROVE  \E e \in M : e[1] \in C \cup {b} /\ e[2] \in C \cup {b} /\ Across(e, W)
  BY DEF Linked
<1>0. (p[1] = a /\ p[2] = b) \/ (p[1] = b /\ p[2] = a)
  OBVIOUS
<1> DEFINE V == W \ {b}
<1>1. CASE V # {} /\ V # C
  <2>1. V \in SUBSET C
    OBVIOUS
  <2>2. PICK e \in M : e[1] \in C /\ e[2] \in C /\ Across(e, V)
    <3> HIDE DEF V
    <3> QED
      BY <1>1, <2>1 DEF Linked
  <2>3. e[1] # b /\ e[2] # b
    BY <2>2
  <2>4. Across(e, W)
    BY <2>2, <2>3 DEF Across
  <2> QED
    BY <2>2, <2>4
<1>2. CASE V = {} \/ V = C
  <2>1. W = {b} \/ W = C
    BY <1>2
  <2>2. a # b /\ p[1] \in C \cup {b} /\ p[2] \in C \cup {b}
    BY <1>0
  <2>3. Across(p, W)
    BY <1>0, <2>1, <2>2 DEF Across
  <2> QED
    BY <2>2, <2>3
<1> QED
  BY <1>1, <1>2

\* More edges do not unlink.
LEMMA LinkedMore ==
  ASSUME NEW M, NEW N, M \subseteq N, NEW C, Linked(M, C)
  PROVE  Linked(N, C)
BY DEF Linked

\* No edge across C is cheaper than p.
Cheapest(P, d, C, p) == \A q \in P : Across(q, C) => d[p] <= d[q]

\* The cheapest edge across C joins a new member to the tree.
LEMMA TreeGrows ==
  ASSUME NEW T, NEW P, NEW d, Edges(T, P, d), NEW C, NEW M, Tree(T, P, d, C, M),
         NEW p \in P, NEW a \in C, NEW b \in T, b \notin C, {p[1], p[2]} = {a, b},
         Cheapest(P, d, C, p), NEW D, D = C \cup {b}, NEW N, N = M \cup {p}
  PROVE  Tree(T, P, d, D, N) /\ Cost(d, N) = Cost(d, M) + d[p]
<1>1. /\ C \subseteq T
      /\ M \subseteq P /\ \A e \in M : e[1] \in C /\ e[2] \in C
      /\ Cardinality(M) = Cardinality(C) - 1
      /\ Linked(M, C)
      /\ Bridges(M)
  BY DEF Tree
<1>2. (p[1] = a /\ p[2] = b) \/ (p[1] = b /\ p[2] = a)
  OBVIOUS
<1>3. p \notin M /\ Across(p, C) /\ p[1] \in T /\ p[2] \in T
  BY <1>1, <1>2 DEF Across, Edges
<1>4. /\ IsFiniteSet(M) /\ IsFiniteSet(C) /\ \A e \in P : d[e] \in Int
      /\ IsFiniteSet(T)
  BY <1>1, FS_Subset DEF Edges
<1>5. Cost(d, N) = Cost(d, M) + d[p]
  <2>1. M \in SUBSET P
    BY <1>1
  <2> QED
    BY <1>3, <2>1, CostGrows
<1>6. D \subseteq T /\ N \subseteq P /\ \A e \in N : e[1] \in D /\ e[2] \in D
  BY <1>1, <1>2
<1>7. Cardinality(N) = Cardinality(D) - 1
  <2>1. Cardinality(N) = Cardinality(M) + 1 /\ Cardinality(D) = Cardinality(C) + 1
    BY <1>3, <1>4, FS_AddElement
  <2>2. Cardinality(M) \in Int /\ Cardinality(C) \in Int
    BY <1>4, FS_CardinalityType
  <2> QED
    BY <1>1, <2>1, <2>2
<1>8. Linked(N, D)
  <2>1. Linked(N, C) /\ p \in N
    BY <1>1, LinkedMore
  <2> QED
    BY <2>1, LinkedGrows
<1>9. Bridges(N)
  <2> SUFFICES ASSUME NEW e \in N
               PROVE  \E W : Across(e, W) /\ \A f \in N : Across(f, W) => f = e
    BY DEF Bridges
  <2>1. CASE e = p
    <3>1. Across(p, {b}) /\ \A f \in M : ~Across(f, {b})
      BY <1>1, <1>2 DEF Across
    <3> QED
      BY <2>1, <3>1
  <2>2. CASE e \in M
    <3>1. PICK W : Across(e, W) /\ \A f \in M : Across(f, W) => f = e
      BY <1>1, <2>2 DEF Bridges
    <3>2. \A f \in M : ~Across(f, {b})
      BY <1>1 DEF Across
    <3>3. Across(p, {b})
      BY <1>2 DEF Across
    <3>4. CASE ~Across(p, W)
      BY <3>1, <3>4
    <3>5. CASE Across(p, W)
      <4>1. ~Across(p, Differ(W, {b}))
        BY <3>3, <3>5, AcrossDiffer
      <4>2. \A f \in M : Across(f, Differ(W, {b})) <=> Across(f, W)
        BY <3>2, AcrossDiffer
      <4> QED
        BY <2>2, <3>1, <4>1, <4>2
    <3> QED
      BY <3>4, <3>5
  <2> QED
    BY <2>1, <2>2
<1>10. ASSUME NEW E \in SUBSET P, Spans(E, T) PROVE Extends(T, P, d, N, E)
  <2>1. PICK F \in SUBSET P : Spans(F, T) /\ M \subseteq F /\ Cost(d, F) <= Cost(d, E)
    BY <1>10 DEF Tree, Extends
  <2>2. CASE p \in F
    <3>1. N \subseteq F
      BY <2>1, <2>2
    <3> QED
      BY <2>1, <3>1 DEF Extends
  <2>3. CASE p \notin F
    <3>1. IsFiniteSet(F)
      BY CostInt
    <3>2. PICK f \in F : Across(f, C) /\ Spans((F \ {f}) \cup {p}, T)
      BY <1>1, <1>3, <1>4, <2>1, <2>3, <3>1, Exchange
    <3>3. f \notin M
      BY <1>1, <3>2 DEF Across
    <3> DEFINE G == (F \ {f}) \cup {p}
    <3>4. G \in SUBSET P /\ N \subseteq G
      BY <2>1, <3>3
    <3>5. d[p] <= d[f]
      BY <3>2 DEF Cheapest
    <3>6. Cost(d, G) <= Cost(d, F)
      BY <2>3, <3>5, CostSwap
    <3>7. Cost(d, G) \in Int /\ Cost(d, F) \in Int /\ Cost(d, E) \in Int
      <4> HIDE DEF G
      <4> QED
        BY <3>4, CostInt
    <3>8. Spans(G, T)
      BY <3>2
    <3> HIDE DEF G
    <3>9. Cost(d, G) <= Cost(d, E)
      BY <2>1, <3>6, <3>7
    <3> QED
      BY <3>4, <3>8, <3>9 DEF Extends
  <2> QED
    BY <2>2, <2>3
<1>11. Tree(T, P, d, D, N)
  <2> QED
    BY <1>6, <1>7, <1>8, <1>9, <1>10 DEF Tree
<1> QED
  BY <1>5, <1>11

\* A tree of all members spans them, and no other does at less cost.
LEMMA TreeComplete ==
  ASSUME NEW T, NEW P, NEW d, Edges(T, P, d), NEW M, Tree(T, P, d, T, M)
  PROVE  /\ Spans(M, T)
         /\ \A E \in SUBSET P : Spans(E, T) => Cost(d, M) <= Cost(d, E)
<1>1. /\ M \subseteq P /\ Cardinality(M) = Cardinality(T) - 1 /\ Linked(M, T)
      /\ \A E \in SUBSET P : Spans(E, T) => Extends(T, P, d, M, E)
  BY DEF Tree
<1>2. Spans(M, T)
  BY <1>1 DEF Spans, Linked
<1>3. ASSUME NEW E \in SUBSET P, Spans(E, T) PROVE Cost(d, M) <= Cost(d, E)
  <2>1. PICK F \in SUBSET P : Spans(F, T) /\ M \subseteq F /\ Cost(d, F) <= Cost(d, E)
    BY <1>1, <1>3 DEF Extends
  <2>2. IsFiniteSet(F) /\ Cardinality(F) = Cardinality(M)
    BY <1>1, <2>1, CostInt DEF Spans
  <2>3. F = M
    BY <2>1, <2>2, FS_Subset
  <2> QED
    BY <2>1, <2>3
<1> QED
  BY <1>2, <1>3

-----------------------------------------------------------------------------
(* The walk along a tree.  s is where it starts, U its queue and S the     *)
(* terminals it has met.                                                   *)

\* What the edges of M join to p.
NbrIn(T, M, p) == {q \in T : <<p, q>> \in M \/ <<q, p>> \in M}

\* The edges of M are among the pairs P of members of T, in ascending order.
Ordered(T, P, M) ==
  /\ IsFiniteSet(T) /\ T \subseteq Nat
  /\ P = {p \in T \X T : p[1] < p[2]}
  /\ M \subseteq P

\* One of the cheapest edges starts at s.
CheapestAt(T, P, d, M, s) ==
  /\ d \in [T \X T -> Int]
  /\ s \in T
  /\ \E b \in NbrIn(T, M, s) : \A p \in P : d[<<s, b>>] <= d[p]

\* Where the entries of the queue come from, and what is in it.
QueueRight(T, d, M, s, U, S) ==
  /\ U \subseteq Int \X T
  /\ \A x \in U : x[2] \notin ToSet(S)
  /\ S = <<>> => U = {<<0, s>>}
  /\ S # <<>> => \A x \in U : \E a \in ToSet(S) : x[2] \in NbrIn(T, M, a) /\ x[1] = d[<<a, x[2]>>]
  /\ \A a \in ToSet(S) : \A b \in NbrIn(T, M, a) : b \in ToSet(S) \/ <<d[<<a, b>>], b>> \in U

\* The order the walk leaves behind.
OrderRight(T, P, d, M, s, S) ==
  /\ S \in Seq(T) /\ IsInjective(S)
  /\ S # <<>> => S[1] = s
  /\ Linked(M, ToSet(S))
  /\ \A i \in 2 .. Len(S) : \E j \in 1 .. i - 1 : S[j] \in NbrIn(T, M, S[i])
  /\ Len(S) >= 2 => \A p \in P : d[<<S[1], S[2]>>] <= d[p]

\* Two members of a linked set are not both joined to a terminal outside: one of the
\* edges would be the only one across a cut that separates the two.
LEMMA OneWayIn ==
  ASSUME NEW T, NEW P, NEW M, Ordered(T, P, M), Bridges(M), NEW V, Linked(M, V),
         NEW q, q \notin V, NEW a \in V, NEW b \in V, q \in NbrIn(T, M, a), q \in NbrIn(T, M, b)
  PROVE  a = b
<1> SUFFICES ASSUME a # b PROVE FALSE
  OBVIOUS
<1>1. PICK e \in M : e = <<a, q>> \/ e = <<q, a>>
  BY DEF NbrIn
<1>2. PICK f \in M : f = <<b, q>> \/ f = <<q, b>>
  BY DEF NbrIn
<1>3. e # f
  BY <1>1, <1>2
<1>4. PICK W : Across(f, W) /\ \A g \in M : Across(g, W) => g = f
  BY DEF Bridges
<1>5. ~Across(e, W)
  BY <1>3, <1>4
<1>6. ~(a \in W <=> b \in W)
  BY <1>1, <1>2, <1>4, <1>5 DEF Across
<1> DEFINE X == W \cap V
<1>7. X \in SUBSET V /\ X # {} /\ X # V
  BY <1>6
<1>8. PICK g \in M : g[1] \in V /\ g[2] \in V /\ Across(g, X)
  <2> HIDE DEF X
  <2> QED
    BY <1>7 DEF Linked
<1>9. Across(g, W)
  BY <1>8 DEF Across
<1>10. g = f
  BY <1>4, <1>9
<1>11. q \in V
  BY <1>2, <1>8, <1>10
<1> QED
  BY <1>11

\* A list and one more member.
LEMMA Appended ==
  ASSUME NEW T, NEW S \in Seq(T), IsInjective(S), NEW x \in T, x \notin ToSet(S)
  PROVE  /\ Append(S, x) \in Seq(T) /\ IsInjective(Append(S, x))
         /\ Len(Append(S, x)) = Len(S) + 1 /\ Append(S, x)[Len(S) + 1] = x
         /\ \A i \in 1 .. Len(S) : Append(S, x)[i] = S[i]
         /\ ToSet(Append(S, x)) = ToSet(S) \cup {x}
<1> DEFINE n == Len(S)
           R == Append(S, x)
<1>1. /\ n \in Nat /\ R \in Seq(T) /\ Len(R) = n + 1 /\ R[n + 1] = x
      /\ \A i \in 1 .. n : R[i] = S[i]
  OBVIOUS
<1>2. DOMAIN S = 1 .. n /\ DOMAIN R = 1 .. n + 1
  BY <1>1
<1> HIDE DEF R, n
<1>3. \A i \in 1 .. n + 1 : i \in 1 .. n \/ i = n + 1
  BY <1>1
<1>4. \A i \in 1 .. n : i \in 1 .. n + 1 /\ n + 1 \in 1 .. n + 1
  BY <1>1
<1>5. \A i \in 1 .. n : S[i] \in ToSet(S)
  BY <1>2 DEF ToSet
<1>6. IsInjective(R)
  <2>1. ASSUME NEW i \in 1 .. n + 1, NEW j \in 1 .. n + 1, R[i] = R[j] PROVE i = j
    <3>1. CASE i \in 1 .. n /\ j \in 1 .. n
      BY <1>1, <1>2, <2>1, <3>1 DEF IsInjective
    <3>2. CASE i = n + 1 \/ j = n + 1
      BY <1>1, <1>3, <1>5, <2>1, <3>2
    <3> QED
      BY <1>3, <3>1, <3>2
  <2> QED
    BY <1>2, <2>1 DEF IsInjective
<1>7. ToSet(R) = ToSet(S) \cup {x}
  <2>1. ASSUME NEW i \in 1 .. n + 1 PROVE R[i] \in ToSet(S) \cup {x}
    BY <1>1, <1>3, <1>5
  <2>2. ASSUME NEW y \in ToSet(S) PROVE y \in ToSet(R)
    <3>1. PICK i \in 1 .. n : S[i] = y
      BY <1>2 DEF ToSet
    <3> QED
      BY <1>1, <1>2, <1>4, <3>1 DEF ToSet
  <2>3. x \in ToSet(R)
    <3>1. n + 1 \in 1 .. n + 1
      BY <1>1
    <3> QED
      BY <1>1, <1>2, <3>1 DEF ToSet
  <2>4. ToSet(R) \subseteq ToSet(S) \cup {x}
    BY <1>2, <2>1 DEF ToSet
  <2> QED
    BY <2>2, <2>3, <2>4
<1> QED
  BY <1>1, <1>6, <1>7 DEF R, n

\* Where the walk starts.
LEMMA WalkStarts ==
  ASSUME NEW T, NEW P, NEW d, NEW M, NEW s \in T
  PROVE  QueueRight(T, d, M, s, {<<0, s>>}, <<>>) /\ OrderRight(T, P, d, M, s, <<>>)
<1>1. ToSet(<<>>) = {}
  BY DEF ToSet
<1>2. <<>> \in Seq(T) /\ IsInjective(<<>>) /\ Len(<<>>) = 0
  BY DEF IsInjective
<1>3. Linked(M, {})
  BY DEF Linked
<1>4. QueueRight(T, d, M, s, {<<0, s>>}, <<>>)
  BY <1>1 DEF QueueRight
<1>5. OrderRight(T, P, d, M, s, <<>>)
  <2>1. PICK S : S = <<>>
    OBVIOUS
  <2>2. /\ S \in Seq(T) /\ IsInjective(S) /\ Len(S) = 0
        /\ Linked(M, ToSet(S))
    BY <1>1, <1>2, <1>3, <2>1
  <2>3. \A i \in 2 .. Len(S) : FALSE
    BY <2>2
  <2>4. ~(Len(S) >= 2)
    BY <2>2
  <2>5. OrderRight(T, P, d, M, s, S)
    BY ONLY <2>1, <2>2, <2>3, <2>4 DEF OrderRight
  <2> QED
    BY <2>1, <2>5
<1> QED
  BY <1>4, <1>5

\* When nothing waits, the walk has met every member of a linked set, each once.
LEMMA WalkEnds ==
  ASSUME NEW T, NEW P, NEW d, NEW M, Ordered(T, P, M), Linked(M, T), NEW s \in T, NEW S,
         QueueRight(T, d, M, s, {}, S), OrderRight(T, P, d, M, s, S)
  PROVE  ToSet(S) = T /\ Len(S) = Cardinality(T)
<1> DEFINE V == ToSet(S)
<1>1. S \in Seq(T) /\ IsInjective(S) /\ V \subseteq T
  BY MembersOf DEF OrderRight
<1>2. V # {}
  <2>1. S # <<>>
    BY DEF QueueRight
  <2>2. 1 \in DOMAIN S
    BY <1>1, <2>1
  <2> QED
    BY <2>2 DEF ToSet
<1>3. \A a \in V : \A b \in NbrIn(T, M, a) : b \in V
  BY DEF QueueRight
<1> HIDE DEF V
<1>4. V = T
  <2> SUFFICES ASSUME V # T PROVE FALSE
    OBVIOUS
  <2>1. PICK e \in M : Across(e, V)
    BY <1>1, <1>2 DEF Linked
  <2>2. e[1] \in T /\ e[2] \in T /\ e = <<e[1], e[2]>>
    BY DEF Ordered
  <2>3. e[2] \in NbrIn(T, M, e[1]) /\ e[1] \in NbrIn(T, M, e[2])
    BY <2>2 DEF NbrIn
  <2> QED
    BY <1>3, <2>1, <2>3 DEF Across
<1>5. Len(S) = Cardinality(T)
  <2> DEFINE n == Len(S)
             D == 1 .. n
  <2>1. n \in Nat /\ DOMAIN S = D /\ S \in [D -> T]
    BY <1>1
  <2>2. IsFiniteSet(D) /\ Cardinality(D) = n
    BY <2>1, FS_Interval
  <2> HIDE DEF n, D
  <2>3. \A y \in T : \E i \in D : S[i] = y
    BY <1>4, <2>1 DEF V, ToSet
  <2>4. S \in Injection(D, T) /\ S \in Surjection(D, T)
    BY <1>1, <2>1, <2>3 DEF Injection, Surjection, IsInjective
  <2>5. Cardinality(T) = Cardinality(D)
    BY <2>2, <2>4, FS_Surjection
  <2> QED
    BY <2>2, <2>5 DEF n
<1> QED
  BY <1>4, <1>5 DEF V

\* The queue when x has been met: without x, and with the neighbours still to be met.
QueueAfter(T, d, M, U, x, met) ==
  (U \ {x}) \cup {<<d[<<x[2], q>>], q>> : q \in NbrIn(T, M, x[2]) \ met}

\* What the walk keeps when it meets the terminal on top of its queue.
LEMMA WalkStep ==
  ASSUME NEW T, NEW P, NEW d, NEW M, Ordered(T, P, M), Bridges(M),
         NEW s, CheapestAt(T, P, d, M, s), NEW U, NEW S,
         QueueRight(T, d, M, s, U, S), OrderRight(T, P, d, M, s, S),
         NEW x \in U, \A y \in U : x[1] <= y[1],
         NEW R, R = Append(S, x[2]), NEW N, N = QueueAfter(T, d, M, U, x, ToSet(R))
  PROVE  QueueRight(T, d, M, s, N, R) /\ OrderRight(T, P, d, M, s, R)
<1> DEFINE V == ToSet(S)
           q == x[2]
           n == Len(S)
<1>1. /\ U \subseteq Int \X T
      /\ \A y \in U : y[2] \notin V
      /\ S = <<>> => U = {<<0, s>>}
      /\ S # <<>> => \A y \in U : \E a \in V : y[2] \in NbrIn(T, M, a) /\ y[1] = d[<<a, y[2]>>]
      /\ \A a \in V : \A b \in NbrIn(T, M, a) : b \in V \/ <<d[<<a, b>>], b>> \in U
  BY DEF QueueRight
<1>2. /\ S \in Seq(T) /\ IsInjective(S)
      /\ S # <<>> => S[1] = s
      /\ Linked(M, V)
      /\ \A i \in 2 .. n : \E j \in 1 .. i - 1 : S[j] \in NbrIn(T, M, S[i])
      /\ n >= 2 => \A p \in P : d[<<S[1], S[2]>>] <= d[p]
  BY DEF OrderRight
<1>3. /\ d \in [T \X T -> Int] /\ s \in T
      /\ \E b \in NbrIn(T, M, s) : \A p \in P : d[<<s, b>>] <= d[p]
  BY DEF CheapestAt
<1>4. q \in T /\ q \notin V /\ x = <<x[1], q>> /\ V \subseteq T
  BY <1>1, <1>2, MembersOf
<1>5. /\ R \in Seq(T) /\ IsInjective(R) /\ Len(R) = n + 1 /\ R[n + 1] = q
      /\ \A i \in 1 .. n : R[i] = S[i]
      /\ ToSet(R) = V \cup {q}
      /\ n \in Nat /\ \A i \in 1 .. n : S[i] \in V
  <2>1. q \in T /\ q \notin ToSet(S) /\ S \in Seq(T) /\ IsInjective(S)
    BY <1>2, <1>4
  <2>2. \A i \in 1 .. n : S[i] \in V
    BY <1>2, MembersOf
  <2> HIDE DEF q
  <2> QED
    BY <2>1, <2>2, Appended DEF q
<1>6. S = <<>> => V = {} /\ q = s /\ U = {x}
  BY <1>1 DEF ToSet
<1> HIDE DEF V, q, n
<1>7. S # <<>> => \A y \in U : y[2] = q => y = x
  <2> SUFFICES ASSUME S # <<>>, NEW y \in U, y[2] = q PROVE y = x
    OBVIOUS
  <2>1. PICK a \in V : q \in NbrIn(T, M, a) /\ x[1] = d[<<a, q>>]
    BY <1>1 DEF q
  <2>2. PICK b \in V : q \in NbrIn(T, M, b) /\ y[1] = d[<<b, q>>]
    BY <1>1
  <2>3. a = b
    BY <1>2, <1>4, <2>1, <2>2, OneWayIn
  <2>4. y = <<y[1], y[2]>>
    BY <1>1
  <2> QED
    BY <1>4, <2>1, <2>2, <2>3, <2>4
<1>8. \A y \in U : y[2] = q => y = x
  BY <1>6, <1>7
<1>9. /\ \A y \in N : \/ y \in U /\ y # x
                      \/ \E r \in NbrIn(T, M, q) \ ToSet(R) : y = <<d[<<q, r>>], r>>
      /\ \A y \in U : y # x => y \in N
      /\ \A r \in NbrIn(T, M, q) \ ToSet(R) : <<d[<<q, r>>], r>> \in N
  BY DEF QueueAfter, q
<1>10. N \subseteq Int \X T /\ \A y \in N : y[2] \notin ToSet(R)
  <2> SUFFICES ASSUME NEW y \in N PROVE y \in Int \X T /\ y[2] \notin ToSet(R)
    OBVIOUS
  <2>1. CASE y \in U /\ y # x
    BY <1>1, <1>5, <1>8, <2>1
  <2>2. CASE \E r \in NbrIn(T, M, q) \ ToSet(R) : y = <<d[<<q, r>>], r>>
    <3>1. PICK r \in NbrIn(T, M, q) \ ToSet(R) : y = <<d[<<q, r>>], r>>
      BY <2>2
    <3>2. r \in T /\ d[<<q, r>>] \in Int
      BY <1>3, <1>4 DEF NbrIn
    <3> QED
      BY <3>1, <3>2
  <2> QED
    BY <1>9, <2>1, <2>2
<1>11. ASSUME NEW y \in N
       PROVE  \E a \in ToSet(R) : y[2] \in NbrIn(T, M, a) /\ y[1] = d[<<a, y[2]>>]
  <2>1. CASE y \in U /\ y # x
    <3>1. S # <<>>
      BY <1>6, <2>1
    <3> QED
      BY <1>1, <1>5, <2>1, <3>1
  <2>2. CASE \E r \in NbrIn(T, M, q) \ ToSet(R) : y = <<d[<<q, r>>], r>>
    <3>1. PICK r \in NbrIn(T, M, q) \ ToSet(R) : y = <<d[<<q, r>>], r>>
      BY <2>2
    <3>2. y[2] = r /\ y[1] = d[<<q, r>>] /\ r \in NbrIn(T, M, q)
      BY <3>1
    <3>3. q \in ToSet(R)
      BY <1>5
    <3> QED
      BY <3>2, <3>3
  <2> QED
    BY <1>9, <2>1, <2>2
<1>12. ASSUME NEW a \in ToSet(R), NEW b \in NbrIn(T, M, a)
       PROVE  b \in ToSet(R) \/ <<d[<<a, b>>], b>> \in N
  <2> SUFFICES ASSUME b \notin ToSet(R) PROVE <<d[<<a, b>>], b>> \in N
    OBVIOUS
  <2>1. CASE a = q
    BY <1>9, <2>1
  <2>2. CASE a \in V
    <3> DEFINE y == <<d[<<a, b>>], b>>
    <3>1. y \in U
      BY <1>1, <1>5, <2>2
    <3>2. y # x
      BY <1>4, <1>5
    <3> QED
      BY <1>9, <3>1, <3>2
  <2> QED
    BY <1>5, <2>1, <2>2
<1>13. R # <<>> /\ R[1] = s
  <2>1. Len(R) # 0 /\ R # <<>>
    BY <1>5
  <2>2. CASE S = <<>>
    <3>1. n = 0
      BY <2>2 DEF n
    <3> QED
      BY <1>5, <1>6, <2>1, <2>2, <3>1
  <2>3. CASE S # <<>>
    <3>1. 1 \in 1 .. n
      BY <1>2, <2>3 DEF n
    <3> QED
      BY <1>2, <1>5, <2>1, <2>3, <3>1
  <2> QED
    BY <2>2, <2>3
<1>14. QueueRight(T, d, M, s, N, R)
  BY <1>10, <1>11, <1>12, <1>13 DEF QueueRight
\* Where the new terminal is joined to those met before.
<1>15. S # <<>> => \E a \in V : q \in NbrIn(T, M, a) /\ x[1] = d[<<a, q>>]
  BY <1>1 DEF q
<1>16. Linked(M, V \cup {q})
  <2>1. CASE S = <<>>
    <3>1. V = {}
      BY <1>6, <2>1
    <3>2. \A W \in SUBSET {q} : W = {} \/ W = {q}
      OBVIOUS
    <3> QED
      BY <3>1, <3>2 DEF Linked
  <2>2. CASE S # <<>>
    <3>1. PICK a \in V : q \in NbrIn(T, M, a)
      BY <1>15, <2>2
    <3>2. PICK e \in M : e = <<a, q>> \/ e = <<q, a>>
      BY <3>1 DEF NbrIn
    <3>3. {e[1], e[2]} = {a, q}
      BY <3>2
    <3> QED
      BY <1>2, <1>4, <3>3, LinkedGrows
  <2> QED
    BY <2>1, <2>2
<1>17. ASSUME NEW i \in 2 .. Len(R)
       PROVE  \E j \in 1 .. i - 1 : R[j] \in NbrIn(T, M, R[i])
  <2>1. CASE i \in 2 .. n
    <3>1. PICK j \in 1 .. i - 1 : S[j] \in NbrIn(T, M, S[i])
      BY <1>2, <2>1
    <3>2. j \in 1 .. n /\ i \in 1 .. n
      BY <1>5, <2>1
    <3> QED
      BY <1>5, <3>1, <3>2
  <2>2. CASE i = n + 1
    <3>1. n >= 1
      BY <1>5, <2>2
    <3>2. S # <<>>
      BY <3>1 DEF n
    <3>3. PICK a \in V : q \in NbrIn(T, M, a)
      BY <1>15, <3>2
    <3>4. a \in NbrIn(T, M, q)
      BY <1>4, <3>3 DEF NbrIn
    <3>5. PICK j \in 1 .. n : S[j] = a
      BY <1>2, MembersOf DEF V, n
    <3>6. i - 1 = n /\ R[i] = q /\ R[j] = a
      BY <1>5, <2>2, <3>5
    <3> QED
      BY <3>4, <3>6
  <2>3. i \in 2 .. n \/ i = n + 1
    BY <1>5
  <2> QED
    BY <2>1, <2>2, <2>3
<1>18. ASSUME Len(R) >= 2, NEW p \in P PROVE d[<<R[1], R[2]>>] <= d[p]
  <2>1. CASE n >= 2
    <3>1. 1 \in 1 .. n /\ 2 \in 1 .. n
      BY <1>5, <2>1
    <3> QED
      BY <1>2, <1>5, <2>1, <3>1
  <2>2. CASE n = 1
    <3>1. S # <<>> /\ S[1] = s /\ R[2] = q /\ R[1] = s
      <4>1. S # <<>>
        BY <2>2 DEF n
      <4>2. R[n + 1] = R[2]
        BY <2>2
      <4> QED
        BY <1>2, <1>5, <1>13, <4>1, <4>2
    <3>2. V = {s}
      <4>1. \A i \in 1 .. 1 : i = 1
        OBVIOUS
      <4>2. \A y : y \in ToSet(S) <=> \E i \in 1 .. 1 : S[i] = y
        BY <1>2, <2>2, MembersOf DEF n
      <4> QED
        BY <3>1, <4>1, <4>2 DEF V
    <3>3. x[1] = d[<<s, q>>]
      BY <1>15, <3>1, <3>2
    <3>4. PICK b \in NbrIn(T, M, s) : \A r \in P : d[<<s, b>>] <= d[r]
      BY <1>3
    <3>5. b # s /\ b \in T
      BY <3>4 DEF NbrIn, Ordered
    <3>6. <<d[<<s, b>>], b>> \in U
      BY <1>1, <3>2, <3>4, <3>5
    <3>7. x[1] <= d[<<s, b>>]
      BY <3>6
    <3>8. d[<<s, b>>] <= d[p]
      BY <3>4
    <3>9. d[<<s, b>>] \in Int /\ x[1] \in Int /\ d[p] \in Int
      <4>1. p \in T \X T /\ <<s, b>> \in T \X T
        BY <1>3, <3>5 DEF Ordered
      <4> QED
        BY <1>1, <1>3, <4>1
    <3>10. x[1] <= d[p]
      BY <3>7, <3>8, <3>9
    <3> QED
      BY <3>1, <3>3, <3>10
  <2>3. n >= 2 \/ n = 1
    BY <1>5, <1>18
  <2> QED
    BY <2>1, <2>2, <2>3
<1>19. OrderRight(T, P, d, M, s, R)
  BY <1>5, <1>13, <1>16, <1>17, <1>18 DEF OrderRight
<1> QED
  BY <1>14, <1>19

-----------------------------------------------------------------------------
(* One task of MST.                                                        *)

\* The order of the queue is total: there is a first pair, and none is cheaper.
LEMMA FirstFacts ==
  ASSUME NEW S \in SUBSET Pair, S # {}, \A p \in Pair : dist[p] \in Int /\ dist[p] >= -1
  PROVE  First(S) \in S /\ \A q \in S : dist[First(S)] <= dist[q]
<1> DEFINE A == {dist[p] + 1 : p \in S}
<1>0. \A p \in S : p[1] \in Nat /\ p[2] \in Nat /\ p = <<p[1], p[2]>> /\ dist[p] \in Int /\ dist[p] + 1 \in Nat
  BY DEF Pair, Terminal
<1>1. A \in SUBSET Nat /\ A # {}
  BY <1>0
<1>2. PICK m \in A : \A k \in A : m <= k
  <2> HIDE DEF A
  <2> QED
    BY <1>1, LeastNat
<1> DEFINE S1 == {p \in S : dist[p] + 1 = m}
           B == {p[1] : p \in S1}
<1>3. B \in SUBSET Nat /\ B # {}
  <2>1. \E p \in S : dist[p] + 1 = m
    OBVIOUS
  <2> HIDE DEF A
  <2> QED
    BY <1>0, <2>1
<1>4. PICK i \in B : \A k \in B : i <= k
  <2> HIDE DEF B
  <2> QED
    BY <1>3, LeastNat
<1> DEFINE S2 == {p \in S1 : p[1] = i}
           C == {p[2] : p \in S2}
<1>5. C \in SUBSET Nat /\ C # {}
  <2>1. \E p \in S1 : p[1] = i
    OBVIOUS
  <2>2. \A p \in S2 : p \in S
    OBVIOUS
  <2> HIDE DEF B, S1, A
  <2> QED
    BY <1>0, <2>1, <2>2
<1>6. PICK j \in C : \A k \in C : j <= k
  <2> HIDE DEF C
  <2> QED
    BY <1>5, LeastNat
<1>7. PICK p \in S2 : p[2] = j
  OBVIOUS
<1>8. p \in S /\ dist[p] + 1 = m /\ p[1] = i
  OBVIOUS
<1>9. ASSUME NEW q \in S \ {p} PROVE Before(p, q)
  <2>1. dist[q] + 1 \in A /\ dist[p] + 1 <= dist[q] + 1
    BY <1>2, <1>8
  <2>2. dist[q] + 1 = m => q[1] \in B /\ i <= q[1]
    BY <1>4
  <2>3. dist[q] + 1 = m /\ q[1] = i => q[2] \in C /\ j <= q[2]
    BY <1>6
  <2>4. /\ q[1] \in Nat /\ q[2] \in Nat /\ q = <<q[1], q[2]>> /\ dist[q] \in Int
        /\ p[1] \in Nat /\ p[2] \in Nat /\ p = <<p[1], p[2]>> /\ dist[p] \in Int
    BY <1>0, <1>8
  <2>5. q[1] = p[1] => q[2] # p[2]
    BY <2>4
  <2> HIDE DEF A, B, C, S1, S2
  <2>6. CASE dist[q] + 1 # m
    BY <1>8, <2>1, <2>4, <2>6 DEF Before
  <2>7. CASE dist[q] + 1 = m /\ q[1] # i
    BY <1>8, <2>2, <2>4, <2>7 DEF Before
  <2>8. CASE dist[q] + 1 = m /\ q[1] = i
    BY <1>7, <1>8, <2>3, <2>4, <2>5, <2>8 DEF Before
  <2> QED
    BY <2>6, <2>7, <2>8
<1>10. First(S) \in S /\ \A q \in S \ {First(S)} : Before(First(S), q)
  <2>1. \E r \in S : \A q \in S \ {r} : Before(r, q)
    BY <1>8, <1>9
  <2> QED
    BY <2>1, Zenon DEF First
<1>11. ASSUME NEW q \in S PROVE dist[First(S)] <= dist[q]
  <2>1. dist[First(S)] \in Int /\ dist[q] \in Int
    BY <1>0, <1>10
  <2>2. CASE q = First(S)
    BY <2>1, <2>2
  <2>3. CASE q # First(S)
    <3>1. Before(First(S), q)
      BY <1>10, <2>3
    <3> QED
      BY <2>1, <3>1 DEF Before
  <2> QED
    BY <2>2, <2>3
<1> QED
  BY <1>10, <1>11

\* The terminals of a net, their pairs and the distances.
LEMMA NetFacts ==
  ASSUME BfsInv, net \in Nets
  PROVE  /\ netSize \in Nat /\ netSize >= 2 /\ net \in Seq(Fpga)
         /\ IsFiniteSet(Terminal) /\ Cardinality(Terminal) = netSize
         /\ Terminal \subseteq Nat /\ 0 \in Terminal
         /\ <<0, 1>> \in Pair
         /\ dist \in [Terminal \X Terminal -> Int]
         /\ \A p \in Pair : dist[p] \in Int /\ dist[p] >= -1
         /\ Edges(Terminal, Pair, dist)
<1>1. net \in Seq(Fpga) /\ netSize \in Nat /\ netSize >= 2
  BY NetsAssumption DEF netSize
<1>2. IsFiniteSet(Terminal) /\ Cardinality(Terminal) = netSize /\ Terminal \subseteq Nat
  <2>1. /\ IsFiniteSet(0 .. netSize - 1)
        /\ Cardinality(0 .. netSize - 1) = IF 0 > netSize - 1 THEN 0 ELSE (netSize - 1) - 0 + 1
    BY <1>1, FS_Interval
  <2> QED
    BY <1>1, <2>1 DEF Terminal
<1>3. <<0, 1>> \in Pair /\ 0 \in Terminal
  <2>1. 0 \in Terminal /\ 1 \in Terminal
    BY <1>1 DEF Terminal
  <2> QED
    BY <2>1 DEF Pair
<1>4. ASSUME NEW p \in Terminal \X Terminal
      PROVE  dists[net[Min({p[1], p[2]}) + 1]][net[Max({p[1], p[2]}) + 1]] \in -1 .. FpgaNum - 1
  <2> DEFINE S == {p[1], p[2]}
             a == Min(S)
             b == Max(S)
  <2>1. S \in SUBSET Terminal /\ S # {}
    OBVIOUS
  <2>2. a \in S
    <3> HIDE DEF S
    <3> QED
      BY <1>2, <2>1, MinOfNats
  <2>3. b \in S
    <3>1. S \in SUBSET (0 .. netSize - 1) /\ netSize - 1 \in Nat
      BY <1>1, <2>1 DEF Terminal
    <3> HIDE DEF S
    <3> QED
      BY <2>1, <3>1, MaxOfInterval
  <2> HIDE DEF a, b
  <2>4. a \in Terminal /\ b \in Terminal
    BY <2>1, <2>2, <2>3
  <2>5. net[a + 1] \in Fpga /\ net[b + 1] \in Fpga
    <3>1. a + 1 \in 1 .. netSize /\ b + 1 \in 1 .. netSize
      BY <1>1, <2>4 DEF Terminal
    <3> QED
      BY <1>1, <3>1 DEF netSize
  <2>6. dists[net[a + 1]][net[b + 1]] \in -1 .. FpgaNum - 1
    BY <2>5 DEF BfsInv
  <2> QED
    BY <2>6 DEF a, b
<1>5. \A p \in Terminal \X Terminal : dist[p] \in -1 .. FpgaNum - 1
  BY <1>4 DEF dist
<1>6. \A p \in Terminal \X Terminal : dist[p] \in Int /\ dist[p] >= -1
  BY <1>5, FpgaFacts
<1>7. dist \in [Terminal \X Terminal -> Int]
  <2>1. DOMAIN dist = Terminal \X Terminal /\ dist = [p \in Terminal \X Terminal |-> dist[p]]
    BY DEF dist
  <2> QED
    BY <1>6, <2>1
<1>8. \A p \in Pair : p \in Terminal \X Terminal /\ p[1] \in Terminal /\ p[2] \in Terminal /\ p[1] # p[2]
  <2> TAKE p \in Pair
  <2>1. p \in Terminal \X Terminal /\ p[1] < p[2]
    BY DEF Pair
  <2>2. p[1] \in Nat /\ p[2] \in Nat
    BY <1>2, <2>1
  <2> QED
    BY <2>1, <2>2
<1>9. IsFiniteSet(Pair)
  <2>1. IsFiniteSet(Terminal \X Terminal)
    BY <1>2, FS_Product
  <2>2. Pair \in SUBSET (Terminal \X Terminal)
    BY <1>8
  <2> QED
    BY <2>1, <2>2, FS_Subset
<1>10. Edges(Terminal, Pair, dist)
  BY <1>2, <1>6, <1>8, <1>9 DEF Edges
<1> QED
  BY <1>1, <1>2, <1>3, <1>6, <1>7, <1>8, <1>10

\* No edges cost nothing.
LEMMA CostEmpty == ASSUME NEW d PROVE Cost(d, {}) = 0
<1> DEFINE f == [e \in {} |-> d[e]]
<1>1. f \in [{} -> Int] /\ IsFiniteSet({})
  BY FS_EmptySet
<1>2. Cost(d, {}) = SumFunction(f)
  BY DEF Cost
<1> HIDE DEF f
<1>3. PICK h : SumsUp(h, {}, f)
  BY <1>1, SumOverSet
<1> QED
  BY <1>2, <1>3 DEF SumsUp

\* The queue holds all edges across C, and none that does not touch C.
CutQueued(P, C, K) ==
  /\ K \subseteq P
  /\ \A p \in P : Across(p, C) => p \in K
  /\ \A p \in K : p[1] \in C \/ p[2] \in C

\* Kruskal's tree, its cost and its queue.
Growing(T, P, d, C, i, M, c, K) ==
  /\ Tree(T, P, d, C, M)
  /\ c = Cost(d, M)
  /\ \E p \in M : \A q \in P : d[p] <= d[q]
  /\ i = Cardinality(T \ C)
  /\ CutQueued(P, C, K)

\* What holds while a task runs: before it starts its variables are untouched, from
\* its first edge on the tree is part of a cheapest one and the queue complete, and
\* the walk runs on the finished tree.
MstInv ==
  /\ BfsInv
  /\ pc \in {"bfs", "first", "kruskal", "walk", "done"}
  /\ pc = "bfs" => net = <<>> /\ isolatedNum = 0
  /\ pc # "bfs" => net \in Nets
  /\ pc \in {"bfs", "first"} => connected = {} /\ mst = {} /\ mstCost = 0 /\ Q = {}
  /\ pc = "first" => isolatedNum = netSize
  /\ pc \in {"bfs", "first", "kruskal"} => start = 0 /\ ucsQ = {} /\ sorted = <<>>
  /\ pc \in {"kruskal", "walk", "done"} =>
       Growing(Terminal, Pair, dist, connected, isolatedNum, mst, mstCost, Q)
  /\ pc \in {"walk", "done"} =>
       /\ connected = Terminal
       /\ CheapestAt(Terminal, Pair, dist, mst, start)
       /\ QueueRight(Terminal, dist, mst, start, ucsQ, sorted)
       /\ OrderRight(Terminal, Pair, dist, mst, start, sorted)
  /\ pc = "done" => ucsQ = {}

\* The terminals and the distances stay while the net and the rows do.
LEMMA Frame ==
  net' = net /\ dists' = dists =>
    /\ netSize' = netSize /\ Terminal' = Terminal /\ Pair' = Pair /\ dist' = dist
BY DEF netSize, Terminal, Pair, dist

\* Kruskal's queue after b has joined the tree at C.
LEMMA CutKept ==
  ASSUME BfsInv, net \in Nets, NEW C \in SUBSET Terminal, NEW b \in Terminal, b \notin C,
         NEW p \in Pair, {p[1], p[2]} \subseteq C \cup {b},
         NEW K, CutQueued(Pair, C, K), NEW D, D = C \cup {b}, NEW L, L = (K \ {p}) \cup NewPairs(b, D)
  PROVE  CutQueued(Pair, D, L)
<1>0. /\ K \subseteq Pair
      /\ \A e \in Pair : Across(e, C) => e \in K
      /\ \A e \in K : e[1] \in C \/ e[2] \in C
  BY DEF CutQueued
<1>1. NewPairs(b, D) = {q \in Pair : (q[1] = b /\ q[2] \notin D) \/ (q[2] = b /\ q[1] \notin D)}
  BY DEF NewPairs
<1>2. L \in SUBSET Pair
  BY <1>0, <1>1
<1>3. ASSUME NEW e \in Pair, Across(e, D) PROVE e \in L
  <2>1. e # p
    BY <1>3 DEF Across
  <2>2. CASE e[1] = b \/ e[2] = b
    <3>1. e \in NewPairs(b, D)
      BY <1>1, <1>3, <2>2 DEF Across
    <3> QED
      BY <3>1
  <2>3. CASE e[1] # b /\ e[2] # b
    <3>1. Across(e, C)
      BY <1>3, <2>3 DEF Across
    <3> QED
      BY <1>0, <2>1, <3>1
  <2> QED
    BY <2>2, <2>3
<1>4. ASSUME NEW e \in L PROVE e[1] \in D \/ e[2] \in D
  BY <1>0, <1>1
<1> QED
  BY <1>2, <1>3, <1>4 DEF CutQueued

\* The first cheapest pair: a tree of two terminals, and all pairs across it queued.
LEMMA ConnectFirstInv == MstInv /\ ConnectFirst => MstInv'
<1> SUFFICES ASSUME MstInv, ConnectFirst PROVE MstInv'
  OBVIOUS
<1> DEFINE p == First(Pair)
           a == p[1]
           b == p[2]
           C == {a, b}
<1>1. /\ BfsInv /\ pc = "first" /\ net \in Nets /\ isolatedNum = netSize
      /\ start = 0 /\ ucsQ = {} /\ sorted = <<>>
  BY DEF MstInv, ConnectFirst
<1>2. /\ netSize \in Nat /\ netSize >= 2
      /\ IsFiniteSet(Terminal) /\ Cardinality(Terminal) = netSize
      /\ <<0, 1>> \in Pair
      /\ \A e \in Pair : dist[e] \in Int /\ dist[e] >= -1
      /\ Edges(Terminal, Pair, dist)
  BY <1>1, NetFacts
<1>3. p \in Pair /\ \A e \in Pair : dist[p] <= dist[e]
  BY <1>2, FirstFacts
<1>4. /\ connected' = C /\ mst' = {p} /\ mstCost' = dist[p]
      /\ Q' = NewPairs(a, C) \cup NewPairs(b, C)
      /\ isolatedNum' = isolatedNum - 2 /\ pc' = "kruskal"
      /\ UNCHANGED bfsVars /\ net' = net /\ dists' = dists
      /\ start' = start /\ ucsQ' = ucsQ /\ sorted' = sorted
  BY DEF ConnectFirst, bfsVars
<1> HIDE DEF p
<1>5. a \in Terminal /\ b \in Terminal /\ a # b
  BY <1>2, <1>3 DEF Edges
<1>6. Tree(Terminal, Pair, dist, {a}, {})
  BY <1>2, <1>5, TreeStarts
<1>7. Tree(Terminal, Pair, dist, C, {p}) /\ Cost(dist, {p}) = Cost(dist, {}) + dist[p]
  <2>1. a \in {a} /\ b \notin {a} /\ {p[1], p[2]} = {a, b} /\ C = {a} \cup {b} /\ {p} = {} \cup {p}
    BY <1>5
  <2>2. Cheapest(Pair, dist, {a}, p)
    BY <1>3 DEF Cheapest
  <2> HIDE DEF a, b, C
  <2>3. PICK X, Y : X = {a} /\ Y = {}
    OBVIOUS
  <2>4. /\ Tree(Terminal, Pair, dist, X, Y) /\ a \in X /\ b \notin X /\ C = X \cup {b}
        /\ {p} = Y \cup {p} /\ Cheapest(Pair, dist, X, p)
    BY <1>6, <2>1, <2>2, <2>3
  <2>5. Tree(Terminal, Pair, dist, C, {p}) /\ Cost(dist, {p}) = Cost(dist, Y) + dist[p]
    BY <1>2, <1>3, <1>5, <2>1, <2>4, TreeGrows
  <2> QED
    BY <2>3, <2>5
<1>9. dist[p] = Cost(dist, {p})
  <2>1. Cost(dist, {}) = 0 /\ dist[p] \in Int
    BY <1>2, <1>3, CostEmpty
  <2> HIDE DEF C, a, b
  <2> QED
    BY <1>7, <2>1
<1>10. isolatedNum - 2 = Cardinality(Terminal \ C)
  <2>1. IsFiniteSet(Terminal \ {a}) /\ Cardinality(Terminal \ {a}) = netSize - 1
    BY <1>2, <1>5, FS_RemoveElement
  <2>2. b \in Terminal \ {a} /\ (Terminal \ {a}) \ {b} = Terminal \ C
    BY <1>5
  <2>3. Cardinality((Terminal \ {a}) \ {b}) = netSize - 1 - 1
    BY <2>1, <2>2, FS_RemoveElement
  <2> HIDE DEF C, a, b
  <2>4. Cardinality(Terminal \ C) = netSize - 1 - 1
    BY <2>2, <2>3
  <2> QED
    BY <1>1, <1>2, <2>4
<1>11. CutQueued(Pair, C, Q')
  BY <1>4 DEF NewPairs, Across, CutQueued
<1>12. netSize' = netSize /\ Terminal' = Terminal /\ Pair' = Pair /\ dist' = dist
  BY <1>4, Frame
<1>13. Growing(Terminal, Pair, dist, C, isolatedNum - 2, {p}, dist[p], Q')
  <2> HIDE DEF C, a, b
  <2> QED
    BY <1>3, <1>7, <1>9, <1>10, <1>11 DEF Growing
<1>14. BfsInv'
  BY <1>1, <1>4, BfsSameInv
<1> HIDE DEF C, a, b
<1> QED
  BY <1>1, <1>4, <1>12, <1>13, <1>14 DEF MstInv

\* A pair with both ends on the tree does not cross the cut.
LEMMA DropPairInv == MstInv /\ DropPair => MstInv'
<1> SUFFICES ASSUME MstInv, DropPair PROVE MstInv'
  OBVIOUS
<1> DEFINE p == First(Q)
<1>1. /\ BfsInv /\ pc = "kruskal" /\ net \in Nets
      /\ start = 0 /\ ucsQ = {} /\ sorted = <<>>
      /\ Growing(Terminal, Pair, dist, connected, isolatedNum, mst, mstCost, Q)
  BY DEF MstInv, DropPair
<1>2. /\ ~Crosses(p) /\ Q' = Q \ {p}
      /\ UNCHANGED bfsVars /\ net' = net /\ dists' = dists
      /\ connected' = connected /\ isolatedNum' = isolatedNum /\ mst' = mst /\ mstCost' = mstCost
      /\ start' = start /\ ucsQ' = ucsQ /\ sorted' = sorted /\ pc' = pc
  BY DEF DropPair, bfsVars
<1> HIDE DEF p
<1>3. p[1] \in connected /\ p[2] \in connected
  BY <1>2 DEF Crosses
<1>4. ~Across(p, connected)
  BY <1>3 DEF Across
<1>5. Growing(Terminal, Pair, dist, connected, isolatedNum, mst, mstCost, Q')
  BY <1>1, <1>2, <1>4 DEF Growing, CutQueued
<1>6. netSize' = netSize /\ Terminal' = Terminal /\ Pair' = Pair /\ dist' = dist
  BY <1>2, Frame
<1>7. BfsInv'
  BY <1>1, <1>2, BfsSameInv
<1> QED
  BY <1>1, <1>2, <1>5, <1>6, <1>7 DEF MstInv

\* The top of the queue is the cheapest pair across the cut.
LEMMA ConnectPairInv == MstInv /\ ConnectPair => MstInv'
<1> SUFFICES ASSUME MstInv, ConnectPair PROVE MstInv'
  OBVIOUS
<1> DEFINE p == First(Q)
           b == IF p[1] \notin connected THEN p[1] ELSE p[2]
           D == connected \cup {p[1], p[2]}
<1>1. /\ BfsInv /\ pc = "kruskal" /\ net \in Nets
      /\ start = 0 /\ ucsQ = {} /\ sorted = <<>>
      /\ Growing(Terminal, Pair, dist, connected, isolatedNum, mst, mstCost, Q)
  BY DEF MstInv, ConnectPair
<1>2. /\ Tree(Terminal, Pair, dist, connected, mst)
      /\ mstCost = Cost(dist, mst)
      /\ \E e \in mst : \A q \in Pair : dist[e] <= dist[q]
      /\ isolatedNum = Cardinality(Terminal \ connected)
      /\ CutQueued(Pair, connected, Q) /\ Q \subseteq Pair
      /\ \A e \in Pair : Across(e, connected) => e \in Q
      /\ \A e \in Q : e[1] \in connected \/ e[2] \in connected
      /\ connected \subseteq Terminal
  BY <1>1 DEF Growing, Tree, CutQueued
<1>3. /\ IsFiniteSet(Terminal)
      /\ \A e \in Pair : dist[e] \in Int /\ dist[e] >= -1
      /\ Edges(Terminal, Pair, dist)
  BY <1>1, NetFacts
<1>4. /\ Q # {} /\ Crosses(p) /\ mst' = mst \cup {p} /\ mstCost' = mstCost + dist[p]
      /\ connected' = D /\ Q' = (Q \ {p}) \cup NewPairs(b, D)
      /\ isolatedNum' = isolatedNum - 1
      /\ UNCHANGED bfsVars /\ net' = net /\ dists' = dists
      /\ start' = start /\ ucsQ' = ucsQ /\ sorted' = sorted /\ pc' = pc
  BY DEF ConnectPair, bfsVars
<1>5. p \in Q /\ \A q \in Q : dist[p] <= dist[q]
  BY <1>2, <1>3, <1>4, FirstFacts
<1> HIDE DEF p
<1>6. p \in Pair /\ p[1] \in Terminal /\ p[2] \in Terminal
  BY <1>2, <1>3, <1>5 DEF Edges
<1>7. PICK a \in connected : {p[1], p[2]} = {a, b} /\ b \in Terminal /\ b \notin connected
  BY <1>2, <1>4, <1>5, <1>6 DEF Crosses
<1>8. D = connected \cup {b} /\ {p[1], p[2]} \subseteq connected \cup {b}
  BY <1>7
<1> HIDE DEF b, D
<1>9. Cheapest(Pair, dist, connected, p)
  BY <1>2, <1>5 DEF Cheapest
<1>10. /\ Tree(Terminal, Pair, dist, D, mst')
       /\ Cost(dist, mst') = Cost(dist, mst) + dist[p]
  <2>1. /\ Edges(Terminal, Pair, dist) /\ Tree(Terminal, Pair, dist, connected, mst)
        /\ p \in Pair /\ a \in connected /\ b \in Terminal /\ b \notin connected
        /\ {p[1], p[2]} = {a, b} /\ Cheapest(Pair, dist, connected, p)
        /\ D = connected \cup {b} /\ mst' = mst \cup {p}
    BY <1>2, <1>3, <1>4, <1>6, <1>7, <1>8, <1>9
  <2> QED
    BY ONLY <2>1, TreeGrows
<1>11. isolatedNum - 1 = Cardinality(Terminal \ D)
  <2>1. IsFiniteSet(Terminal \ connected) /\ b \in Terminal \ connected
    BY <1>3, <1>7, FS_Difference
  <2>2. Cardinality((Terminal \ connected) \ {b}) = isolatedNum - 1
    BY <1>2, <2>1, FS_RemoveElement
  <2>3. (Terminal \ connected) \ {b} = Terminal \ D
    BY <1>8
  <2> QED
    BY <2>2, <2>3
<1>12. CutQueued(Pair, D, Q')
  BY <1>1, <1>2, <1>4, <1>6, <1>7, <1>8, CutKept
<1>13. Growing(Terminal, Pair, dist, D, isolatedNum - 1, mst', mstCost + dist[p], Q')
  BY <1>2, <1>4, <1>10, <1>11, <1>12 DEF Growing
<1>14. netSize' = netSize /\ Terminal' = Terminal /\ Pair' = Pair /\ dist' = dist
  BY <1>4, Frame
<1>15. BfsInv'
  BY <1>1, <1>4, BfsSameInv
<1> QED
  BY <1>1, <1>4, <1>13, <1>14, <1>15 DEF MstInv

\* No terminal is missing, and the walk starts at the tree's cheapest pair.
LEMMA StartWalkInv == MstInv /\ StartWalk => MstInv'
<1> SUFFICES ASSUME MstInv, StartWalk PROVE MstInv'
  OBVIOUS
<1> DEFINE p == First(mst)
           s == p[1]
<1>1. /\ BfsInv /\ pc = "kruskal" /\ net \in Nets /\ sorted = <<>> /\ isolatedNum = 0
      /\ Growing(Terminal, Pair, dist, connected, isolatedNum, mst, mstCost, Q)
  BY DEF MstInv, StartWalk
<1>2. /\ IsFiniteSet(Terminal)
      /\ \A e \in Pair : dist[e] \in Int /\ dist[e] >= -1
      /\ Edges(Terminal, Pair, dist)
      /\ dist \in [Terminal \X Terminal -> Int]
  BY <1>1, NetFacts
<1>3. /\ mst \subseteq Pair /\ connected \subseteq Terminal
      /\ 0 = Cardinality(Terminal \ connected)
  BY <1>1 DEF Growing, Tree
<1>4. PICK e \in mst : \A q \in Pair : dist[e] <= dist[q]
  BY <1>1 DEF Growing
<1>5. p \in mst /\ \A q \in mst : dist[p] <= dist[q]
  <2>1. mst \in SUBSET Pair /\ mst # {}
    BY <1>3, <1>4
  <2> QED
    BY <1>2, <2>1, FirstFacts
<1>6. connected = Terminal
  <2>1. IsFiniteSet(Terminal \ connected)
    BY <1>2, FS_Difference
  <2>2. Terminal \ connected = {}
    BY <1>3, <2>1, FS_EmptySet
  <2> QED
    BY <1>3, <2>2
<1>7. /\ start' = s /\ ucsQ' = {<<0, s>>} /\ pc' = "walk"
      /\ UNCHANGED bfsVars /\ net' = net /\ dists' = dists
      /\ connected' = connected /\ isolatedNum' = isolatedNum /\ mst' = mst /\ mstCost' = mstCost
      /\ Q' = Q /\ sorted' = sorted
  BY DEF StartWalk, WalkStart, bfsVars
<1> HIDE DEF p
<1>8. CheapestAt(Terminal, Pair, dist, mst, s)
  <2>1. p \in Pair /\ s \in Terminal /\ p[2] \in Terminal /\ p = <<s, p[2]>>
    BY <1>3, <1>5 DEF Pair
  <2>2. p[2] \in NbrIn(Terminal, mst, s)
    BY <1>5, <2>1 DEF NbrIn
  <2>3. ASSUME NEW q \in Pair PROVE dist[p] <= dist[q]
    <3>1. dist[p] <= dist[e] /\ dist[e] <= dist[q]
      BY <1>4, <1>5
    <3>2. dist[p] \in Int /\ dist[e] \in Int /\ dist[q] \in Int
      BY <1>2, <1>3, <1>4, <2>1
    <3> QED
      BY <3>1, <3>2
  <2> QED
    BY <1>2, <2>1, <2>2, <2>3 DEF CheapestAt
<1>9. s \in Terminal
  BY <1>8 DEF CheapestAt
<1> HIDE DEF s
<1>10. /\ QueueRight(Terminal, dist, mst, s, ucsQ', sorted)
       /\ OrderRight(Terminal, Pair, dist, mst, s, sorted)
  BY <1>1, <1>7, <1>9, WalkStarts
<1>11. netSize' = netSize /\ Terminal' = Terminal /\ Pair' = Pair /\ dist' = dist
  BY <1>7, Frame
<1>12. BfsInv'
  BY <1>1, <1>7, BfsSameInv
<1> QED
  BY <1>1, <1>6, <1>7, <1>8, <1>10, <1>11, <1>12 DEF MstInv

\* The walk meets the terminal on top of its queue.
LEMMA VisitInv == MstInv /\ Visit => MstInv'
<1> SUFFICES ASSUME MstInv, Visit PROVE MstInv'
  OBVIOUS
<1>1. /\ BfsInv /\ pc = "walk" /\ net \in Nets /\ connected = Terminal
      /\ Growing(Terminal, Pair, dist, connected, isolatedNum, mst, mstCost, Q)
      /\ CheapestAt(Terminal, Pair, dist, mst, start)
      /\ QueueRight(Terminal, dist, mst, start, ucsQ, sorted)
      /\ OrderRight(Terminal, Pair, dist, mst, start, sorted)
  BY DEF MstInv, Visit
<1>2. Ordered(Terminal, Pair, mst) /\ Bridges(mst)
  BY <1>1, NetFacts DEF Ordered, Growing, Tree, Pair
<1>3. PICK x \in ucsQ :
        /\ IsTop(x)
        /\ sorted' = Append(sorted, x[2])
        /\ ucsQ' = (ucsQ \ {x}) \cup
                   {<<dist[<<x[2], q>>], q>> : q \in Neighbours(x[2]) \ ToSet(sorted')}
  BY DEF Visit
<1>4. /\ UNCHANGED bfsVars /\ net' = net /\ dists' = dists
      /\ connected' = connected /\ isolatedNum' = isolatedNum /\ mst' = mst /\ mstCost' = mstCost
      /\ Q' = Q /\ start' = start /\ pc' = pc
  BY DEF Visit, bfsVars
<1>5. Neighbours(x[2]) = NbrIn(Terminal, mst, x[2])
  BY DEF Neighbours, NbrIn
<1>6. ucsQ' = QueueAfter(Terminal, dist, mst, ucsQ, x, ToSet(sorted'))
  BY <1>3, <1>5 DEF QueueAfter
<1>7. \A y \in ucsQ : x[1] <= y[1]
  <2> TAKE y \in ucsQ
  <2>1. x[1] \in Int /\ y[1] \in Int
    BY <1>1 DEF QueueRight
  <2>2. x[1] < y[1] \/ x[1] = y[1]
    BY <1>3 DEF IsTop
  <2> QED
    BY <2>1, <2>2
<1>8. /\ QueueRight(Terminal, dist, mst, start, ucsQ', sorted')
      /\ OrderRight(Terminal, Pair, dist, mst, start, sorted')
  BY <1>1, <1>2, <1>3, <1>6, <1>7, WalkStep
<1>9. netSize' = netSize /\ Terminal' = Terminal /\ Pair' = Pair /\ dist' = dist
  BY <1>4, Frame
<1>10. BfsInv'
  BY <1>1, <1>4, BfsSameInv
<1> QED
  BY <1>1, <1>4, <1>8, <1>9, <1>10 DEF MstInv

\* The walk is over.
LEMMA EndWalkInv == MstInv /\ EndWalk => MstInv'
<1> SUFFICES ASSUME MstInv, EndWalk PROVE MstInv'
  OBVIOUS
<1>1. /\ pc = "walk" /\ pc' = "done" /\ ucsQ = {} /\ UNCHANGED bfsVars
      /\ net' = net /\ dists' = dists
      /\ connected' = connected /\ isolatedNum' = isolatedNum /\ mst' = mst /\ mstCost' = mstCost
      /\ Q' = Q /\ start' = start /\ ucsQ' = ucsQ /\ sorted' = sorted
  BY DEF EndWalk, bfsVars
<1>2. netSize' = netSize /\ Terminal' = Terminal /\ Pair' = Pair /\ dist' = dist
  BY <1>1, Frame
<1>3. BfsInv'
  BY <1>1, BfsSameInv DEF MstInv
<1> QED
  BY <1>1, <1>2, <1>3 DEF MstInv

\* The searches run before any task takes a net.
LEMMA CalcBfsInv == MstInv /\ CalcBfs => MstInv'
<1> SUFFICES ASSUME MstInv, CalcBfs PROVE MstInv'
  OBVIOUS
<1>1. /\ pc = "bfs" /\ pc' = pc /\ net' = net
      /\ connected' = connected /\ isolatedNum' = isolatedNum /\ mst' = mst /\ mstCost' = mstCost
      /\ Q' = Q /\ start' = start /\ ucsQ' = ucsQ /\ sorted' = sorted
  BY DEF CalcBfs, mstVars
<1>2. BfsInv'
  <2>1. BfsInv /\ (VisitNext \/ NextSource)
    BY DEF CalcBfs, BfsNext, MstInv
  <2> QED
    BY <2>1, BfsVisitInv, BfsNextSourceInv
<1> QED
  BY <1>1, <1>2 DEF MstInv

\* A task takes its net.
LEMMA TakeNetInv == MstInv /\ TakeNet => MstInv'
<1> SUFFICES ASSUME MstInv, TakeNet PROVE MstInv'
  OBVIOUS
<1>1. /\ pc = "bfs" /\ pc' = "first" /\ net' \in Nets /\ isolatedNum' = Len(net') /\ UNCHANGED bfsVars
      /\ connected' = connected /\ mst' = mst /\ mstCost' = mstCost
      /\ Q' = Q /\ start' = start /\ ucsQ' = ucsQ /\ sorted' = sorted
  BY DEF TakeNet
<1>2. BfsInv'
  BY <1>1, BfsSameInv DEF MstInv
<1>3. isolatedNum' = netSize'
  BY <1>1 DEF netSize
<1> QED
  BY <1>1, <1>2, <1>3 DEF MstInv

\* Nothing changes.
LEMMA StutterInv == MstInv /\ UNCHANGED vars => MstInv'
<1> SUFFICES ASSUME MstInv, UNCHANGED vars PROVE MstInv'
  OBVIOUS
<1>1. /\ UNCHANGED bfsVars /\ dists' = dists /\ pc' = pc /\ net' = net
      /\ connected' = connected /\ isolatedNum' = isolatedNum /\ mst' = mst /\ mstCost' = mstCost
      /\ Q' = Q /\ start' = start /\ ucsQ' = ucsQ /\ sorted' = sorted
  BY DEF vars, bfsVars, mstVars
<1>2. netSize' = netSize /\ Terminal' = Terminal /\ Pair' = Pair /\ dist' = dist
  BY <1>1, Frame
<1>3. BfsInv'
  BY <1>1, BfsSameInv DEF MstInv
<1> QED
  BY <1>1, <1>2, <1>3 DEF MstInv

\* The inductive invariant.
THEOREM Invariant == Spec => []MstInv
<1>1. Init => MstInv
  <2> SUFFICES ASSUME Init PROVE MstInv
    OBVIOUS
  <2>1. BfsInv
    BY BfsInitInv DEF Init
  <2> QED
    BY <2>1 DEF Init, MstInv
<1>2. MstInv /\ [Next]_vars => MstInv'
  <2> SUFFICES ASSUME MstInv, [Next]_vars PROVE MstInv'
    OBVIOUS
  <2>1. CASE CalcBfs
    BY <2>1, CalcBfsInv
  <2>2. CASE TakeNet
    BY <2>2, TakeNetInv
  <2>3. CASE ConnectFirst
    BY <2>3, ConnectFirstInv
  <2>4. CASE DropPair
    BY <2>4, DropPairInv
  <2>5. CASE ConnectPair
    BY <2>5, ConnectPairInv
  <2>6. CASE StartWalk
    BY <2>6, StartWalkInv
  <2>7. CASE Visit
    BY <2>7, VisitInv
  <2>8. CASE EndWalk
    BY <2>8, EndWalkInv
  <2>9. CASE Done \/ UNCHANGED vars
    BY <2>9, StutterInv DEF Done
  <2> QED
    BY <2>1, <2>2, <2>3, <2>4, <2>5, <2>6, <2>7, <2>8, <2>9 DEF Next
<1> QED
  BY <1>1, <1>2, PTL DEF Spec

-----------------------------------------------------------------------------
(* What the runs check.                                                    *)

\* Until MST starts, every distance entered is the hop count, the rows of finished
\* tasks are complete and the others untouched.
THEOREM RowsExact == Spec => []RowExact
BY Invariant, BfsInvExact, PTL DEF MstInv

\* While terminals are missing, Kruskal's queue holds all pairs across the cut, and
\* always only pairs with an end on the tree: it is never popped empty, and the
\* assertion on connected[p1]^connected[p2] cannot fail.
THEOREM QueueComplete == Spec => []CutComplete
<1>1. MstInv => CutComplete
  <2> SUFFICES ASSUME MstInv PROVE CutComplete
    OBVIOUS
  <2>1. CASE pc = "bfs"
    <3>1. /\ net = <<>> /\ isolatedNum = 0 /\ connected = {} /\ mst = {} /\ mstCost = 0
          /\ Q = {} /\ start = 0 /\ ucsQ = {} /\ sorted = <<>>
      BY <2>1 DEF MstInv
    <3>2. netSize = 0 /\ isolatedNum \in 0 .. netSize
      BY <3>1 DEF netSize
    <3>3. ToSet(sorted) = {}
      BY <3>1 DEF ToSet
    <3> QED
      BY <2>1, <3>1, <3>2, <3>3 DEF CutComplete, TypeOK
  <2>2. CASE pc = "first"
    <3>1. /\ net \in Nets /\ BfsInv /\ isolatedNum = netSize /\ connected = {} /\ mst = {}
          /\ mstCost = 0 /\ Q = {} /\ start = 0 /\ ucsQ = {} /\ sorted = <<>>
      BY <2>2 DEF MstInv
    <3>2. isolatedNum \in 0 .. netSize
      BY <3>1, NetFacts
    <3>3. ToSet(sorted) = {}
      BY <3>1 DEF ToSet
    <3> QED
      BY <2>2, <3>1, <3>2, <3>3 DEF CutComplete, TypeOK
  <2>3. CASE pc \in {"kruskal", "walk", "done"}
    <3>1. /\ BfsInv /\ net \in Nets
          /\ Growing(Terminal, Pair, dist, connected, isolatedNum, mst, mstCost, Q)
      BY <2>3 DEF MstInv
    <3>2. /\ netSize \in Nat /\ IsFiniteSet(Terminal) /\ Cardinality(Terminal) = netSize
          /\ Terminal \subseteq Nat /\ Edges(Terminal, Pair, dist)
      BY <3>1, NetFacts
    <3>3. /\ connected \subseteq Terminal /\ mst \subseteq Pair /\ mstCost = Cost(dist, mst)
          /\ isolatedNum = Cardinality(Terminal \ connected)
          /\ Q \subseteq Pair
          /\ \A p \in Pair : Across(p, connected) => p \in Q
          /\ \A p \in Q : p[1] \in connected \/ p[2] \in connected
      BY <3>1 DEF Growing, Tree, CutQueued
    <3>4. isolatedNum \in 0 .. netSize
      <4>1. Terminal \ connected \in SUBSET Terminal
        OBVIOUS
      <4>2. /\ IsFiniteSet(Terminal \ connected)
            /\ Cardinality(Terminal \ connected) <= Cardinality(Terminal)
        BY <3>2, <4>1, FS_Subset
      <4>3. Cardinality(Terminal \ connected) \in Nat
        BY <4>2, FS_CardinalityType
      <4> QED
        BY <3>2, <3>3, <4>2, <4>3
    <3>5. mstCost \in Int
      BY <3>2, <3>3, CostInt
    <3>6. /\ start \in Nat /\ \A x \in ucsQ : x[1] \in Int /\ x[2] \in Terminal
          /\ ToSet(sorted) \subseteq Terminal
      <4>1. CASE pc = "kruskal"
        <5>1. start = 0 /\ ucsQ = {} /\ sorted = <<>>
          BY <4>1 DEF MstInv
        <5>2. ToSet(sorted) = {}
          BY <5>1 DEF ToSet
        <5> QED
          BY <5>1, <5>2
      <4>2. CASE pc \in {"walk", "done"}
        <5>1. /\ CheapestAt(Terminal, Pair, dist, mst, start)
              /\ QueueRight(Terminal, dist, mst, start, ucsQ, sorted)
              /\ OrderRight(Terminal, Pair, dist, mst, start, sorted)
          BY <4>2 DEF MstInv
        <5>2. start \in Terminal
          BY <5>1 DEF CheapestAt
        <5>3. ucsQ \subseteq Int \X Terminal
          BY <5>1 DEF QueueRight
        <5>4. sorted \in Seq(Terminal)
          BY <5>1 DEF OrderRight
        <5> QED
          BY <3>2, <5>2, <5>3, <5>4, MembersOf
      <4> QED
        BY <2>3, <4>1, <4>2
    <3>7. TypeOK
      BY <2>3, <3>1, <3>3, <3>4, <3>5, <3>6 DEF TypeOK
    <3> QED
      BY <3>3, <3>7 DEF CutComplete
  <2> QED
    BY <2>1, <2>2, <2>3 DEF MstInv
<1> QED
  BY <1>1, Invariant, PTL

\* When the walk starts, the tree is a minimum spanning tree of the terminals and
\* mstCost, by which NetOrder sorts the nets, its cost.
THEOREM TreeIsMinimal == Spec => []MinimumCost
<1>1. MstInv => MinimumCost
  <2> SUFFICES ASSUME MstInv, pc = "walk", sorted = <<>>
               PROVE  /\ Spans(mst, Terminal) /\ mstCost = CostOf(mst)
                      /\ \A E \in kSubset(netSize - 1, Pair) :
                           Spans(E, Terminal) => mstCost <= CostOf(E)
    BY DEF MinimumCost
  <2>1. /\ BfsInv /\ net \in Nets /\ connected = Terminal
        /\ Growing(Terminal, Pair, dist, connected, isolatedNum, mst, mstCost, Q)
    BY DEF MstInv
  <2>2. Edges(Terminal, Pair, dist)
    BY <2>1, NetFacts
  <2>3. Tree(Terminal, Pair, dist, Terminal, mst) /\ mstCost = Cost(dist, mst)
    BY <2>1 DEF Growing
  <2>4. /\ Spans(mst, Terminal)
        /\ \A E \in SUBSET Pair : Spans(E, Terminal) => Cost(dist, mst) <= Cost(dist, E)
    BY <2>2, <2>3, TreeComplete
  <2>5. \A E : Cost(dist, E) = CostOf(E)
    BY DEF Cost, CostOf
  <2>6. \A E \in kSubset(netSize - 1, Pair) : E \in SUBSET Pair
    BY DEF kSubset
  <2> QED
    BY <2>3, <2>4, <2>5, <2>6
<1> QED
  BY <1>1, Invariant, PTL

\* The order AstarRouter is handed holds every terminal once, begins with a pair of
\* minimal distance, and every later terminal is joined to an earlier one.
THEOREM OrderComplete == Spec => []WalkCoversNet
<1>1. MstInv => WalkCoversNet
  <2> SUFFICES ASSUME MstInv, pc = "done"
               PROVE  /\ Len(sorted) = netSize
                      /\ ToSet(sorted) = Terminal
                      /\ \A p \in Pair : dist[<<sorted[1], sorted[2]>>] <= dist[p]
                      /\ \A i \in 2 .. netSize :
                           \E j \in 1 .. i - 1 : sorted[j] \in Neighbours(sorted[i])
    BY DEF WalkCoversNet
  <2>1. /\ BfsInv /\ net \in Nets /\ connected = Terminal /\ ucsQ = {}
        /\ Growing(Terminal, Pair, dist, connected, isolatedNum, mst, mstCost, Q)
        /\ CheapestAt(Terminal, Pair, dist, mst, start)
        /\ QueueRight(Terminal, dist, mst, start, ucsQ, sorted)
        /\ OrderRight(Terminal, Pair, dist, mst, start, sorted)
    BY DEF MstInv
  <2>2. /\ netSize \in Nat /\ netSize >= 2 /\ Terminal \subseteq Nat
        /\ IsFiniteSet(Terminal) /\ Cardinality(Terminal) = netSize
    BY <2>1, NetFacts
  <2>3. mst \subseteq Pair /\ Linked(mst, Terminal)
    BY <2>1 DEF Growing, Tree
  <2>4. Ordered(Terminal, Pair, mst)
    BY <2>2, <2>3 DEF Ordered, Pair
  <2>5. start \in Terminal /\ QueueRight(Terminal, dist, mst, start, {}, sorted)
    BY <2>1 DEF CheapestAt
  <2>6. ToSet(sorted) = Terminal /\ Len(sorted) = Cardinality(Terminal)
    BY <2>1, <2>3, <2>4, <2>5, WalkEnds
  <2>7. Len(sorted) = netSize /\ Len(sorted) >= 2
    BY <2>2, <2>6
  <2>8. /\ \A i \in 2 .. Len(sorted) : \E j \in 1 .. i - 1 : sorted[j] \in NbrIn(Terminal, mst, sorted[i])
        /\ \A p \in Pair : dist[<<sorted[1], sorted[2]>>] <= dist[p]
    BY <2>1, <2>7 DEF OrderRight
  <2>9. \A p : Neighbours(p) = NbrIn(Terminal, mst, p)
    BY DEF Neighbours, NbrIn
  <2> QED
    BY <2>6, <2>7, <2>8, <2>9
<1> QED
  BY <1>1, Invariant, PTL
=============================================================================
