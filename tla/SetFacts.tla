------------------------------ MODULE SetFacts ------------------------------
(***************************************************************************)
(* Facts about the operators of the community modules that several proofs  *)
(* need: that a least and a greatest element is what it says, what the sum *)
(* of a function is, what a list of lists amounts to, and the ranks of     *)
(* numbers.  They replace the induction theorems of the library, which     *)
(* take an operator as parameter.                                          *)
(***************************************************************************)
EXTENDS Lists, FiniteSetTheorems, WellFoundedInduction, TLAPS

\* A set of natural numbers that is not empty has a least element: of the intervals
\* below its members, finite sets, one has no other strictly inside.
LEMMA LeastNat ==
  ASSUME NEW S \in SUBSET Nat, S # {}
  PROVE  \E x \in S : \A y \in S : x <= y
<1> DEFINE Below(x) == 0 .. (x - 1)
           T == {Below(x) : x \in S}
           R == StrictSubsetOrdering(Nat)
<1>1. T \subseteq FiniteSubsetsOf(Nat)
  <2>1. \A x \in S : IsFiniteSet(Below(x))
    BY FS_Interval
  <2>2. \A x \in S : Below(x) \in SUBSET Nat
    OBVIOUS
  <2> HIDE DEF Below
  <2> QED
    BY <2>1, <2>2 DEF FiniteSubsetsOf
<1>2. T # {}
  OBVIOUS
<1>3. IsWellFoundedOn(R, FiniteSubsetsOf(Nat))
  BY FS_StrictSubsetOrderingWellFounded
<1>4. \E t \in T : \A u \in T : ~ (<<u, t>> \in R)
  <2> HIDE DEF T, R
  <2> QED
    BY ONLY <1>1, <1>2, <1>3, WFMin, Zenon
<1>5. PICK x \in S : \A y \in S : ~ (<<Below(y), Below(x)>> \in R)
  <2> HIDE DEF Below, R
  <2> QED BY <1>4
<1>6. ASSUME NEW y \in S, y < x
      PROVE  FALSE
  <2>1. Below(y) \in SUBSET Nat /\ Below(x) \in SUBSET Nat
    OBVIOUS
  <2>2. Below(y) \subseteq Below(x) /\ Below(y) # Below(x)
    <3>1. y \in Below(x) /\ y \notin Below(y)
      BY <1>6
    <3> QED
      BY <3>1, <1>6
  <2> HIDE DEF Below
  <2>3. <<Below(y), Below(x)>> \in R
    BY <2>1, <2>2 DEF StrictSubsetOrdering
  <2> QED
    BY <1>5, <2>3
<1> QED
  BY <1>6

\* Min chooses a least element of a set of natural numbers that is not empty.
LEMMA MinOfNats ==
  ASSUME NEW S \in SUBSET Nat, S # {}
  PROVE  Min(S) \in S /\ \A y \in S : Min(S) <= y
BY LeastNat DEF Min

\* Max chooses a greatest element of a set of numbers below a bound.
LEMMA MaxOfInterval ==
  ASSUME NEW n \in Nat, NEW S \in SUBSET (0 .. n), S # {}
  PROVE  Max(S) \in S /\ \A y \in S : y <= Max(S)
<1> DEFINE T == {m \in 0 .. n : n - m \in S}
<1>1. T \in SUBSET Nat /\ T # {}
  <2>1. PICK x \in S : TRUE
    OBVIOUS
  <2>2. n - x \in T
    BY n - (n - x) = x
  <2>3. T \in SUBSET Nat
    OBVIOUS
  <2> HIDE DEF T
  <2> QED
    BY <2>2, <2>3
<1>2. PICK m \in T : \A y \in T : m <= y
  <2> HIDE DEF T
  <2> QED BY <1>1, LeastNat
<1>3. ASSUME NEW y \in S
      PROVE  n - m >= y
  <2>1. n - y \in T
    BY n - (n - y) = y
  <2>2. m <= n - y
    BY <1>2, <2>1
  <2>3. m \in Int /\ y \in Int
    OBVIOUS
  <2> HIDE DEF T
  <2> QED
    BY <2>2, <2>3
<1>4. \E x \in S : \A y \in S : x >= y
  BY <1>3
<1> QED
  BY <1>4 DEF Max

\* The greatest of a set of indices, and what is left without it.
LEMMA MaxOfIndices ==
  ASSUME NEW n \in Nat, NEW S \in SUBSET (1 .. n), S # {}
  PROVE  /\ Max(S) \in S /\ Max(S) \in 1 .. n
         /\ \A y \in S : y <= Max(S)
         /\ n \in S => Max(S) = n
         /\ S \ {Max(S)} \in SUBSET (1 .. n - 1)
<1> DEFINE m == Max(S)
<1>1. S \in SUBSET (0 .. n)
  OBVIOUS
<1>2. m \in S /\ \A y \in S : y <= m
  BY <1>1, MaxOfInterval
<1> HIDE DEF m
<1>3. m \in 1 .. n
  BY <1>2
<1>4. n \in S => m = n
  BY <1>2, <1>3
<1>5. ASSUME NEW y \in S \ {m}
      PROVE  y \in 1 .. n - 1
  BY <1>2, <1>3
<1> QED
  BY <1>2, <1>3, <1>4, <1>5 DEF m

\* Induction over an interval, for a set instead of a predicate.
LEMMA IntervalInduction ==
  ASSUME NEW n \in Nat, NEW S, 0 \in S,
         \A m \in 0 .. n - 1 : m \in S => m + 1 \in S
  PROVE  0 .. n \subseteq S
<1> DEFINE bad == (0 .. n) \ S
<1> SUFFICES ASSUME bad # {} PROVE FALSE
  OBVIOUS
<1>1. bad \in SUBSET Nat
  OBVIOUS
<1>2. PICK m \in bad : \A y \in bad : m <= y
  <2> HIDE DEF bad
  <2> QED BY <1>1, LeastNat
<1>3. m \in 1 .. n /\ m \notin S
  OBVIOUS
<1>4. m - 1 \notin bad
  BY <1>2, <1>3
<1>5. m - 1 \in 0 .. n - 1 /\ m - 1 \in S
  BY <1>3, <1>4
<1>6. (m - 1) + 1 \in S
  BY <1>5
<1> QED
  BY <1>3, <1>6

-----------------------------------------------------------------------------
(* Division.                                                               *)

\* Quotient and remainder.
LEMMA Division ==
  ASSUME NEW a \in Nat, NEW b \in Nat \ {0}
  PROVE  /\ a \div b \in Nat /\ a % b \in 0 .. b - 1
         /\ a = b * (a \div b) + (a % b)
         /\ b * (a \div b) <= a
<1>1. a \div b \in Nat /\ a % b \in 0 .. b - 1
  OBVIOUS
<1>2. a = b * (a \div b) + (a % b)
  OBVIOUS
<1>3. b * (a \div b) <= a
  BY <1>1, <1>2
<1> QED
  BY <1>1, <1>2, <1>3

\* Two numbers with the same remainder are a divisor or more apart.
LEMMA SameSlot ==
  ASSUME NEW a \in Nat, NEW b \in Nat, NEW w \in Nat \ {0}, a < b, a % w = b % w
  PROVE  a + w <= b
<1> DEFINE q == a \div w
           r == b \div w
           x == w * q
           y == w * r
           m == a % w
<1>1. q \in Int /\ r \in Int /\ m \in Int /\ a = x + m /\ b = y + m
  BY Division
<1>2. x \in Int /\ y \in Int
  BY <1>1
<1>3. x < y
  <2> HIDE DEF x, y, m, q, r
  <2> QED
    BY <1>1, <1>2
<1>4. x + w <= y
  <2> HIDE DEF q, r, m
  <2>1. w * q < w * r
    BY <1>3
  <2> QED
    BY <1>1, <2>1
<1> HIDE DEF x, y, m, q, r
<1> QED
  BY <1>1, <1>2, <1>4

\* There is one way to divide with a remainder.
LEMMA DivisionUnique ==
  ASSUME NEW a \in Nat, NEW w \in Nat \ {0}, NEW q \in Nat, NEW r \in 0 .. w - 1, a = w * q + r
  PROVE  a \div w = q /\ a % w = r
<1> DEFINE p == a \div w
           m == a % w
           x == w * q
           y == w * p
<1>1. p \in Nat /\ m \in 0 .. w - 1 /\ a = y + m
  BY Division
<1>2. x \in Int /\ y \in Int /\ a = x + r
  <2> HIDE DEF p
  <2> QED
    BY <1>1
<1>3. ASSUME NEW c \in Nat, NEW d \in Nat, c < d PROVE w * c + w <= w * d
  <2>1. c + 1 <= d
    BY <1>3
  <2>2. w * (c + 1) <= w * d
    BY <2>1
  <2>3. w * (c + 1) = w * c + w
    OBVIOUS
  <2> QED
    BY <2>2, <2>3
<1>4. q < p => x + w <= y
  <2> HIDE DEF p
  <2> QED
    BY <1>1, <1>3
<1>5. p < q => y + w <= x
  <2> HIDE DEF p
  <2> QED
    BY <1>1, <1>3
<1> HIDE DEF x, y, m, p
<1>6. ~(q < p) /\ ~(p < q)
  BY <1>1, <1>2, <1>4, <1>5
<1>7. p = q
  BY <1>1, <1>6
<1>8. y = x
  BY <1>7 DEF x, y
<1>9. m = r
  BY <1>1, <1>2, <1>8
<1> QED
  BY <1>7, <1>9 DEF p, m

\* Numbers a divisor apart have the same remainder.
LEMMA NextRound ==
  ASSUME NEW a \in Nat, NEW w \in Nat \ {0}
  PROVE  (a + w) % w = a % w
<1> DEFINE q == a \div w
           r == (a + w) \div w
           x == w * q
           y == w * r
           m == a % w
           l == (a + w) % w
<1>1. q \in Int /\ m \in 0 .. w - 1 /\ a = x + m
  BY Division
<1>2. r \in Int /\ l \in 0 .. w - 1 /\ a + w = y + l
  <2> DEFINE z == a + w
  <2>1. z \in Nat
    OBVIOUS
  <2>2. z \div w \in Int /\ z % w \in 0 .. w - 1 /\ z = w * (z \div w) + (z % w)
    <3> HIDE DEF z
    <3> QED
      BY <2>1, Division
  <2> QED
    BY <2>2
<1>3. x \in Int /\ y \in Int
  BY <1>1, <1>2
<1>4. r = q + 1
  <2>1. ASSUME r < q + 1 PROVE FALSE
    <3>1. r <= q
      BY <1>1, <1>2, <2>1
    <3>2. y <= x
      <4> HIDE DEF q, r
      <4> QED
        BY <1>1, <1>2, <3>1
    <3> HIDE DEF x, y, m, l
    <3> QED
      BY <1>1, <1>2, <1>3, <3>2
  <2>2. ASSUME r > q + 1 PROVE FALSE
    <3>1. r >= q + 2
      BY <1>1, <1>2, <2>2
    <3>2. y >= (x + w) + w
      <4> HIDE DEF q, r
      <4> QED
        BY <1>1, <1>2, <3>1
    <3> HIDE DEF x, y, m, l
    <3> QED
      BY <1>1, <1>2, <1>3, <3>2
  <2> QED
    BY <1>1, <1>2, <2>1, <2>2
<1>5. y = x + w
  <2> HIDE DEF q, r
  <2> QED
    BY <1>1, <1>4
<1> HIDE DEF x, y, m, l
<1>6. l = m
  BY <1>1, <1>2, <1>3, <1>5
<1> QED
  BY <1>6 DEF l, m

-----------------------------------------------------------------------------
(* Folds and sums.                                                         *)

\* h takes the greatest index off first.
IsFold(h, n, base, G) == \A S \in SUBSET (1 .. n) :
  h[S] = IF S = {} THEN base ELSE G[Max(S)][h[S \ {Max(S)}]]

\* A fold from the left, which takes the greatest index off first, is a function:
\* by induction over the index the intervals reach to.
LEMMA FoldExists ==
  ASSUME NEW n \in Nat, NEW Y, NEW base \in Y, NEW G \in [1 .. n -> [Y -> Y]]
  PROVE  \E h \in [SUBSET (1 .. n) -> Y] : IsFold(h, n, base, G)
<1> DEFINE P(m) == \E h \in [SUBSET (1 .. m) -> Y] : IsFold(h, m, base, G)
           good == {m \in 0 .. n : P(m)}
<1>1. P(0)
  <2> DEFINE h == [S \in SUBSET (1 .. 0) |-> base]
  <2>1. SUBSET (1 .. 0) = {{}}
    OBVIOUS
  <2>2. h \in [SUBSET (1 .. 0) -> Y] /\ h[{}] = base
    BY <2>1
  <2> QED
    BY <2>1, <2>2 DEF IsFold
<1>2. ASSUME NEW m \in 0 .. n - 1, P(m)
      PROVE  P(m + 1)
  <2>1. PICK g \in [SUBSET (1 .. m) -> Y] : IsFold(g, m, base, G)
    BY <1>2
  <2> DEFINE h == [S \in SUBSET (1 .. m + 1) |->
                    IF m + 1 \in S THEN G[m + 1][g[S \ {m + 1}]] ELSE g[S]]
  <2>2. m \in Nat /\ m + 1 \in Nat /\ m + 1 \in 1 .. n /\ (m + 1) - 1 = m
    OBVIOUS
  <2>3. ASSUME NEW S \in SUBSET (1 .. m + 1)
        PROVE  /\ S \ {m + 1} \in SUBSET (1 .. m)
               /\ m + 1 \notin S => S \in SUBSET (1 .. m)
    OBVIOUS
  <2>4. h \in [SUBSET (1 .. m + 1) -> Y]
    BY <2>2, <2>3
  <2>5. ASSUME NEW S \in SUBSET (1 .. m + 1)
        PROVE  h[S] = IF S = {} THEN base ELSE G[Max(S)][h[S \ {Max(S)}]]
    <3>1. CASE m + 1 \in S
      <4>1. Max(S) = m + 1
        BY <2>2, <3>1, MaxOfIndices
      <4>2. h[S] = G[m + 1][g[S \ {m + 1}]]
        BY <3>1
      <4>3. h[S \ {m + 1}] = g[S \ {m + 1}]
        OBVIOUS
      <4> HIDE DEF h
      <4> QED
        BY <3>1, <4>1, <4>2, <4>3
    <3>2. CASE m + 1 \notin S /\ S # {}
      <4>1. S \in SUBSET (1 .. m)
        BY <2>3, <3>2
      <4>2. S \ {Max(S)} \in SUBSET (1 .. m) /\ m + 1 \notin S \ {Max(S)}
        BY <3>2, <4>1
      <4>3. h[S] = g[S] /\ h[S \ {Max(S)}] = g[S \ {Max(S)}]
        BY <3>2, <4>1, <4>2
      <4>4. g[S] = G[Max(S)][g[S \ {Max(S)}]]
        BY <2>1, <3>2, <4>1 DEF IsFold
      <4> QED
        BY <3>2, <4>3, <4>4
    <3>3. CASE S = {}
      <4>1. h[S] = g[S]
        BY <3>3
      <4> QED
        BY <2>1, <3>3, <4>1 DEF IsFold
    <3> QED
      BY <3>1, <3>2, <3>3
  <2> HIDE DEF h
  <2> QED
    BY <2>4, <2>5 DEF IsFold
<1>3. 0 \in good /\ \A m \in 0 .. n - 1 : m \in good => m + 1 \in good
  <2> HIDE DEF P
  <2> QED
    BY <1>1, <1>2
<1>4. n \in good
  <2> HIDE DEF good
  <2>1. 0 .. n \subseteq good
    BY <1>3, IntervalInduction, Zenon
  <2> QED
    BY <2>1
<1> QED
  BY <1>4

\* What is summed over a set of indices can be taken off in any order.
LEMMA AnyOrder ==
  ASSUME NEW n \in Nat, NEW q \in [1 .. n -> Int]
  PROVE  \E h \in [SUBSET (1 .. n) -> Int] :
           /\ h[{}] = 0
           /\ \A S \in SUBSET (1 .. n) : \A x \in S : h[S] = h[S \ {x}] + q[x]
<1>1. PICK h \in [SUBSET (1 .. n) -> Int] :
        /\ h[{}] = 0
        /\ \A S \in SUBSET (1 .. n) : S # {} => h[S] = h[S \ {Max(S)}] + q[Max(S)]
  <2> DEFINE Y == Int
             base == 0
             G == [i \in 1 .. n |-> [y \in Int |-> y + q[i]]]
  <2>1. G \in [1 .. n -> [Y -> Y]] /\ base \in Y
    OBVIOUS
  <2>2. PICK h \in [SUBSET (1 .. n) -> Y] : IsFold(h, n, base, G)
    <3> HIDE DEF G, Y, base
    <3> QED
      BY <2>1, FoldExists
  <2>3. ASSUME NEW S \in SUBSET (1 .. n), S # {}
        PROVE  h[S] = h[S \ {Max(S)}] + q[Max(S)]
    <3>1. Max(S) \in 1 .. n /\ S \ {Max(S)} \in SUBSET (1 .. n)
      BY <2>3, MaxOfIndices
    <3>2. h[S] = G[Max(S)][h[S \ {Max(S)}]]
      BY <2>2, <2>3 DEF IsFold
    <3> DEFINE c == Max(S)
    <3> HIDE DEF c
    <3>3. h[S \ {c}] \in Int /\ c \in 1 .. n /\ h[S] = G[c][h[S \ {c}]]
      BY <3>1, <3>2 DEF c
    <3>4. h[S] = h[S \ {c}] + q[c]
      BY <3>3
    <3> QED
      BY <3>4 DEF c
  <2>4. {} \in SUBSET (1 .. n)
    OBVIOUS
  <2>5. h[{}] = 0
    BY <2>2, <2>4 DEF IsFold
  <2> QED
    BY <2>3, <2>5
<1> DEFINE TakesOff(S) == \A x \in S : h[S] = h[S \ {x}] + q[x]
           good == {m \in 0 .. n : \A S \in SUBSET (1 .. m) : TakesOff(S)}
<1>2. 0 \in good
  <2>1. \A S \in SUBSET (1 .. 0) : S = {}
    OBVIOUS
  <2> QED
    BY <2>1
<1>3. ASSUME NEW m \in 0 .. n - 1, m \in good
      PROVE  m + 1 \in good
  <2>1. m + 1 \in Nat /\ m + 1 \in 0 .. n /\ (m + 1) - 1 = m /\ 1 .. m + 1 \subseteq 1 .. n
    OBVIOUS
  <2>2. ASSUME NEW S \in SUBSET (1 .. m + 1), NEW x \in S
        PROVE  h[S] = h[S \ {x}] + q[x]
    <3> DEFINE c == Max(S)
               T == S \ {c}
               U == S \ {x}
    <3>1. c \in S /\ (\A y \in S : y <= c) /\ T \in SUBSET (1 .. m)
      <4>1. S # {}
        OBVIOUS
      <4> QED
        BY <2>1, <4>1, MaxOfIndices
    <3>2. S \in SUBSET (1 .. n) /\ U \in SUBSET (1 .. n) /\ T \in SUBSET (1 .. n) /\ T \ {x} \in SUBSET (1 .. n)
      BY <2>1
    <3>3. h[S] = h[T] + q[c]
      BY <1>1, <3>2
    <3>4. CASE x = c
      BY <3>3, <3>4
    <3>5. CASE x # c
      <4>1. h[T] = h[T \ {x}] + q[x]
        BY <1>3, <3>1, <3>5
      <4>2. c \in U /\ U # {}
        BY <3>1, <3>5
      <4>3. Max(U) = c
        <5>1. Max(U) \in U /\ \A y \in U : y <= Max(U)
          <6> HIDE DEF U, c
          <6> QED
            BY <3>2, <4>2, MaxOfIndices
        <5>2. Max(U) \in Int /\ c \in Int /\ Max(U) <= c /\ c <= Max(U)
          <6>1. Max(U) \in S /\ S \subseteq Int
            BY <5>1
          <6> HIDE DEF U, c
          <6>2. Max(U) \in Int /\ c \in Int
            BY <3>1, <6>1
          <6>3. Max(U) <= c
            BY <3>1, <6>1
          <6>4. c <= Max(U)
            BY <4>2, <5>1
          <6> QED
            BY <6>2, <6>3, <6>4
        <5> HIDE DEF U, c
        <5> QED
          BY <5>2
      <4>4. h[U] = h[U \ {c}] + q[c]
        <5> HIDE DEF U, c
        <5> QED
          BY <1>1, <3>2, <4>2, <4>3
      <4>5. U \ {c} = T \ {x}
        OBVIOUS
      <4>6. h[T \ {x}] \in Int /\ q[x] \in Int /\ q[c] \in Int
        BY <3>1, <3>2
      <4> HIDE DEF U, T, c
      <4>7. h[S] = (h[T \ {x}] + q[x]) + q[c] /\ h[U] = h[T \ {x}] + q[c]
        BY <3>3, <4>1, <4>4, <4>5
      <4>8. h[S] = h[U] + q[x]
        BY <4>6, <4>7
      <4> QED
        BY <4>8 DEF U
    <3> QED
      BY <3>4, <3>5
  <2> QED
    BY <2>1, <2>2
<1>4. n \in good
  <2> HIDE DEF good
  <2>1. 0 .. n \subseteq good
    BY <1>2, <1>3, IntervalInduction, Zenon
  <2> QED
    BY <2>1
<1> QED
  BY <1>1, <1>4

\* h sums f over the subsets of its domain.
SumsUp(h, D, f) == /\ h \in [SUBSET D -> Int]
                   /\ SumFunction(f) = h[D]
                   /\ h[{}] = 0
                   /\ \A T \in SUBSET D : \A x \in T : h[T] = h[T \ {x}] + f[x]

\* What SumFunction computes: a sum over the subsets of the domain in which any
\* member can be taken off.
LEMMA SumOverSet ==
  ASSUME NEW D, IsFiniteSet(D), NEW f \in [D -> Int]
  PROVE  \E h : SumsUp(h, D, f)
<1> DEFINE n == Cardinality(D)
           Next(g) == [T \in SUBSET D |->
                         IF T = {} THEN 0 ELSE LET x == CHOOSE y \in T : TRUE IN f[x] + g[T \ {x}]]
           fold == CHOOSE g : g = Next(g)
<1>1. n \in Nat /\ ExistsBijection(1 .. n, D)
  BY FS_CardinalityType
<1>2. PICK b \in Bijection(1 .. n, D) : TRUE
  BY <1>1 DEF ExistsBijection
<1>3. /\ b \in [1 .. n -> D] /\ \A i, j \in 1 .. n : b[i] = b[j] => i = j
      /\ \A x \in D : \E i \in 1 .. n : b[i] = x
  BY DEF Bijection, Injection, Surjection, IsInjective
<1> DEFINE q == [i \in 1 .. n |-> f[b[i]]]
           pre(T) == {i \in 1 .. n : b[i] \in T}
<1>4. PICK g \in [SUBSET (1 .. n) -> Int] :
        /\ g[{}] = 0
        /\ \A S \in SUBSET (1 .. n) : \A x \in S : g[S] = g[S \ {x}] + q[x]
  <2>1. q \in [1 .. n -> Int]
    BY <1>3
  <2> HIDE DEF q, n
  <2> QED
    BY <1>1, <2>1, AnyOrder
<1> DEFINE h == [T \in SUBSET D |-> g[pre(T)]]
<1>5. h \in [SUBSET D -> Int] /\ h[{}] = 0
  <2>1. pre({}) = {} /\ \A T \in SUBSET D : pre(T) \in SUBSET (1 .. n)
    OBVIOUS
  <2> HIDE DEF pre
  <2> QED
    BY <1>4, <2>1
<1>6. ASSUME NEW T \in SUBSET D, NEW x \in T
      PROVE  h[T] = h[T \ {x}] + f[x]
  <2>1. PICK i \in 1 .. n : b[i] = x
    BY <1>3
  <2>2. pre(T) \in SUBSET (1 .. n) /\ i \in pre(T)
    BY <2>1
  <2>3. pre(T \ {x}) = pre(T) \ {i}
    BY <1>3, <2>1
  <2>4. q[i] = f[x]
    BY <2>1
  <2> HIDE DEF pre, q
  <2>5. g[pre(T)] = g[pre(T) \ {i}] + f[x]
    BY <1>4, <2>2, <2>4
  <2> QED
    BY <2>3, <2>5
<1>7. SumFunction(f) = fold[D]
  <2>1. DOMAIN f = D
    OBVIOUS
  <2> QED
    BY <2>1, Zenon DEF SumFunction, SumFunctionOnSet, FoldFunctionOnSet, MapThenFoldSet
<1> HIDE DEF n, q, pre, h
<1>8. ASSUME NEW T \in SUBSET D, T # {}
      PROVE  LET x == CHOOSE y \in T : TRUE
             IN  x \in T /\ T \ {x} \in SUBSET D /\ f[x] \in Int
  BY <1>8
<1>9. h = Next(h)
  <2>1. ASSUME NEW T \in SUBSET D
        PROVE  h[T] = IF T = {} THEN 0 ELSE LET x == CHOOSE y \in T : TRUE IN f[x] + h[T \ {x}]
    <3>1. CASE T = {}
      BY <1>5, <3>1
    <3>2. CASE T # {}
      <4> DEFINE x == CHOOSE y \in T : TRUE
      <4>1. x \in T /\ T \ {x} \in SUBSET D /\ f[x] \in Int
        BY <1>8, <3>2
      <4> HIDE DEF x
      <4>2. h[T] = h[T \ {x}] + f[x] /\ h[T \ {x}] \in Int
        BY <1>5, <1>6, <4>1
      <4>3. h[T] = f[x] + h[T \ {x}]
        BY <4>1, <4>2
      <4> QED
        BY <3>2, <4>3 DEF x
    <3> QED
      BY <3>1, <3>2
  <2>2. h = [T \in SUBSET D |-> h[T]]
    BY <1>5
  <2> QED
    BY <2>1, <2>2
<1>10. fold = Next(fold)
  <2> HIDE DEF Next
  <2> QED
    BY <1>9
<1> HIDE DEF fold
<1> DEFINE good == {m \in 0 .. n : \A T \in SUBSET D : Cardinality(T) = m => fold[T] = h[T]}
<1>11. 0 \in good
  <2>1. \A T \in SUBSET D : Cardinality(T) = 0 => T = {}
    BY FS_Subset, FS_EmptySet
  <2>2. fold[{}] = 0
    BY <1>10
  <2>3. 0 \in 0 .. n
    BY <1>1
  <2>4. ASSUME NEW T \in SUBSET D, Cardinality(T) = 0 PROVE fold[T] = h[T]
    BY <1>5, <2>1, <2>2, <2>4
  <2> HIDE DEF Next
  <2> QED
    BY <2>3, <2>4
<1>12. ASSUME NEW m \in 0 .. n - 1, m \in good
       PROVE  m + 1 \in good
  <2>0. m + 1 \in 0 .. n /\ m \in Nat /\ \A T \in SUBSET D : Cardinality(T) = m => fold[T] = h[T]
    BY <1>1, <1>12
  <2> SUFFICES ASSUME NEW T \in SUBSET D, Cardinality(T) = m + 1 PROVE fold[T] = h[T]
    BY <2>0
  <2> HIDE DEF good
  <2> DEFINE x == CHOOSE y \in T : TRUE
  <2>1. IsFiniteSet(T) /\ T # {}
    BY <2>0, FS_Subset, FS_EmptySet
  <2>2. x \in T /\ T \ {x} \in SUBSET D /\ f[x] \in Int
    BY <1>8, <2>1
  <2>3. fold[T] = f[x] + fold[T \ {x}]
    BY <1>10, <2>1
  <2> HIDE DEF x, Next
  <2>4. Cardinality(T \ {x}) = m
    <3>1. Cardinality(T \ {x}) = Cardinality(T) - 1
      BY <2>1, <2>2, FS_RemoveElement
    <3> QED
      BY <2>0, <3>1
  <2>5. fold[T \ {x}] = h[T \ {x}]
    BY <2>0, <2>2, <2>4
  <2>6. h[T] = h[T \ {x}] + f[x] /\ h[T \ {x}] \in Int
    BY <1>5, <1>6, <2>2
  <2> QED
    BY <2>2, <2>3, <2>5, <2>6
<1>13. fold[D] = h[D]
  <2>1. n \in good
    <3> HIDE DEF good
    <3>1. 0 .. n \subseteq good
      BY <1>1, <1>11, <1>12, IntervalInduction, Zenon
    <3> QED
      BY <1>1, <3>1
  <2> QED
    BY <2>1 DEF n
<1>14. SumsUp(h, D, f)
  <2>1. \A T \in SUBSET D : \A x \in T : h[T] = h[T \ {x}] + f[x]
    BY <1>6
  <2>2. SumFunction(f) = h[D]
    BY <1>7, <1>13
  <2> QED
    BY ONLY <1>5, <2>1, <2>2, Zenon DEF SumsUp
<1> QED
  BY ONLY <1>14, Zenon

\* A sum over a list grows by one element after the other.
LEMMA PartialSums ==
  ASSUME NEW n \in Nat, NEW q \in [1 .. n -> Int]
  PROVE  \E A \in [0 .. n -> Int] :
           A[0] = 0 /\ A[n] = SumFunction(q) /\ \A k \in 1 .. n : A[k] = A[k - 1] + q[k]
<1>1. PICK h \in [SUBSET (1 .. n) -> Int] :
        /\ SumFunction(q) = h[1 .. n]
        /\ h[{}] = 0
        /\ \A S \in SUBSET (1 .. n) : \A x \in S : h[S] = h[S \ {x}] + q[x]
  <2> DEFINE D == 1 .. n
  <2>1. IsFiniteSet(D) /\ q \in [D -> Int]
    BY FS_Interval
  <2> HIDE DEF D
  <2>2. PICK h : SumsUp(h, D, q)
    BY <2>1, SumOverSet
  <2> QED
    BY <2>2 DEF D, SumsUp
<1> DEFINE A == [k \in 0 .. n |-> h[1 .. k]]
<1>2. A \in [0 .. n -> Int]
  <2>1. \A k \in 0 .. n : 1 .. k \in SUBSET (1 .. n)
    OBVIOUS
  <2> QED
    BY <2>1
<1>3. A[0] = 0
  <2>1. 1 .. 0 = {}
    OBVIOUS
  <2> QED
    BY <1>1, <2>1
<1>4. A[n] = SumFunction(q)
  BY <1>1
<1>5. ASSUME NEW k \in 1 .. n
      PROVE  A[k] = A[k - 1] + q[k]
  <2> DEFINE S == 1 .. k
  <2>1. S \in SUBSET (1 .. n) /\ k \in S
    OBVIOUS
  <2>2. S \ {k} = 1 .. k - 1
    OBVIOUS
  <2>3. h[S] = h[S \ {k}] + q[k]
    BY <1>1, <2>1
  <2>4. A[k] = h[S] /\ A[k - 1] = h[1 .. k - 1]
    OBVIOUS
  <2> HIDE DEF A, S
  <2> QED
    BY <2>2, <2>3, <2>4
<1> HIDE DEF A
<1> QED
  BY <1>2, <1>3, <1>4, <1>5

\* What grows by one element after the other is the sum.
LEMMA SumUnique ==
  ASSUME NEW n \in Nat, NEW q \in [1 .. n -> Int], NEW B,
         B[0] = 0, \A k \in 1 .. n : B[k] = B[k - 1] + q[k]
  PROVE  B[n] = SumFunction(q)
<1>1. PICK A \in [0 .. n -> Int] :
        A[0] = 0 /\ A[n] = SumFunction(q) /\ \A k \in 1 .. n : A[k] = A[k - 1] + q[k]
  BY PartialSums
<1> DEFINE good == {k \in 0 .. n : B[k] = A[k]}
<1>2. 0 \in good
  BY <1>1
<1>3. ASSUME NEW k \in 0 .. n - 1, k \in good
      PROVE  k + 1 \in good
  <2>1. k + 1 \in 1 .. n /\ k + 1 \in 0 .. n /\ (k + 1) - 1 = k
    OBVIOUS
  <2>2. B[k + 1] = B[k] + q[k + 1] /\ A[k + 1] = A[k] + q[k + 1] /\ B[k] = A[k]
    BY <1>1, <1>3, <2>1
  <2> QED
    BY <2>1, <2>2
<1>4. n \in good
  <2> HIDE DEF good
  <2>1. 0 .. n \subseteq good
    BY <1>2, <1>3, IntervalInduction, Zenon
  <2> QED
    BY <2>1
<1> QED
  BY <1>1, <1>4

\* The sum over a set is the sum over a list of its members, in any order.
LEMMA SumEnumerated ==
  ASSUME NEW D, NEW f \in [D -> Int], NEW n \in Nat, NEW p \in Bijection(1 .. n, D),
         NEW q, q = [i \in 1 .. n |-> f[p[i]]]
  PROVE  SumFunction(q) = SumFunction(f)
<1>1. /\ p \in [1 .. n -> D] /\ \A i, j \in 1 .. n : p[i] = p[j] => i = j
      /\ \A x \in D : \E i \in 1 .. n : p[i] = x
  BY DEF Bijection, Injection, Surjection, IsInjective
<1>2. IsFiniteSet(D)
  <2>1. p \in Surjection(1 .. n, D) /\ IsFiniteSet(1 .. n)
    BY FS_Interval DEF Bijection
  <2> QED
    BY <2>1, FS_Surjection
<1>3. PICK h : SumsUp(h, D, f)
  BY <1>2, SumOverSet
<1> DEFINE image(k) == {p[i] : i \in 1 .. k}
           B == [k \in 0 .. n |-> h[image(k)]]
<1>4. q \in [1 .. n -> Int]
  BY <1>1
<1>5. B[0] = 0
  <2>1. image(0) = {}
    OBVIOUS
  <2>2. 0 \in 0 .. n
    OBVIOUS
  <2> HIDE DEF image
  <2> QED
    BY <1>3, <2>1, <2>2 DEF SumsUp
<1>6. ASSUME NEW k \in 1 .. n PROVE B[k] = B[k - 1] + q[k]
  <2>1. image(k) \in SUBSET D /\ p[k] \in image(k)
    BY <1>1
  <2>2. image(k) \ {p[k]} = image(k - 1)
    <3>1. ASSUME NEW i \in 1 .. k - 1 PROVE i \in 1 .. k /\ p[i] # p[k]
      BY <1>1
    <3>2. ASSUME NEW i \in 1 .. k PROVE i \in 1 .. k - 1 \/ i = k
      OBVIOUS
    <3> QED
      BY <3>1, <3>2
  <2>3. k \in 0 .. n /\ k - 1 \in 0 .. n
    OBVIOUS
  <2> DEFINE S == image(k)
             x == p[k]
  <2>4. h[S] = h[S \ {x}] + f[x]
    <3>1. S \in SUBSET D /\ x \in S
      BY <2>1
    <3> HIDE DEF S, x
    <3> QED
      BY <1>3, <3>1 DEF SumsUp
  <2>5. q[k] = f[x]
    OBVIOUS
  <2> HIDE DEF image
  <2> QED
    BY <2>2, <2>3, <2>4, <2>5
<1>7. B[n] = SumFunction(q)
  <2> HIDE DEF B
  <2> QED
    BY <1>4, <1>5, <1>6, SumUnique
<1>8. image(n) = D
  BY <1>1
<1>9. n \in 0 .. n
  OBVIOUS
<1> HIDE DEF image
<1> QED
  BY <1>3, <1>7, <1>8, <1>9 DEF SumsUp

\* Sums do not depend on the order of the elements.
LEMMA SumPermuted ==
  ASSUME NEW n \in Nat, NEW q \in [1 .. n -> Int], NEW p \in Injection(1 .. n, 1 .. n)
  PROVE  SumFunction([i \in 1 .. n |-> q[p[i]]]) = SumFunction(q)
<1>1. IsFiniteSet(1 .. n)
  BY FS_Interval
<1>2. p \in Bijection(1 .. n, 1 .. n)
  BY <1>1, FS_Injection DEF Bijection
<1> DEFINE D == 1 .. n
           r == [i \in 1 .. n |-> q[p[i]]]
<1>3. q \in [D -> Int] /\ p \in Bijection(1 .. n, D) /\ r = [i \in 1 .. n |-> q[p[i]]]
  BY <1>2
<1>4. SumFunction(r) = SumFunction(q)
  <2> HIDE DEF D, r
  <2> QED
    BY ONLY <1>3, n \in Nat, SumEnumerated
<1> QED
  BY <1>4

\* A sum over some places of a list is at most the sum over all, if nothing is negative.
LEMMA SumEmbedded ==
  ASSUME NEW n \in Nat, NEW f \in [1 .. n -> Nat], NEW m \in Nat, NEW p \in Injection(1 .. m, 1 .. n),
         NEW q, q = [i \in 1 .. m |-> f[p[i]]]
  PROVE  SumFunction(q) <= SumFunction(f)
<1> DEFINE D == 1 .. n
           image(k) == {p[i] : i \in 1 .. k}
           T == image(m)
<1>1. p \in [1 .. m -> D] /\ \A i, j \in 1 .. m : p[i] = p[j] => i = j
  BY DEF Injection, IsInjective
<1>2. IsFiniteSet(D) /\ f \in [D -> Int]
  BY FS_Interval
<1>3. PICK h : SumsUp(h, D, f)
  <2> HIDE DEF D
  <2> QED
    BY <1>2, SumOverSet
<1>4. h[T] = SumFunction(q)
  <2> DEFINE B == [k \in 0 .. m |-> h[image(k)]]
  <2>1. q \in [1 .. m -> Int]
    BY <1>1
  <2>2. B[0] = 0
    <3>1. image(0) = {} /\ 0 \in 0 .. m
      OBVIOUS
    <3> HIDE DEF image
    <3> QED
      BY <1>3, <3>1 DEF SumsUp
  <2>3. ASSUME NEW k \in 1 .. m PROVE B[k] = B[k - 1] + q[k]
    <3> DEFINE S == image(k)
               x == p[k]
    <3>1. S \in SUBSET D /\ x \in S /\ q[k] = f[x]
      BY <1>1
    <3>2. S \ {x} = image(k - 1)
      <4>1. ASSUME NEW i \in 1 .. k - 1 PROVE i \in 1 .. k /\ p[i] # p[k]
        BY <1>1
      <4>2. ASSUME NEW i \in 1 .. k PROVE i \in 1 .. k - 1 \/ i = k
        OBVIOUS
      <4> QED
        BY <4>1, <4>2
    <3>3. h[S] = h[S \ {x}] + f[x]
      <4> HIDE DEF S, x, D
      <4> QED
        BY <1>3, <3>1 DEF SumsUp
    <3>4. k \in 0 .. m /\ k - 1 \in 0 .. m
      OBVIOUS
    <3> HIDE DEF image, x
    <3> QED
      BY <3>1, <3>2, <3>3, <3>4
  <2>4. B[m] = SumFunction(q)
    <3> HIDE DEF B
    <3> QED
      BY <2>1, <2>2, <2>3, SumUnique
  <2>5. m \in 0 .. m
    OBVIOUS
  <2> HIDE DEF image
  <2> QED
    BY <2>4, <2>5
<1>5. T \in SUBSET D
  BY <1>1
<1> HIDE DEF T
<1> DEFINE good == {k \in 0 .. n : h[T] <= h[T \cup 1 .. k]}
<1>6. \A S \in SUBSET D : h[S] \in Int
  <2> HIDE DEF D
  <2> QED
    BY <1>3 DEF SumsUp
<1>7. 0 \in good
  <2>1. T \cup 1 .. 0 = T
    OBVIOUS
  <2> QED
    BY <1>5, <1>6, <2>1
<1>8. ASSUME NEW k \in 0 .. n - 1, k \in good PROVE k + 1 \in good
  <2> DEFINE S == T \cup 1 .. k
             R == T \cup 1 .. k + 1
  <2>1. S \in SUBSET D /\ R \in SUBSET D /\ k + 1 \in R /\ k + 1 \in 0 .. n /\ f[k + 1] \in Nat
    BY <1>5
  <2>2. 1 .. k + 1 = (1 .. k) \cup {k + 1} /\ k + 1 \notin 1 .. k
    OBVIOUS
  <2>3. CASE k + 1 \in T
    <3>1. R = S
      BY <2>2, <2>3
    <3> QED
      BY <1>8, <2>1, <3>1
  <2>4. CASE k + 1 \notin T
    <3>1. R \ {k + 1} = S
      BY <2>2, <2>4
    <3>2. h[R] = h[R \ {k + 1}] + f[k + 1]
      <4> HIDE DEF D, R
      <4> QED
        BY <1>3, <2>1 DEF SumsUp
    <3>3. h[T] <= h[S] /\ h[T] \in Int /\ h[S] \in Int
      BY <1>5, <1>6, <1>8, <2>1
    <3>4. h[T] <= h[R]
      <4> DEFINE a == h[T]
                 b == h[S]
                 c == f[k + 1]
      <4>1. a \in Int /\ b \in Int /\ c \in Nat /\ a <= b /\ h[R] = b + c
        BY <2>1, <3>1, <3>2, <3>3
      <4> HIDE DEF a, b, c
      <4>2. a <= h[R]
        BY <4>1
      <4> QED
        BY <4>2 DEF a
    <3> QED
      BY <2>1, <3>4
  <2> QED
    BY <2>3, <2>4
<1>9. n \in good
  <2> HIDE DEF good
  <2>1. 0 .. n \subseteq good
    BY <1>7, <1>8, IntervalInduction, Zenon
  <2> QED
    BY <2>1
<1>10. h[T] <= h[D]
  <2>1. T \cup 1 .. n = D
    BY <1>5
  <2> QED
    BY <1>9, <2>1
<1> QED
  BY <1>3, <1>4, <1>10 DEF SumsUp

\* Sums compare as their elements do, scaled or not.
LEMMA SumScaled ==
  ASSUME NEW n \in Nat, NEW r \in [1 .. n -> Int], NEW q \in [1 .. n -> Int],
         NEW c \in Int, NEW d \in Int, \A i \in 1 .. n : c * r[i] <= d * q[i]
  PROVE  c * SumFunction(r) <= d * SumFunction(q)
<1>1. PICK A \in [0 .. n -> Int] :
        A[0] = 0 /\ A[n] = SumFunction(r) /\ \A k \in 1 .. n : A[k] = A[k - 1] + r[k]
  BY PartialSums
<1>2. PICK B \in [0 .. n -> Int] :
        B[0] = 0 /\ B[n] = SumFunction(q) /\ \A k \in 1 .. n : B[k] = B[k - 1] + q[k]
  BY PartialSums
<1> DEFINE good == {k \in 0 .. n : c * A[k] <= d * B[k]}
<1>3. 0 \in good
  <2>1. c * 0 = 0 /\ d * 0 = 0
    OBVIOUS
  <2> QED
    BY <1>1, <1>2, <2>1
<1>4. ASSUME NEW k \in 0 .. n - 1, k \in good
      PROVE  k + 1 \in good
  <2>1. k + 1 \in 1 .. n /\ k + 1 \in 0 .. n /\ (k + 1) - 1 = k /\ k \in 0 .. n
    OBVIOUS
  <2>2. A[k + 1] = A[k] + r[k + 1] /\ B[k + 1] = B[k] + q[k + 1]
    BY <1>1, <1>2, <2>1
  <2>3. c * (A[k] + r[k + 1]) = c * A[k] + c * r[k + 1] /\ d * (B[k] + q[k + 1]) = d * B[k] + d * q[k + 1]
    BY <2>1
  <2>4. c * r[k + 1] <= d * q[k + 1] /\ c * A[k] <= d * B[k]
    BY <1>4, <2>1
  <2>5. c * A[k + 1] <= d * B[k + 1]
    <3> DEFINE ca == c * A[k]
               cr == c * r[k + 1]
               db == d * B[k]
               dq == d * q[k + 1]
    <3>1. A[k] \in Int /\ B[k] \in Int /\ r[k + 1] \in Int /\ q[k + 1] \in Int
      BY <2>1
    <3>2. \A x, y \in Int : x * y \in Int
      OBVIOUS
    <3>3. ca \in Int /\ cr \in Int /\ db \in Int /\ dq \in Int
      BY <3>1, <3>2
    <3>4. cr <= dq /\ ca <= db
      BY <2>4
    <3>5. c * A[k + 1] = ca + cr /\ d * B[k + 1] = db + dq
      BY <2>2, <2>3
    <3> HIDE DEF ca, cr, db, dq
    <3> QED
      BY <3>3, <3>4, <3>5
  <2> QED
    BY <2>1, <2>5
<1>5. n \in good
  <2> HIDE DEF good
  <2>1. 0 .. n \subseteq good
    BY <1>3, <1>4, IntervalInduction, Zenon
  <2> QED
    BY <2>1
<1> QED
  BY <1>1, <1>2, <1>5

\* A sum lies between as many times the least and the greatest value of an element.
LEMMA SumBetween ==
  ASSUME NEW n \in Nat, NEW q \in [1 .. n -> Int], NEW lo \in Int, NEW hi \in Int,
         \A i \in 1 .. n : lo <= q[i] /\ q[i] <= hi
  PROVE  SumFunction(q) \in Int /\ lo * n <= SumFunction(q) /\ SumFunction(q) <= hi * n
<1>1. PICK A \in [0 .. n -> Int] :
        A[0] = 0 /\ A[n] = SumFunction(q) /\ \A k \in 1 .. n : A[k] = A[k - 1] + q[k]
  BY PartialSums
<1> DEFINE good == {k \in 0 .. n : lo * k <= A[k] /\ A[k] <= hi * k}
<1>2. 0 \in good
  <2>1. lo * 0 = 0 /\ hi * 0 = 0
    OBVIOUS
  <2> QED
    BY <1>1, <2>1
<1>3. ASSUME NEW k \in 0 .. n - 1, k \in good
      PROVE  k + 1 \in good
  <2>1. k + 1 \in 1 .. n /\ k + 1 \in 0 .. n /\ (k + 1) - 1 = k /\ k \in 0 .. n
    OBVIOUS
  <2>2. A[k + 1] = A[k] + q[k + 1] /\ A[k] \in Int /\ q[k + 1] \in Int
    BY <1>1, <2>1
  <2>3. lo * (k + 1) = lo * k + lo /\ hi * (k + 1) = hi * k + hi /\ lo * k \in Int /\ hi * k \in Int
    OBVIOUS
  <2>4. lo <= q[k + 1] /\ q[k + 1] <= hi /\ lo * k <= A[k] /\ A[k] <= hi * k
    BY <1>3, <2>1
  <2>5. lo * (k + 1) <= A[k + 1] /\ A[k + 1] <= hi * (k + 1)
    <3>1. PICK l, h, l1, h1, a, a1, x : /\ l = lo * k /\ h = hi * k
                                        /\ l1 = lo * (k + 1) /\ h1 = hi * (k + 1)
                                        /\ a = A[k] /\ a1 = A[k + 1] /\ x = q[k + 1]
      OBVIOUS
    <3>2. l \in Int /\ h \in Int /\ l1 = l + lo /\ h1 = h + hi
      BY ONLY <2>3, <3>1
    <3>3. a \in Int /\ x \in Int /\ a1 = a + x
      BY ONLY <2>2, <3>1
    <3>4. lo <= x /\ x <= hi /\ l <= a /\ a <= h
      BY ONLY <2>4, <3>1
    <3>5. lo \in Int /\ hi \in Int
      OBVIOUS
    <3>6. l1 <= a1 /\ a1 <= h1
      BY ONLY <3>2, <3>3, <3>4, <3>5
    <3> QED
      BY ONLY <3>1, <3>6
  <2> QED
    BY <2>1, <2>5
<1>4. n \in good
  <2> HIDE DEF good
  <2>1. 0 .. n \subseteq good
    BY <1>2, <1>3, IntervalInduction, Zenon
  <2> QED
    BY <2>1
<1> QED
  BY <1>1, <1>4

\* The same change of the first m elements changes the sum m times.
LEMMA SumShifted ==
  ASSUME NEW n \in Nat, NEW r \in [1 .. n -> Int], NEW q \in [1 .. n -> Int],
         NEW m \in 0 .. n, NEW d \in Int,
         \A i \in 1 .. n : r[i] = IF i <= m THEN q[i] + d ELSE q[i]
  PROVE  SumFunction(r) = SumFunction(q) + m * d
<1>1. PICK A \in [0 .. n -> Int] :
        A[0] = 0 /\ A[n] = SumFunction(r) /\ \A k \in 1 .. n : A[k] = A[k - 1] + r[k]
  BY PartialSums
<1>2. PICK B \in [0 .. n -> Int] :
        B[0] = 0 /\ B[n] = SumFunction(q) /\ \A k \in 1 .. n : B[k] = B[k - 1] + q[k]
  BY PartialSums
<1> DEFINE good == {k \in 0 .. n : A[k] = B[k] + (IF k <= m THEN k ELSE m) * d}
<1>3. 0 \in good
  <2>1. 0 * d = 0
    OBVIOUS
  <2> QED
    BY <1>1, <1>2, <2>1
<1>4. ASSUME NEW k \in 0 .. n - 1, k \in good
      PROVE  k + 1 \in good
  <2>1. k + 1 \in 1 .. n /\ k + 1 \in 0 .. n /\ (k + 1) - 1 = k /\ k \in 0 .. n
    OBVIOUS
  <2>2. A[k + 1] = A[k] + r[k + 1] /\ B[k + 1] = B[k] + q[k + 1]
    BY <1>1, <1>2, <2>1
  <2>3. (k + 1) * d = k * d + d /\ k * d \in Int /\ m * d \in Int
    OBVIOUS
  <2>4. CASE k + 1 <= m
    <3>1. r[k + 1] = q[k + 1] + d /\ A[k] = B[k] + k * d
      BY <1>4, <2>1, <2>4
    <3>2. A[k + 1] = B[k + 1] + (k + 1) * d
      BY <2>1, <2>2, <2>3, <3>1
    <3> QED
      BY <2>1, <2>4, <3>2
  <2>5. CASE ~ (k + 1 <= m)
    <3>1. k <= m => k = m
      BY <2>5
    <3>2. r[k + 1] = q[k + 1] /\ A[k] = B[k] + m * d
      BY <1>4, <2>1, <2>5, <3>1
    <3>3. A[k + 1] = B[k + 1] + m * d
      BY <2>1, <2>2, <2>3, <3>2
    <3> QED
      BY <2>1, <2>5, <3>3
  <2> QED
    BY <2>4, <2>5
<1>5. n \in good
  <2> HIDE DEF good
  <2>1. 0 .. n \subseteq good
    BY <1>3, <1>4, IntervalInduction, Zenon
  <2> QED
    BY <2>1
<1>6. A[n] = B[n] + m * d
  <2>1. n <= m => n = m
    OBVIOUS
  <2> QED
    BY <1>5, <2>1
<1> QED
  BY <1>1, <1>2, <1>6

\* A sum of natural numbers is one, no less than any of them, and 0 if all are.
LEMMA SumOfNats ==
  ASSUME NEW n \in Nat, NEW q \in [1 .. n -> Nat]
  PROVE  /\ SumFunction(q) \in Nat
         /\ \A i \in 1 .. n : q[i] <= SumFunction(q)
         /\ (\A i \in 1 .. n : q[i] = 0) => SumFunction(q) = 0
<1>1. PICK A \in [0 .. n -> Int] :
        A[0] = 0 /\ A[n] = SumFunction(q) /\ \A k \in 1 .. n : A[k] = A[k - 1] + q[k]
  <2>1. q \in [1 .. n -> Int]
    OBVIOUS
  <2> QED
    BY <2>1, PartialSums
<1> DEFINE good == {k \in 0 .. n : A[k] \in Nat /\ \A i \in 1 .. k : q[i] <= A[k]}
<1>2. 0 \in good
  BY <1>1
<1>3. ASSUME NEW k \in 0 .. n - 1, k \in good
      PROVE  k + 1 \in good
  <2>1. k + 1 \in 1 .. n /\ k + 1 \in 0 .. n /\ (k + 1) - 1 = k
    OBVIOUS
  <2>2. A[k + 1] = A[k] + q[k + 1] /\ A[k] \in Nat /\ q[k + 1] \in Nat
    BY <1>1, <1>3, <2>1
  <2>3. A[k + 1] \in Nat /\ A[k] <= A[k + 1] /\ q[k + 1] <= A[k + 1]
    BY <2>2
  <2>4. ASSUME NEW i \in 1 .. k + 1 PROVE q[i] <= A[k + 1]
    <3>1. CASE i = k + 1
      BY <2>3, <3>1
    <3>2. CASE i # k + 1
      <4>1. i \in 1 .. k /\ i \in 1 .. n
        BY <3>2
      <4>2. q[i] <= A[k] /\ q[i] \in Nat
        BY <1>3, <4>1
      <4> QED
        BY <2>2, <2>3, <4>2
    <3> QED
      BY <3>1, <3>2
  <2> QED
    BY <2>1, <2>3, <2>4
<1>4. n \in good
  <2> HIDE DEF good
  <2>1. 0 .. n \subseteq good
    BY <1>2, <1>3, IntervalInduction, Zenon
  <2> QED
    BY <2>1
<1>5. ASSUME \A i \in 1 .. n : q[i] = 0 PROVE SumFunction(q) = 0
  <2>1. q \in [1 .. n -> Int] /\ 0 \in Int /\ \A i \in 1 .. n : 0 <= q[i] /\ q[i] <= 0
    BY <1>5
  <2>2. SumFunction(q) \in Int /\ 0 * n <= SumFunction(q) /\ SumFunction(q) <= 0 * n
    BY ONLY <2>1, n \in Nat, SumBetween
  <2> QED
    BY <2>2
<1> QED
  BY <1>1, <1>4, <1>5

\* The same of a sum over a finite set.
LEMMA SumOfSetOfNats ==
  ASSUME NEW D, IsFiniteSet(D), NEW f \in [D -> Nat]
  PROVE  /\ SumFunction(f) \in Nat
         /\ \A x \in D : f[x] <= SumFunction(f)
         /\ (\A x \in D : f[x] = 0) => SumFunction(f) = 0
<1> DEFINE n == Cardinality(D)
<1>1. n \in Nat /\ ExistsBijection(1 .. n, D)
  BY FS_CardinalityType
<1>2. PICK b \in Bijection(1 .. n, D) : TRUE
  BY <1>1 DEF ExistsBijection
<1>3. b \in [1 .. n -> D] /\ \A x \in D : \E i \in 1 .. n : b[i] = x
  BY DEF Bijection, Injection, Surjection, IsInjective
<1> HIDE DEF n
<1> DEFINE q == [i \in 1 .. n |-> f[b[i]]]
<1>4. q \in [1 .. n -> Nat] /\ \A i \in 1 .. n : q[i] = f[b[i]]
  BY <1>3
<1>5. SumFunction(q) = SumFunction(f)
  <2>1. f \in [D -> Int] /\ q = [i \in 1 .. n |-> f[b[i]]]
    OBVIOUS
  <2> HIDE DEF q
  <2> QED
    BY ONLY <1>1, <1>2, <2>1, SumEnumerated
<1>6. /\ SumFunction(q) \in Nat
      /\ \A i \in 1 .. n : q[i] <= SumFunction(q)
      /\ (\A i \in 1 .. n : q[i] = 0) => SumFunction(q) = 0
  <2> HIDE DEF q
  <2> QED
    BY ONLY <1>1, <1>4, SumOfNats
<1> HIDE DEF q
<1>7. ASSUME NEW x \in D PROVE f[x] <= SumFunction(f)
  <2>1. PICK i \in 1 .. n : b[i] = x
    BY <1>3
  <2> QED
    BY <1>4, <1>5, <1>6, <2>1
<1>8. ASSUME \A x \in D : f[x] = 0 PROVE SumFunction(f) = 0
  <2>1. \A i \in 1 .. n : q[i] = 0
    BY <1>3, <1>4, <1>8
  <2> QED
    BY <1>5, <1>6, <2>1
<1> QED
  BY <1>5, <1>6, <1>7, <1>8

\* The values of f, in the order in which b counts its domain.
Listed(f, b, n) == [i \in 1 .. n |-> f[b[i]]]

\* The sum over a set, of the values counted off in any order.
LEMMA SumListed ==
  ASSUME NEW D, NEW f \in [D -> Int], NEW n \in Nat, NEW b \in Bijection(1 .. n, D)
  PROVE  SumFunction(Listed(f, b, n)) = SumFunction(f)
<1>1. PICK q : q = [i \in 1 .. n |-> f[b[i]]]
  OBVIOUS
<1>2. SumFunction(q) = SumFunction(f)
  BY <1>1, SumEnumerated
<1> QED
  BY <1>1, <1>2 DEF Listed

\* A sum grows by the value of a new member.
LEMMA SumGrows ==
  ASSUME NEW E, IsFiniteSet(E), NEW x, x \notin E, NEW f \in [E -> Int],
         NEW g \in [E \cup {x} -> Int], \A y \in E : g[y] = f[y]
  PROVE  SumFunction(f) \in Int /\ SumFunction(g) = SumFunction(f) + g[x]
<1> DEFINE n == Cardinality(E)
           D == E \cup {x}
<1>1. n \in Nat /\ ExistsBijection(1 .. n, E)
  BY FS_CardinalityType
<1>2. PICK b \in Bijection(1 .. n, E) : TRUE
  BY <1>1 DEF ExistsBijection
<1>3. /\ b \in [1 .. n -> E] /\ \A i, j \in 1 .. n : b[i] = b[j] => i = j
      /\ \A y \in E : \E i \in 1 .. n : b[i] = y
  BY DEF Bijection, Injection, Surjection, IsInjective
<1> HIDE DEF n
<1> DEFINE m == n + 1
           c == [i \in 1 .. m |-> IF i = m THEN x ELSE b[i]]
           q == [i \in 1 .. n |-> f[b[i]]]
           r == [i \in 1 .. m |-> g[c[i]]]
<1>4. m \in Nat /\ m \in 1 .. m /\ 1 .. n \subseteq 1 .. m /\ m \notin 1 .. n /\ m - 1 = n
  BY <1>1
<1>5. \A i \in 1 .. m : i = m \/ i \in 1 .. n
  BY <1>1
<1> HIDE DEF m
<1>6. c[m] = x /\ \A i \in 1 .. n : c[i] = b[i] /\ c[i] \in E
  <2>1. \A i \in 1 .. n : i # m /\ i \in 1 .. m
    BY <1>4
  <2> QED
    BY <1>3, <1>4, <2>1
<1>7. c \in Bijection(1 .. m, D)
  <2>1. c \in [1 .. m -> D]
    BY <1>3, <1>5
  <2> HIDE DEF c
  <2>2. ASSUME NEW i \in 1 .. m, NEW j \in 1 .. m, c[i] = c[j] PROVE i = j
    BY <1>3, <1>5, <1>6, <2>2
  <2>3. \A y \in D : \E i \in 1 .. m : c[i] = y
    BY <1>3, <1>4, <1>6
  <2> QED
    BY <2>1, <2>2, <2>3 DEF Bijection, Injection, Surjection, IsInjective
<1>8. q \in [1 .. n -> Int] /\ r \in [1 .. m -> Int]
  <2>1. \A i \in 1 .. m : c[i] \in D
    BY <1>5, <1>6
  <2> HIDE DEF c
  <2> QED
    BY <1>3, <2>1
<1>9. r[m] = g[x] /\ \A i \in 1 .. n : r[i] = q[i]
  <2> HIDE DEF c
  <2>1. \A i \in 1 .. n : i \in 1 .. m /\ c[i] = b[i] /\ c[i] \in E
    BY <1>4, <1>6
  <2>2. r[m] = g[c[m]] /\ \A i \in 1 .. n : r[i] = g[c[i]] /\ q[i] = f[b[i]]
    BY <1>4, <2>1
  <2> QED
    BY <1>6, <2>1, <2>2
<1>10. SumFunction(q) = SumFunction(f)
  <2>1. q = Listed(f, b, n)
    BY DEF Listed
  <2> HIDE DEF q
  <2> QED
    BY <1>1, <2>1, SumListed
<1>11. SumFunction(r) = SumFunction(g)
  <2>1. r = Listed(g, c, m) /\ g \in [D -> Int]
    BY DEF Listed
  <2> HIDE DEF r, c, D
  <2>2. SumFunction(Listed(g, c, m)) = SumFunction(g)
    BY ONLY <1>4, <1>7, <2>1, SumListed
  <2> QED
    BY <2>1, <2>2
<1> HIDE DEF q, r, c
<1>12. PICK A \in [0 .. m -> Int] :
         A[0] = 0 /\ A[m] = SumFunction(r) /\ \A k \in 1 .. m : A[k] = A[k - 1] + r[k]
  BY <1>4, <1>8, PartialSums
<1>13. A[n] = SumFunction(q)
  <2>1. A[0] = 0 /\ \A k \in 1 .. n : A[k] = A[k - 1] + q[k]
    BY <1>4, <1>9, <1>12
  <2> QED
    BY ONLY <1>1, <1>8, <2>1, SumUnique
<1>14. A[m] = A[n] + r[m] /\ A[n] \in Int
  <2>1. n \in 0 .. m
    BY <1>1 DEF m
  <2> QED
    BY <1>4, <1>12, <2>1
<1> QED
  BY <1>9, <1>10, <1>11, <1>12, <1>13, <1>14

\* The values counted off, and the sum they have.
LEMMA SumCounted ==
  ASSUME NEW D, IsFiniteSet(D), NEW f \in [D -> Int]
  PROVE  /\ SumFunction(f) \in Int
         /\ \A g \in [D -> Int], c, d \in Int :
              (\A x \in D : c * f[x] <= d * g[x]) => c * SumFunction(f) <= d * SumFunction(g)
<1>1. PICK n \in Nat : ExistsBijection(1 .. n, D)
  BY FS_CardinalityType
<1>2. PICK b \in Bijection(1 .. n, D) : TRUE
  BY <1>1 DEF ExistsBijection
<1>3. b \in [1 .. n -> D]
  BY DEF Bijection, Injection
<1>4. ASSUME NEW g \in [D -> Int]
      PROVE  /\ Listed(g, b, n) \in [1 .. n -> Int]
             /\ SumFunction(Listed(g, b, n)) = SumFunction(g)
             /\ SumFunction(g) \in Int
  <2>1. Listed(g, b, n) \in [1 .. n -> Int]
    BY <1>3 DEF Listed
  <2>2. SumFunction(Listed(g, b, n)) = SumFunction(g)
    BY SumListed
  <2>3. SumFunction(Listed(g, b, n)) \in Int
    BY <2>1, PartialSums
  <2> QED
    BY <2>1, <2>2, <2>3
<1>5. ASSUME NEW g \in [D -> Int], NEW c \in Int, NEW d \in Int,
             \A x \in D : c * f[x] <= d * g[x]
      PROVE  c * SumFunction(f) <= d * SumFunction(g)
  <2> DEFINE r == Listed(f, b, n)
             q == Listed(g, b, n)
  <2>1. r \in [1 .. n -> Int] /\ q \in [1 .. n -> Int]
    BY <1>4
  <2>2. SumFunction(r) = SumFunction(f) /\ SumFunction(q) = SumFunction(g)
    BY <1>4
  <2>3. \A i \in 1 .. n : r[i] = f[b[i]] /\ q[i] = g[b[i]] /\ b[i] \in D
    BY <1>3 DEF Listed
  <2> HIDE DEF r, q
  <2>4. \A i \in 1 .. n : c * r[i] <= d * q[i]
    BY <1>5, <2>3
  <2>5. c * SumFunction(r) <= d * SumFunction(q)
    BY ONLY <2>1, <2>4, n \in Nat, c \in Int, d \in Int, SumScaled
  <2> QED
    BY <2>2, <2>5
<1> QED
  BY <1>4, <1>5

\* g is f but for its value at x.
ChangedAt(D, f, g, x) ==
  /\ IsFiniteSet(D) /\ f \in [D -> Int] /\ g \in [D -> Int] /\ x \in D
  /\ \A y \in D : y # x => g[y] = f[y]

\* A sum changes as its one changed value does.
LEMMA SumChanged ==
  ASSUME NEW D, NEW f, NEW g, NEW x, ChangedAt(D, f, g, x)
  PROVE  SumFunction(g) = SumFunction(f) + (g[x] - f[x])
<1>0. /\ IsFiniteSet(D) /\ f \in [D -> Int] /\ g \in [D -> Int] /\ x \in D
      /\ \A y \in D : y # x => g[y] = f[y]
  BY DEF ChangedAt
<1> DEFINE E == D \ {x}
           r == [y \in E |-> f[y]]
<1>1. IsFiniteSet(E) /\ x \notin E /\ E \cup {x} = D
  BY <1>0, FS_Subset
<1>2. r \in [E -> Int] /\ (\A y \in E : f[y] = r[y]) /\ (\A y \in E : g[y] = r[y])
  BY <1>0
<1> HIDE DEF E, r
<1>3. f \in [E \cup {x} -> Int] /\ g \in [E \cup {x} -> Int]
  BY <1>0, <1>1
<1>4. SumFunction(r) \in Int /\ SumFunction(f) = SumFunction(r) + f[x]
  BY ONLY <1>1, <1>2, <1>3, SumGrows
<1>5. SumFunction(g) = SumFunction(r) + g[x]
  BY ONLY <1>1, <1>2, <1>3, SumGrows
<1>6. f[x] \in Int /\ g[x] \in Int
  BY <1>0
<1> QED
  BY <1>4, <1>5, <1>6

\* f with d more for the members that b counts up to j.
RaisedAlong(f, b, j, d) ==
  [x \in DOMAIN f |-> IF \E i \in 1 .. j : b[i] = x THEN f[x] + d ELSE f[x]]

\* f is a function on a finite set, and b counts m different members of it.
Counts(D, f, b, m) ==
  /\ IsFiniteSet(D) /\ f \in [D -> Int] /\ m \in Nat /\ b \in [1 .. m -> D]
  /\ \A i, j \in 1 .. m : b[i] = b[j] => i = j

\* When m different members get d more each, the sum gets m * d more.
LEMMA SumRaised ==
  ASSUME NEW D, NEW f, NEW b, NEW m, Counts(D, f, b, m), NEW d \in Int
  PROVE  SumFunction(RaisedAlong(f, b, m, d)) = SumFunction(f) + m * d
<1> DEFINE R(j) == RaisedAlong(f, b, j, d)
           good == {j \in 0 .. m : SumFunction(R(j)) = SumFunction(f) + j * d}
<1>0. /\ IsFiniteSet(D) /\ f \in [D -> Int] /\ m \in Nat /\ b \in [1 .. m -> D]
      /\ \A i, j \in 1 .. m : b[i] = b[j] => i = j
  BY DEF Counts
<1>1. \A j \in Nat : R(j) \in [D -> Int]
  BY <1>0 DEF RaisedAlong
<1>2. 0 \in good
  <2>1. R(0) = f
    BY <1>0 DEF RaisedAlong
  <2>2. SumFunction(f) \in Int /\ 0 * d = 0
    BY <1>0, SumCounted
  <2> QED
    BY <1>0, <2>1, <2>2
<1>3. ASSUME NEW j \in 0 .. m - 1, j \in good
      PROVE  j + 1 \in good
  <2> DEFINE x == b[j + 1]
             s == R(j)
             t == R(j + 1)
  <2>1. j + 1 \in 1 .. m /\ j \in Nat /\ j + 1 \in Nat /\ x \in D /\ f[x] \in Int
    BY <1>0
  <2>2. s \in [D -> Int] /\ t \in [D -> Int]
    BY <1>1, <2>1
  <2>3. ASSUME NEW i \in 1 .. j PROVE b[i] # x
    <3>1. i \in 1 .. m /\ i # j + 1
      BY <1>0, <2>1
    <3> QED
      BY <1>0, <2>1, <3>1
  <2>4. s[x] = f[x]
    BY <1>0, <2>1, <2>3 DEF RaisedAlong
  <2>5. t[x] = f[x] + d
    <3>1. j + 1 \in 1 .. j + 1
      BY <2>1
    <3> QED
      BY <1>0, <2>1, <3>1 DEF RaisedAlong
  <2>6. ASSUME NEW y \in D, y # x PROVE t[y] = s[y]
    <3>1. \A i \in 1 .. j + 1 : i = j + 1 \/ i \in 1 .. j
      BY <2>1
    <3>2. 1 .. j \subseteq 1 .. j + 1
      BY <2>1
    <3>3. (\E i \in 1 .. j + 1 : b[i] = y) <=> (\E i \in 1 .. j : b[i] = y)
      BY <2>6, <3>1, <3>2
    <3> QED
      BY <1>0, <3>3 DEF RaisedAlong
  <2> HIDE DEF s, t, x
  <2>7. SumFunction(t) = SumFunction(s) + (t[x] - s[x])
    <3>1. ChangedAt(D, s, t, x)
      BY <1>0, <2>1, <2>2, <2>6 DEF ChangedAt
    <3> QED
      BY ONLY <3>1, SumChanged
  <2>8. t[x] - s[x] = d
    BY <2>1, <2>4, <2>5
  <2>9. SumFunction(s) = SumFunction(f) + j * d /\ SumFunction(f) \in Int
    BY <1>0, <1>3, SumCounted DEF s
  <2>10. (j + 1) * d = j * d + d /\ j * d \in Int
    BY <2>1
  <2>11. SumFunction(t) = SumFunction(f) + (j + 1) * d
    <3> DEFINE jd == j * d
               kd == (j + 1) * d
               sum == SumFunction(f)
    <3>1. kd = jd + d /\ jd \in Int /\ sum \in Int
      BY <2>9, <2>10
    <3>2. SumFunction(t) = (sum + jd) + d
      BY <2>7, <2>8, <2>9
    <3> HIDE DEF jd, kd, sum
    <3>3. SumFunction(t) = sum + kd
      BY <3>1, <3>2
    <3> QED
      BY <3>3 DEF sum, kd
  <2> QED
    BY <2>1, <2>11 DEF t
<1>4. m \in good
  <2> HIDE DEF good
  <2>1. 0 .. m \subseteq good
    BY <1>0, <1>2, <1>3, IntervalInduction, Zenon
  <2> QED
    BY <1>0, <2>1
<1> QED
  BY <1>4

\* The greatest value of a function on a finite set of arguments that is not empty.
LEMMA MaxOfValues ==
  ASSUME NEW D, IsFiniteSet(D), D # {}, NEW f \in [D -> Nat]
  PROVE  /\ Max(Range(f)) \in Nat
         /\ \A x \in D : f[x] <= Max(Range(f))
         /\ \E x \in D : f[x] = Max(Range(f))
<1> DEFINE S == Range(f)
           n == SumFunction(f)
<1>1. n \in Nat /\ \A x \in D : f[x] <= n
  BY SumOfSetOfNats
<1>2. S = {f[x] : x \in D}
  BY DEF Range
<1> HIDE DEF n, S
<1>3. S \in SUBSET (0 .. n) /\ S # {}
  BY <1>1, <1>2
<1>4. Max(S) \in S /\ \A y \in S : y <= Max(S)
  BY <1>1, <1>3, MaxOfInterval
<1>5. Max(S) \in Nat /\ (\A x \in D : f[x] <= Max(S)) /\ \E x \in D : f[x] = Max(S)
  BY <1>2, <1>4
<1> QED
  BY <1>5 DEF S

\* The sum over one list after another is the sum of their sums.
LEMMA SumConcat ==
  ASSUME NEW m \in Nat, NEW n \in Nat, NEW s \in [1 .. m -> Int], NEW t \in [1 .. n -> Int],
         NEW r \in [1 .. m + n -> Int],
         \A i \in 1 .. m + n : r[i] = IF i <= m THEN s[i] ELSE t[i - m]
  PROVE  SumFunction(r) = SumFunction(s) + SumFunction(t)
<1>1. PICK A \in [0 .. m -> Int] :
        A[0] = 0 /\ A[m] = SumFunction(s) /\ \A k \in 1 .. m : A[k] = A[k - 1] + s[k]
  BY PartialSums
<1>2. PICK C \in [0 .. n -> Int] :
        C[0] = 0 /\ C[n] = SumFunction(t) /\ \A k \in 1 .. n : C[k] = C[k - 1] + t[k]
  BY PartialSums
<1> DEFINE B == [k \in 0 .. m + n |-> IF k <= m THEN A[k] ELSE A[m] + C[k - m]]
<1>3. B[0] = 0
  BY <1>1
<1>4. ASSUME NEW k \in 1 .. m + n PROVE B[k] = B[k - 1] + r[k]
  <2>1. k \in 0 .. m + n /\ k - 1 \in 0 .. m + n
    OBVIOUS
  <2>2. CASE k <= m
    <3>1. B[k] = A[k] /\ B[k - 1] = A[k - 1] /\ r[k] = s[k] /\ k \in 1 .. m
      BY <2>1, <2>2
    <3> QED
      BY <1>1, <3>1
  <2>3. CASE ~ (k <= m)
    <3>1. k - m \in 1 .. n /\ (k - m) - 1 = (k - 1) - m /\ r[k] = t[k - m]
      BY <2>3
    <3>2. B[k] = A[m] + C[k - m]
      BY <2>1, <2>3
    <3>3. C[k - m] = C[(k - m) - 1] + t[k - m]
      BY <1>2, <3>1
    <3>4. B[k - 1] = A[m] + C[(k - m) - 1]
      <4>1. CASE k - 1 <= m
        <5>1. k - 1 = m
          BY <2>3, <4>1
        <5>2. B[k - 1] = A[m] /\ C[(k - m) - 1] = 0 /\ A[m] \in Int
          BY <1>1, <1>2, <2>1, <5>1
        <5> QED
          BY <5>2
      <4>2. CASE ~ (k - 1 <= m)
        BY <2>1, <3>1, <4>2
      <4> QED
        BY <4>1, <4>2
    <3>5. A[m] \in Int /\ C[(k - m) - 1] \in Int /\ t[k - m] \in Int
      BY <3>1
    <3> HIDE DEF B
    <3> QED
      BY <3>1, <3>2, <3>3, <3>4, <3>5
  <2> QED
    BY <2>2, <2>3
<1>5. B[m + n] = SumFunction(r)
  <2> HIDE DEF B
  <2> DEFINE l == m + n
  <2>1. l \in Nat /\ r \in [1 .. l -> Int] /\ B[0] = 0 /\ \A k \in 1 .. l : B[k] = B[k - 1] + r[k]
    BY <1>3, <1>4
  <2>2. B[l] = SumFunction(r)
    <3> HIDE DEF B, l
    <3> QED
      BY ONLY <2>1, SumUnique
  <2> QED
    BY <2>2
<1>6. B[m + n] = A[m] + C[n]
  <2>1. CASE n = 0
    BY <1>1, <1>2, <2>1
  <2>2. CASE n # 0
    <3>1. ~ (m + n <= m) /\ (m + n) - m = n /\ m + n \in 0 .. m + n
      BY <2>2
    <3> QED
      BY <3>1
  <2> QED
    BY <2>1, <2>2
<1> HIDE DEF B
<1> QED
  BY <1>1, <1>2, <1>5, <1>6

-----------------------------------------------------------------------------
(* Lists of lists.                                                         *)

\* F[k] is the first k lists one after the other.
Flattens(F, X, m, ss) ==
  /\ F \in [0 .. m -> Seq(X)]
  /\ F[0] = <<>> /\ F[m] = FlattenSeq(ss)
  /\ \A k \in 1 .. m : F[k] = F[k - 1] \o ss[k]

\* A list of lists is flattened one list after the other.
LEMMA FlattenGrows ==
  ASSUME NEW X, NEW m \in Nat, NEW ss \in [1 .. m -> Seq(X)]
  PROVE  \E F : Flattens(F, X, m, ss)
<1> DEFINE Y == Seq(X)
           base == <<>>
           G == [i \in 1 .. m |-> [y \in Y |-> y \o ss[i]]]
<1>1. base \in Y /\ G \in [1 .. m -> [Y -> Y]]
  OBVIOUS
<1>2. PICK h \in [SUBSET (1 .. m) -> Y] : IsFold(h, m, base, G)
  <2> HIDE DEF Y, base, G
  <2> QED
    BY <1>1, FoldExists
<1> DEFINE F == [k \in 0 .. m |-> h[1 .. k]]
<1>3. F \in [0 .. m -> Y]
  <2>1. \A k \in 0 .. m : 1 .. k \in SUBSET (1 .. m)
    OBVIOUS
  <2> HIDE DEF Y
  <2> QED
    BY <2>1
<1>4. F[0] = <<>>
  <2>1. 1 .. 0 = {} /\ {} \in SUBSET (1 .. m) /\ F[0] = h[1 .. 0]
    OBVIOUS
  <2>2. h[{}] = base
    BY <1>2, <2>1 DEF IsFold
  <2> HIDE DEF F
  <2> QED
    BY <2>1, <2>2
<1>5. ASSUME NEW k \in 1 .. m PROVE F[k] = F[k - 1] \o ss[k]
  <2> DEFINE S == 1 .. k
  <2>1. S \in SUBSET (1 .. k) /\ S \in SUBSET (1 .. m) /\ S # {} /\ k \in S /\ k \in Nat
    <3>1. k \in 1 .. k /\ k \in Nat
      OBVIOUS
    <3>2. 1 .. k \subseteq 1 .. m
      OBVIOUS
    <3> QED
      BY ONLY <3>1, <3>2
  <2>2. Max(S) = k
    <3> HIDE DEF S
    <3> QED
      BY <2>1, MaxOfIndices
  <2>3. S \ {k} = 1 .. k - 1
    OBVIOUS
  <2>4. h[S] = G[k][h[1 .. k - 1]]
    <3> HIDE DEF S, G, Y
    <3> QED
      BY <1>2, <2>1, <2>2, <2>3 DEF IsFold
  <2>5. F[k] = h[S] /\ F[k - 1] = h[1 .. k - 1] /\ F[k - 1] \in Y
    BY <1>3
  <2> HIDE DEF F, S, Y
  <2> QED
    BY <2>4, <2>5
<1> HIDE DEF F
<1>6. F[m] = FlattenSeq(ss)
  <2>1. Len(ss) = m
    OBVIOUS
  <2>2. CASE m = 0
    <3>1. FlattenSeq(ss) = ss
      BY <2>1, <2>2, Zenon DEF FlattenSeq
    <3>2. ss = <<>>
      BY <2>2
    <3> QED
      BY <1>4, <2>2, <3>1, <3>2
  <2>3. CASE m # 0
    <3> DEFINE Next(g) == [i \in 1 .. m |-> IF i = 1 THEN ss[i] ELSE g[i - 1] \o ss[i]]
               flatten == CHOOSE g : g = Next(g)
               A == [k \in 1 .. m |-> F[k]]
    <3>1. FlattenSeq(ss) = flatten[m]
      BY <2>1, <2>3, Zenon DEF FlattenSeq
    <3>2. A = Next(A)
      <4>1. ASSUME NEW i \in 1 .. m
            PROVE  F[i] = IF i = 1 THEN ss[i] ELSE A[i - 1] \o ss[i]
        <5>1. CASE i = 1
          <6>1. i - 1 = 0 /\ ss[i] \in Seq(X)
            BY <5>1
          <6>2. <<>> \o ss[i] = ss[i]
            BY <6>1
          <6> QED
            BY <1>4, <1>5, <5>1, <6>1, <6>2
        <5>2. CASE i # 1
          <6>1. i - 1 \in 1 .. m
            BY <5>2
          <6>2. A[i - 1] = F[i - 1]
            BY <6>1
          <6> QED
            BY <1>5, <5>2, <6>2
        <5> QED
          BY <5>1, <5>2
      <4> QED
        BY <4>1
    <3>3. flatten = Next(flatten)
      <4> HIDE DEF Next
      <4> QED
        BY <3>2
    <3> HIDE DEF flatten
    <3> DEFINE good == {k \in 0 .. m : k = 0 \/ flatten[k] = F[k]}
    <3>4. 0 \in good
      OBVIOUS
    <3>5. ASSUME NEW k \in 0 .. m - 1, k \in good
          PROVE  k + 1 \in good
      <4>1. k + 1 \in 0 .. m /\ k + 1 \in 1 .. m /\ (k + 1) - 1 = k
        OBVIOUS
      <4>2. flatten[k + 1] = IF k + 1 = 1 THEN ss[k + 1] ELSE flatten[(k + 1) - 1] \o ss[k + 1]
        BY <3>3, <4>1
      <4>3. A[k + 1] = IF k + 1 = 1 THEN ss[k + 1] ELSE A[(k + 1) - 1] \o ss[k + 1]
        BY <3>2, <4>1
      <4>4. A[k + 1] = F[k + 1] /\ (k # 0 => A[k] = F[k])
        BY <4>1
      <4>5. k # 0 => flatten[k] = F[k]
        BY <3>5
      <4>6. k = 0 <=> k + 1 = 1
        OBVIOUS
      <4> HIDE DEF A, Next
      <4>7. flatten[k + 1] = F[k + 1]
        BY <4>1, <4>2, <4>3, <4>4, <4>5, <4>6
      <4> QED
        BY <4>1, <4>7
    <3>6. m \in good
      <4> HIDE DEF good
      <4>1. 0 .. m \subseteq good
        BY <3>4, <3>5, IntervalInduction, Zenon
      <4> QED
        BY <4>1
    <3> QED
      BY <2>3, <3>1, <3>6
  <2> QED
    BY <2>2, <2>3
<1>7. Flattens(F, X, m, ss)
  BY <1>3, <1>4, <1>5, <1>6, Zenon DEF Flattens
<1> QED
  BY ONLY <1>7, Zenon

\* The sum over a list of what f gives its elements.
SumOver(f, s) == SumFunction([i \in DOMAIN s |-> f[s[i]]])

SumOfSums(f, ss) == SumFunction([k \in DOMAIN ss |-> SumOver(f, ss[k])])

\* What is summed over a list of lists is the sum over the lists of their sums.
LEMMA FlattenSums ==
  ASSUME NEW X, NEW ss \in Seq(Seq(X)), NEW f \in [X -> Int]
  PROVE  FlattenSeq(ss) \in Seq(X) /\ SumOver(f, FlattenSeq(ss)) = SumOfSums(f, ss)
<1> DEFINE m == Len(ss)
<1>0. m \in Nat /\ DOMAIN ss = 1 .. m /\ ss \in [1 .. m -> Seq(X)]
  OBVIOUS
<1> HIDE DEF m
<1>1. PICK F \in [0 .. m -> Seq(X)] :
        F[0] = <<>> /\ F[m] = FlattenSeq(ss) /\ \A k \in 1 .. m : F[k] = F[k - 1] \o ss[k]
  <2>1. PICK F : Flattens(F, X, m, ss)
    BY <1>0, FlattenGrows
  <2> QED
    BY <2>1 DEF Flattens
<1> DEFINE Values(s) == [i \in DOMAIN s |-> f[s[i]]]
           Sum(s) == SumFunction(Values(s))
           B == [k \in 0 .. m |-> Sum(F[k])]
           q == [k \in 1 .. m |-> SumOver(f, ss[k])]
<1>2. ASSUME NEW s \in Seq(X)
      PROVE  Len(s) \in Nat /\ Values(s) \in [1 .. Len(s) -> Int] /\ Sum(s) \in Int
  <2>1. Len(s) \in Nat /\ Values(s) \in [1 .. Len(s) -> Int]
    OBVIOUS
  <2> DEFINE v == Values(s)
             n == Len(s)
  <2> HIDE DEF v, n
  <2>2. PICK A \in [0 .. n -> Int] :
          A[0] = 0 /\ A[n] = SumFunction(v) /\ \A k \in 1 .. n : A[k] = A[k - 1] + v[k]
    BY <2>1, PartialSums DEF n, v
  <2>3. SumFunction(v) \in Int
    <3>1. n \in Nat
      BY <2>1 DEF n
    <3>2. n \in 0 .. n
      BY <3>1
    <3> QED
      BY <2>2, <3>2
  <2> QED
    BY <2>1, <2>3 DEF v
<1>3. ASSUME NEW s \in Seq(X), NEW t \in Seq(X)
      PROVE  Sum(s \o t) = Sum(s) + Sum(t)
  <2> DEFINE a == Len(s)
             b == Len(t)
             u == Values(s)
             v == Values(t)
             w == Values(s \o t)
  <2>1. a \in Nat /\ b \in Nat /\ u \in [1 .. a -> Int] /\ v \in [1 .. b -> Int]
    BY <1>2
  <2>2. s \o t \in Seq(X) /\ Len(s \o t) = a + b /\ DOMAIN (s \o t) = 1 .. a + b
    OBVIOUS
  <2>3. w \in [1 .. a + b -> Int]
    BY <1>2, <2>2
  <2>4. ASSUME NEW i \in 1 .. a + b PROVE w[i] = IF i <= a THEN u[i] ELSE v[i - a]
    <3>1. w[i] = f[(s \o t)[i]]
      BY <2>2
    <3>2. CASE i <= a
      <4>1. i \in DOMAIN s /\ (s \o t)[i] = s[i]
        BY <3>2
      <4> QED
        BY <3>1, <3>2, <4>1
    <3>3. CASE ~ (i <= a)
      <4>1. i - a \in DOMAIN t /\ (s \o t)[i] = t[i - a]
        BY <3>3, <2>1
      <4> QED
        BY <3>1, <3>3, <4>1
    <3> QED
      BY <3>2, <3>3
  <2>5. SumFunction(w) = SumFunction(u) + SumFunction(v)
    <3> HIDE DEF a, b, u, v, w
    <3> QED
      BY ONLY <2>1, <2>3, <2>4, SumConcat
  <2> QED
    BY <2>5
<1> HIDE DEF q
<1>4. B[0] = 0
  <2>1. Values(F[0]) \in [1 .. 0 -> Nat] /\ 0 \in Nat /\ 0 \in 0 .. m
    BY <1>0, <1>1
  <2> DEFINE v == Values(F[0])
  <2>2. SumFunction(v) = 0
    <3>1. \A i \in 1 .. 0 : v[i] = 0
      OBVIOUS
    <3>2. v \in [1 .. 0 -> Nat]
      BY <2>1
    <3> HIDE DEF v
    <3> QED
      BY ONLY <3>1, <3>2, 0 \in Nat, SumOfNats
  <2>3. B[0] = Sum(F[0])
    BY <2>1
  <2> HIDE DEF B
  <2> QED
    BY <2>2, <2>3
<1>5. q = [k \in 1 .. m |-> Sum(ss[k])] /\ q \in [1 .. m -> Int]
  <2>1. \A s : Sum(s) = SumOver(f, s)
    BY DEF SumOver
  <2>2. q = [k \in 1 .. m |-> Sum(ss[k])]
    <3> HIDE DEF Sum
    <3> QED
      BY <2>1 DEF q
  <2>3. \A k \in 1 .. m : Sum(ss[k]) \in Int
    BY <1>0, <1>2
  <2> HIDE DEF Sum
  <2> QED
    BY <2>2, <2>3
<1>6. ASSUME NEW k \in 1 .. m PROVE B[k] = B[k - 1] + q[k]
  <2>1. k \in 0 .. m /\ k - 1 \in 0 .. m
    BY <1>0
  <2>2. F[k - 1] \in Seq(X) /\ ss[k] \in Seq(X) /\ F[k] = F[k - 1] \o ss[k]
    BY <1>0, <1>1, <2>1
  <2>3. B[k] = Sum(F[k]) /\ B[k - 1] = Sum(F[k - 1]) /\ q[k] = Sum(ss[k])
    <3> HIDE DEF Sum
    <3> QED
      BY <1>5, <2>1
  <2> HIDE DEF B, Sum
  <2> QED
    BY <1>3, <2>2, <2>3
<1>7. B[m] = SumFunction(q)
  <2> HIDE DEF B
  <2> QED
    BY <1>0, <1>4, <1>5, <1>6, SumUnique
<1>8. B[m] = Sum(FlattenSeq(ss)) /\ FlattenSeq(ss) \in Seq(X)
  <2>1. m \in 0 .. m
    BY <1>0
  <2> HIDE DEF Sum
  <2> QED
    BY <1>1, <2>1
<1>10. SumOfSums(f, ss) = SumFunction(q)
  BY <1>0 DEF SumOfSums, q
<1>9. Sum(FlattenSeq(ss)) = SumOver(f, FlattenSeq(ss))
  BY DEF SumOver
<1> HIDE DEF B, Sum
<1> QED
  BY <1>7, <1>8, <1>9, <1>10

-----------------------------------------------------------------------------
(* The order of numbers.                                                   *)

\* Ranks number the members of a finite set of natural numbers, and Ascending lists
\* the members by rank.
LEMMA AscendingFacts ==
  ASSUME NEW S \in SUBSET Nat, IsFiniteSet(S)
  PROVE  /\ Cardinality(S) \in Nat
         /\ Ascending(S) \in Bijection(1 .. Cardinality(S), S)
         /\ \A x \in S : Rank(S, x) \in 1 .. Cardinality(S) /\ Ascending(S)[Rank(S, x)] = x
         /\ \A i \in 1 .. Cardinality(S) : Rank(S, Ascending(S)[i]) = i
<1> DEFINE n == Cardinality(S)
           Below(x) == {y \in S : y <= x}
           rank == [x \in S |-> Rank(S, x)]
<1>1. n \in Nat
  BY FS_CardinalityType
<1>2. ASSUME NEW x \in S
      PROVE  /\ Below(x) \in SUBSET S /\ IsFiniteSet(Below(x))
             /\ Rank(S, x) = Cardinality(Below(x))
             /\ Rank(S, x) \in 1 .. n
  <2>1. Below(x) \in SUBSET S /\ x \in Below(x)
    OBVIOUS
  <2>2. Rank(S, x) = Cardinality(Below(x))
    BY DEF Rank
  <2> DEFINE T == Below(x)
  <2> HIDE DEF T
  <2>3. IsFiniteSet(T) /\ Cardinality(T) <= n /\ Cardinality(T) \in Nat
    BY <2>1, FS_Subset, FS_CardinalityType DEF T
  <2>4. Cardinality(T) # 0
    BY <2>1, <2>3, FS_EmptySet DEF T
  <2>5. Cardinality(T) \in 1 .. n
    BY <1>1, <2>3, <2>4
  <2> QED
    BY <2>1, <2>2, <2>3, <2>5 DEF T
<1>3. ASSUME NEW x \in S, NEW y \in S, x < y PROVE Rank(S, x) # Rank(S, y)
  <2>1. Below(x) \in SUBSET Below(y) /\ y \in Below(y) /\ y \notin Below(x)
    <3>1. x \in Nat /\ y \in Nat /\ ~ (y <= x) /\ y <= y
      BY <1>3
    <3>2. ASSUME NEW z \in S, z <= x PROVE z <= y
      BY <1>3, <3>1, <3>2
    <3> QED
      BY <3>1, <3>2
  <2> DEFINE T == Below(x)
             U == Below(y)
  <2>2. IsFiniteSet(U) /\ T \in SUBSET U /\ T # U
    BY <1>2, <2>1
  <2>3. Cardinality(T) # Cardinality(U)
    <3> HIDE DEF T, U
    <3> QED
      BY <2>2, FS_Subset
  <2> QED
    BY <1>2, <2>3
<1>4. rank \in Injection(S, 1 .. n)
  <2>1. rank \in [S -> 1 .. n]
    BY <1>2
  <2>2. ASSUME NEW x \in S, NEW y \in S, rank[x] = rank[y] PROVE x = y
    <3>1. x \in Nat /\ y \in Nat /\ Rank(S, x) = Rank(S, y)
      BY <2>2
    <3>2. ~ (x < y) /\ ~ (y < x)
      BY <1>3, <3>1
    <3> QED
      BY <3>1, <3>2
  <2> QED
    BY <2>1, <2>2 DEF Injection, IsInjective
<1>5. \A i \in 1 .. n : \E x \in S : rank[x] = i
  <2>1. IsFiniteSet(1 .. n) /\ Cardinality(1 .. n) = n
    BY <1>1, FS_Interval
  <2> DEFINE T == 1 .. n
  <2>2. rank \in Injection(S, T) /\ IsFiniteSet(T) /\ Cardinality(S) = Cardinality(T)
    BY <1>4, <2>1
  <2>3. rank \in Surjection(S, T)
    <3> HIDE DEF rank, n, T
    <3> QED
      BY <2>2, FS_Injection
  <2> HIDE DEF rank, n
  <2> QED
    BY <2>3 DEF Surjection
<1>6. \A x, y \in S : Rank(S, x) = Rank(S, y) => x = y
  <2>1. \A x, y \in S : rank[x] = rank[y] => x = y
    <3> HIDE DEF rank, n
    <3> QED
      BY <1>4 DEF Injection, IsInjective
  <2> QED
    BY <2>1
<1>7. ASSUME NEW i \in 1 .. n
      PROVE  Ascending(S)[i] \in S /\ Rank(S, Ascending(S)[i]) = i
  <2>1. \E x \in S : Rank(S, x) = i
    BY <1>5
  <2>2. Ascending(S)[i] = CHOOSE x \in S : Rank(S, x) = i
    BY DEF Ascending
  <2> HIDE DEF n
  <2> QED
    BY <2>1, <2>2
<1>8. DOMAIN Ascending(S) = 1 .. n /\ Ascending(S) = [i \in 1 .. n |-> Ascending(S)[i]]
  BY DEF Ascending
<1> DEFINE a == Ascending(S)
<1>9. a \in [1 .. n -> S]
  <2>1. a = [i \in 1 .. n |-> a[i]] /\ \A i \in 1 .. n : a[i] \in S
    BY <1>7, <1>8
  <2> HIDE DEF a
  <2> QED
    BY <2>1
<1>10. ASSUME NEW x \in S PROVE a[Rank(S, x)] = x
  <2>1. Rank(S, x) \in 1 .. n
    BY <1>2
  <2>2. a[Rank(S, x)] \in S /\ Rank(S, a[Rank(S, x)]) = Rank(S, x)
    BY <1>7, <2>1
  <2> HIDE DEF a
  <2> QED
    BY <1>6, <2>2
<1>11. \A i \in 1 .. n : Rank(S, a[i]) = i
  BY <1>7
<1>12. a \in Bijection(1 .. n, S)
  <2> HIDE DEF a, n
  <2>1. a \in Injection(1 .. n, S)
    BY <1>9, <1>11 DEF Injection, IsInjective
  <2>2. a \in Surjection(1 .. n, S)
    BY <1>2, <1>9, <1>10 DEF Surjection
  <2> QED
    BY <2>1, <2>2 DEF Bijection
<1> QED
  BY <1>1, <1>2, <1>10, <1>11, <1>12
=============================================================================
