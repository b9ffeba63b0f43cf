------------------------------ MODULE TdmProofs ------------------------------
(***************************************************************************)
(* Proofs about the two ways to make ratios: the legalisation of an edge   *)
(* (TdmRound), for every number of trees, every share and every priority,  *)
(* and after it the fast assignment (TdmHeuristic, as the instance H), for *)
(* every input.  Both lower ratios by the same quotient, and what it does  *)
(* to the sum of the reciprocals is shown once.  Sums are those of         *)
(* SetFacts.                                                               *)
(***************************************************************************)
EXTENDS TdmRound, SetFacts, SequenceTheorems

-----------------------------------------------------------------------------
(* The inductive invariant.                                                *)

Net == [prio : Prio, tdm : Nat]

\* One share and one entry for each of the same nets.
Shapes == \E size \in 1 .. MaxSize :
  share \in [1 .. size -> 1 .. MaxShare] /\ pst \in [1 .. size -> Net]

\* The counters move in their own phase only.
CountersWait ==
  /\ pc \in {"ceil", "check"} => n = 1
  /\ pc \in {"ceil", "check", "loop"} => k = 1

\* The loop keeps the order of the sort: worse groups first and, within a group,
\* greater ratios first.
StaysSorted == pc = "loop" => \A i, j \in DOMAIN pst : i < j =>
  /\ pst[i].prio >= pst[j].prio
  /\ pst[i].prio = pst[j].prio => pst[i].tdm >= pst[j].tdm

\* The nets counted by n have one ratio, and the prefix that may be lowered is at
\* the rounding threshold.
LeadersLevel == pc = "loop" =>
  /\ n <= virtualSize
  /\ \A i \in 1 .. n : pst[i].tdm = pst[1].tdm
  /\ \A i \in 2 .. virtualSize : pst[i].prio >= Threshold(pst)

IInv == Shapes /\ CountersWait /\ StaysSorted /\ LeadersLevel /\ RatioConstraint

-----------------------------------------------------------------------------
(* Arithmetic.                                                             *)

Ratio == {t \in 2 .. MaxTdm : t % 2 = 0}

\* The reciprocal of a ratio is a whole number of units.
LEMMA Reciprocal ==
  ASSUME NEW t \in Ratio
  PROVE  Scale \div t \in Nat /\ t * (Scale \div t) = Scale
<1>1. t \in Nat \ {0} /\ Scale \in Nat /\ Scale % t = 0
  BY ScaleAssumption DEF Ratio
<1>2. Scale \div t \in Nat /\ Scale = t * (Scale \div t) + (Scale % t)
  BY <1>1, Division
<1> QED
  BY <1>1, <1>2

\* A factor does not reverse the order of products, and a common one can be left out.
LEMMA Products ==
  ASSUME NEW a \in Int, NEW b \in Int, NEW c \in Nat \ {0}
  PROVE  /\ a * c \in Int
         /\ a <= b <=> a * c <= b * c
         /\ a < b <=> a * c < b * c
OBVIOUS

\* A smaller ratio has the larger reciprocal.
LEMMA ReciprocalOrder ==
  ASSUME NEW t \in Ratio, NEW u \in Ratio, t <= u
  PROVE  Scale \div u <= Scale \div t
<1> DEFINE a == Scale \div u
           b == Scale \div t
<1>1. a \in Nat /\ b \in Nat /\ u * a = Scale /\ t * b = Scale
  BY Reciprocal
<1>2. t \in Nat \ {0} /\ u \in Nat \ {0}
  BY DEF Ratio
<1> HIDE DEF a, b
<1>3. ASSUME b < a PROVE FALSE
  <2>1. t * a <= u * a
    BY <1>1, <1>2
  <2>2. t * b < t * a
    BY <1>1, <1>2, <1>3
  <2> QED
    BY <1>1, <1>2, <2>1, <2>2
<1>4. b >= a
  BY <1>1, <1>3
<1> QED
  BY <1>4 DEF a, b

\* m nets come down from t to u = t - d: they use less than the margin M just when
\* d stays below the quotient Numerator / Denominator.
LEMMA Lowering ==
  ASSUME NEW t \in Ratio, NEW u \in Ratio, NEW m \in Nat \ {0}, NEW M \in Nat \ {0}, u <= t
  PROVE  m * ((Scale \div u) - (Scale \div t)) < M
           <=> (t - u) * (m * Scale + t * M) < t * t * M
<1> DEFINE a == Scale \div u
           b == Scale \div t
           S == Scale
<1>1. a \in Nat /\ b \in Nat /\ u * a = S /\ t * b = S
  BY Reciprocal
<1>2. t \in Nat \ {0} /\ u \in Nat \ {0} /\ S \in Nat \ {0}
  BY ScaleAssumption DEF Ratio
<1> HIDE DEF a, b, S
<1> DEFINE x == m * (a - b)
           y == u * t
           p == (t - u) * (m * S)
           q == (t - u) * (t * M)
           r == t * t * M
           w == M * y
<1>3. x * y = p
  <2>1. a * u * t = S * t /\ b * u * t = S * u
    BY <1>1, <1>2
  <2>2. x * y = m * (a * u * t - b * u * t)
    BY <1>1, <1>2
  <2>3. x * y = m * (S * t - S * u)
    BY <2>1, <2>2
  <2> QED
    BY <1>2, <2>3
<1>4. (t - u) * (m * S + t * M) = p + q
  BY <1>2
<1>5. r - q = w
  <2>1. t * (t * M) - (t - u) * (t * M) = u * (t * M)
    BY <1>2
  <2> QED
    BY <1>2, <2>1
<1>6. x \in Int /\ y \in Nat \ {0} /\ p \in Int /\ q \in Int /\ r \in Int /\ w \in Int
  BY <1>1, <1>2
<1>7. x < M <=> x * y < M * y
  <2> HIDE DEF x, y
  <2> QED
    BY <1>6, Products
<1>8. x < M <=> p < w
  BY <1>3, <1>7
<1>9. p < w <=> p + q < r
  <2> HIDE DEF x, y, p, q, r, w
  <2> QED
    BY <1>5, <1>6
<1>10. x < M <=> (t - u) * (m * S + t * M) < r
  <2> HIDE DEF x, p, q, r, w
  <2> QED
    BY <1>4, <1>8, <1>9
<1> QED
  BY <1>10 DEF a, b, S

\* The quotient of the two operators Numerator and Denominator.
Dividend(t, M)   == t * t * M
Divisor(t, m, M) == m * Scale + t * M

EvenBelow(a, b) == LET f == (a - 1) \div b IN f - (f % 2)

\* The quotient made even, as it is taken off the ratio: it is the greatest even
\* number below the quotient, and a ratio is left.
LEMMA EvenQuotient ==
  ASSUME NEW t \in Ratio, NEW m \in Nat \ {0}, NEW M \in Nat \ {0},
         NEW d, d = EvenBelow(Dividend(t, M), Divisor(t, m, M))
  PROVE  /\ t - d \in Ratio /\ t - (t - d) = d
         /\ d \in Nat /\ d % 2 = 0
         /\ d * Divisor(t, m, M) < Dividend(t, M)
         /\ Dividend(t, M) <= (d + 2) * Divisor(t, m, M)
<1> DEFINE num == Dividend(t, M)
           den == Divisor(t, m, M)
           f == (num - 1) \div den
           S == Scale
<1>1. S \in Nat \ {0}
  BY ScaleAssumption
<1>2. t \in Nat \ {0} /\ t % 2 = 0 /\ t <= MaxTdm /\ t >= 2 /\ MaxTdm \in Nat
  BY ScaleAssumption DEF Ratio
<1>3. num = t * t * M /\ den = m * S + t * M /\ d = f - (f % 2)
  BY DEF EvenBelow, Dividend, Divisor
<1> HIDE DEF S, num, den
<1>4. num \in Nat \ {0} /\ den \in Nat \ {0} /\ t * den = t * (m * S) + num /\ t * (m * S) \in Nat \ {0}
  <2>1. \A x, y \in Nat \ {0} : x * y \in Nat \ {0}
    OBVIOUS
  <2>2. t * t \in Nat \ {0} /\ m * S \in Nat \ {0} /\ t * M \in Nat \ {0}
    BY <1>1, <1>2, <2>1
  <2>3. t * t * M \in Nat \ {0} /\ t * (m * S) \in Nat \ {0}
    BY <1>1, <1>2, <2>1, <2>2
  <2>4. num \in Nat \ {0} /\ den \in Nat \ {0}
    BY <1>3, <2>2, <2>3
  <2>5. t * (m * S + t * M) = t * (m * S) + t * t * M
    BY <1>1, <1>2
  <2> QED
    BY <1>3, <2>3, <2>4, <2>5
<1>5. /\ f \in Nat /\ den * f <= num - 1
      /\ (num - 1) % den \in 0 .. den - 1 /\ num - 1 = den * f + ((num - 1) % den)
  BY <1>4, num - 1 \in Nat, Division
<1> DEFINE rest == (num - 1) % den
<1> HIDE DEF f, rest
<1>6. d \in Nat /\ d % 2 = 0 /\ d <= f /\ d + 2 >= f + 1
  <2>1. f \in Nat /\ d = f - (f % 2)
    BY <1>3, <1>5
  <2>2. f % 2 \in 0 .. 1 /\ f % 2 <= f
    BY <2>1
  <2> QED
    BY ONLY <2>1, <2>2
<1>7. d * den < num
  <2>1. d * den <= f * den /\ f * den = den * f
    BY <1>4, <1>5, <1>6
  <2> DEFINE x == d * den
             y == den * f
  <2>2. x \in Int /\ y \in Int /\ x <= y /\ y <= num - 1
    BY <1>4, <1>5, <1>6, <2>1
  <2> HIDE DEF x, y
  <2>3. x < num
    BY <1>4, <2>2
  <2> QED
    BY <2>3 DEF x
<1>8. num <= (d + 2) * den
  <2> DEFINE x == (d + 2) * den
             y == den * f
             z == (f + 1) * den
  <2>1. rest \in 0 .. den - 1 /\ num - 1 = y + rest
    BY <1>5 DEF rest
  <2>2. x \in Int /\ y \in Int /\ z = y + den /\ z <= x
    <3>1. f \in Nat /\ d \in Nat /\ den \in Nat /\ f + 1 <= d + 2
      BY <1>4, <1>5, <1>6
    <3>2. (f + 1) * den <= (d + 2) * den
      BY ONLY <3>1
    <3>3. (f + 1) * den = den * f + den
      BY ONLY <3>1
    <3> QED
      BY <3>1, <3>2, <3>3
  <2> HIDE DEF x, y, z
  <2>3. num <= x
    BY <1>4, <2>1, <2>2
  <2> QED
    BY <2>3 DEF x
<1>9. d < t
  <2> SUFFICES ASSUME t <= d PROVE FALSE
    BY <1>2, <1>6
  <2>1. t * den <= d * den
    BY <1>2, <1>4, <1>6
  <2> DEFINE x == d * den
             y == t * den
             z == t * (m * S)
  <2>2. x \in Int /\ y <= x /\ x < num /\ y = z + num /\ z \in Nat \ {0}
    BY <1>4, <1>6, <1>7, <2>1
  <2> HIDE DEF x, y, z
  <2> QED
    BY <1>4, <2>2
<1>10. t - d \in Ratio
  <2>1. (t - d) % 2 = 0
    BY <1>2, <1>6
  <2> QED
    BY <1>2, <1>6, <1>9, <2>1 DEF Ratio
<1>11. t - (t - d) = d
  BY <1>2, <1>6
<1> QED
  BY <1>6, <1>7, <1>8, <1>10, <1>11 DEF num, den

\* EvenCeil gives an even number, at least the quotient, and at most any even bound
\* of it.
LEMMA EvenCeiling ==
  ASSUME NEW a \in Nat \ {0}, NEW b \in Nat \ {0}
  PROVE  /\ EvenCeil(a, b) \in Nat /\ EvenCeil(a, b) % 2 = 0 /\ EvenCeil(a, b) >= 2
         /\ a <= EvenCeil(a, b) * b
         /\ EvenCeil(a, b) <= a + 1
<1> DEFINE c == (a + b - 1) \div b
           z == c + (c % 2)
<1>1. EvenCeil(a, b) = z
  BY DEF EvenCeil
<1>2. c \in Nat /\ (a + b - 1) % b \in 0 .. b - 1 /\ a + b - 1 = b * c + ((a + b - 1) % b)
  BY a + b - 1 \in Nat, Division
<1> HIDE DEF c
<1>3. a <= b * c
  BY <1>2
<1>4. c >= 1
  <2>1. c = 0 => b * c = 0
    OBVIOUS
  <2> QED
    BY <1>2, <1>3, <2>1
<1>5. c <= a
  <2>1. b * c <= a + b - 1
    BY <1>2
  <2>2. ASSUME c >= a + 1 PROVE FALSE
    <3>1. b * (a + 1) <= b * c
      BY <1>2, <2>2
    <3>2. b * (a + 1) = b * a + b /\ b * a >= a
      OBVIOUS
    <3> QED
      BY <2>1, <3>1, <3>2, <1>2
  <2> QED
    BY <1>2, <2>2
<1>6. c % 2 \in 0 .. 1 /\ z % 2 = 0
  BY <1>2
<1>7. z \in Nat /\ z >= 2 /\ z <= a + 1
  BY <1>2, <1>4, <1>5, <1>6
<1>8. a <= z * b
  <2>1. b * c <= z * b
    BY <1>2, <1>6
  <2> QED
    BY <1>2, <1>3, <1>7, <2>1
<1> QED
  BY <1>1, <1>6, <1>7, <1>8

-----------------------------------------------------------------------------
(* Lists and their check sums.                                             *)

\* What the shapes say about the list; later on every ratio is a Ratio.
LEMMA ListFacts ==
  ASSUME IInv
  PROVE  /\ Len(pst) \in 1 .. MaxSize /\ Len(pst) \in Nat \ {0} /\ DOMAIN pst = 1 .. Len(pst)
         /\ pst \in [1 .. Len(pst) -> Net] /\ share \in [1 .. Len(pst) -> 1 .. MaxShare]
         /\ \A i \in 1 .. Len(pst) : pst[i].prio \in Prio /\ pst[i].prio \in Nat \ {0}
         /\ pc # "ceil" => \A i \in 1 .. Len(pst) : pst[i].tdm \in Ratio /\ pst[i].tdm \in Nat \ {0}
<1>1. PICK size \in 1 .. MaxSize :
        share \in [1 .. size -> 1 .. MaxShare] /\ pst \in [1 .. size -> Net]
  BY DEF IInv, Shapes
<1>2. size \in Nat /\ size \in Nat \ {0}
  OBVIOUS
<1>3. Len(pst) = size
  <2>1. pst \in Seq(Net) /\ DOMAIN pst = 1 .. size
    BY <1>1, <1>2, IsASeq
  <2> QED
    BY <1>2, <2>1, LenProperties
<1>4. \A i \in 1 .. size : pst[i].prio \in Prio /\ pst[i].prio \in Nat \ {0}
  <2>1. ASSUME NEW i \in 1 .. size PROVE pst[i].prio \in Prio
    BY <1>1 DEF Net
  <2>2. Prio \subseteq Nat \ {0}
    BY ScaleAssumption
  <2> QED
    BY <2>1, <2>2
<1>5. pc # "ceil" => \A i \in 1 .. size : pst[i].tdm \in Ratio /\ pst[i].tdm \in Nat \ {0}
  BY <1>1 DEF IInv, RatioConstraint, TypeOK, Ratio
<1> QED
  BY <1>1, <1>2, <1>3, <1>4, <1>5

\* A list of nets with ratios has a check sum.
LEMMA CheckSumType ==
  ASSUME NEW size \in Nat, NEW s \in [1 .. size -> Net], \A i \in 1 .. size : s[i].tdm \in Ratio
  PROVE  /\ [i \in 1 .. size |-> Scale \div s[i].tdm] \in [1 .. size -> Int]
         /\ CheckSum(s) = SumFunction([i \in 1 .. size |-> Scale \div s[i].tdm])
         /\ CheckSum(s) \in Int
<1> DEFINE q == [i \in 1 .. size |-> Scale \div s[i].tdm]
<1>1. q \in [1 .. size -> Int]
  BY Reciprocal
<1>2. DOMAIN s = 1 .. size
  OBVIOUS
<1>3. CheckSum(s) = SumFunction(q)
  BY <1>2 DEF CheckSum
<1>4. SumFunction(q) \in Int
  <2> HIDE DEF q
  <2> QED
    BY <1>1, PartialSums
<1> QED
  BY <1>1, <1>3, <1>4

\* When the first m nets change from the ratio t to u, the check sum changes by
\* m times the difference of the reciprocals.
LEMMA LeadersCheckSum ==
  ASSUME NEW size \in Nat, NEW s \in [1 .. size -> Net], NEW r \in [1 .. size -> Net],
         \A i \in 1 .. size : s[i].tdm \in Ratio,
         NEW m \in 0 .. size, NEW t \in Ratio, NEW u \in Ratio,
         \A i \in 1 .. m : s[i].tdm = t,
         \A i \in 1 .. size : r[i].tdm = IF i <= m THEN u ELSE s[i].tdm
  PROVE  CheckSum(r) = CheckSum(s) + m * ((Scale \div u) - (Scale \div t))
<1> DEFINE q == [i \in 1 .. size |-> Scale \div s[i].tdm]
           p == [i \in 1 .. size |-> Scale \div r[i].tdm]
           d == (Scale \div u) - (Scale \div t)
<1>1. \A i \in 1 .. size : r[i].tdm \in Ratio
  OBVIOUS
<1>2. q \in [1 .. size -> Int] /\ CheckSum(s) = SumFunction(q)
  BY CheckSumType
<1>3. p \in [1 .. size -> Int] /\ CheckSum(r) = SumFunction(p)
  BY <1>1, CheckSumType
<1>4. d \in Int
  BY Reciprocal
<1>5. ASSUME NEW i \in 1 .. size PROVE p[i] = IF i <= m THEN q[i] + d ELSE q[i]
  <2>1. CASE i <= m
    <3>1. i \in 1 .. m /\ q[i] = Scale \div t /\ p[i] = Scale \div u
      BY <2>1
    <3> QED
      BY <2>1, <3>1, Reciprocal
  <2>2. CASE ~ (i <= m)
    BY <2>2
  <2> QED
    BY <2>1, <2>2
<1> HIDE DEF p, q, d
<1>6. SumFunction(p) = SumFunction(q) + m * d
  BY <1>2, <1>3, <1>4, <1>5, SumShifted
<1> QED
  BY <1>2, <1>3, <1>6 DEF d

\* Sorting leaves the check sum as it is.
LEMMA SortedCheckSum ==
  ASSUME NEW size \in Nat, NEW s \in [1 .. size -> Net], \A i \in 1 .. size : s[i].tdm \in Ratio,
         NEW r \in Sorted(s, Before)
  PROVE  /\ r \in [1 .. size -> Net] /\ \A i \in 1 .. size : r[i].tdm \in Ratio
         /\ CheckSum(r) = CheckSum(s)
         /\ \A i, j \in 1 .. size : i < j => ~Before(r[j], r[i])
<1>1. PICK p \in Injection(1 .. size, 1 .. size) :
        /\ r = [i \in 1 .. size |-> s[p[i]]]
        /\ \A i, j \in 1 .. size : i < j => ~Before(s[p[j]], s[p[i]])
  <2>1. DOMAIN s = 1 .. size
    OBVIOUS
  <2> QED
    BY <2>1 DEF Sorted
<1>2. p \in [1 .. size -> 1 .. size]
  BY DEF Injection
<1>3. r \in [1 .. size -> Net] /\ \A i \in 1 .. size : r[i].tdm \in Ratio
  BY <1>1, <1>2
<1> DEFINE q == [i \in 1 .. size |-> Scale \div s[i].tdm]
<1>4. q \in [1 .. size -> Int] /\ CheckSum(s) = SumFunction(q)
  BY CheckSumType
<1>5. [i \in 1 .. size |-> Scale \div r[i].tdm] = [i \in 1 .. size |-> q[p[i]]]
  BY <1>1, <1>2
<1>6. CheckSum(r) = SumFunction([i \in 1 .. size |-> q[p[i]]])
  BY <1>3, <1>5, CheckSumType
<1>7. SumFunction([i \in 1 .. size |-> q[p[i]]]) = SumFunction(q)
  <2> HIDE DEF q
  <2> QED
    BY <1>4, SumPermuted
<1>8. \A i, j \in 1 .. size : i < j => ~Before(r[j], r[i])
  BY <1>1
<1> QED
  BY <1>3, <1>4, <1>6, <1>7, <1>8

\* The sum of a list of shares is positive and within the bound of the model.
LEMMA ShareSum ==
  ASSUME NEW size \in 1 .. MaxSize, NEW s \in [1 .. size -> 1 .. MaxShare]
  PROVE  SumFunction(s) \in Nat \ {0} /\ SumFunction(s) <= MaxTdm
<1>1. MaxShare \in Nat /\ MaxSize \in Nat /\ MaxTdm \in Nat /\ MaxShare * MaxSize <= MaxTdm
  BY ScaleAssumption
<1>2. size \in Nat /\ s \in [1 .. size -> Int] /\ 1 \in Int /\ MaxShare \in Int
  BY <1>1
<1>3. \A i \in 1 .. size : 1 <= s[i] /\ s[i] <= MaxShare
  BY <1>1
<1>4. SumFunction(s) \in Int /\ 1 * size <= SumFunction(s) /\ SumFunction(s) <= MaxShare * size
  BY ONLY <1>2, <1>3, SumBetween
<1>5. MaxShare * size <= MaxShare * MaxSize
  BY <1>1
<1>6. MaxShare * size <= MaxTdm
  <2> DEFINE a == MaxShare * size
             b == MaxShare * MaxSize
  <2>1. a \in Int /\ b \in Int /\ a <= b /\ b <= MaxTdm
    BY <1>1, <1>2, <1>5
  <2> HIDE DEF a, b
  <2>2. a <= MaxTdm
    BY <1>1, <2>1
  <2> QED
    BY <2>2 DEF a
<1> QED
  <2> DEFINE a == MaxShare * size
             sum == SumFunction(s)
  <2>1. a \in Int /\ sum \in Int /\ size >= 1 /\ size <= sum /\ sum <= a /\ a <= MaxTdm
    BY <1>1, <1>2, <1>4, <1>6
  <2> HIDE DEF a, sum
  <2>2. sum \in Nat \ {0} /\ sum <= MaxTdm
    BY <1>1, <1>2, <2>1
  <2> QED
    BY <2>2 DEF sum

\* The length of a list.
LEMMA LengthOf ==
  ASSUME NEW size \in Nat, NEW X, NEW s \in [1 .. size -> X]
  PROVE  Len(s) = size /\ DOMAIN s = 1 .. size
<1>1. s \in Seq(X) /\ DOMAIN s = 1 .. size
  BY IsASeq
<1> QED
  BY <1>1, LenProperties

-----------------------------------------------------------------------------
(* The loop.                                                               *)

\* VirtualSize stays within the list, and its nets beyond the first are at the
\* threshold.
LEMMA VirtualSizeFacts ==
  ASSUME NEW size \in Nat \ {0}, NEW s \in [1 .. size -> Net]
  PROVE  /\ VirtualSize(s) \in 1 .. size
         /\ \A i \in 2 .. VirtualSize(s) : s[i].prio >= Threshold(s)
<1> DEFINE S == {size} \cup {i \in 1 .. size - 1 : s[i + 1].prio < Threshold(s)}
           v == VirtualSize(s)
<1>1. v = Min(S)
  BY LengthOf DEF VirtualSize
<1>2. S \in SUBSET Nat /\ S # {} /\ size \in S /\ S \subseteq 1 .. size
  OBVIOUS
<1>3. Min(S) \in S /\ \A y \in S : Min(S) <= y
  <2> HIDE DEF S
  <2> QED
    BY <1>2, MinOfNats
<1>4. v \in 1 .. size
  BY <1>1, <1>2, <1>3
<1> HIDE DEF v
<1>5. ASSUME NEW i \in 2 .. v PROVE s[i].prio >= Threshold(s)
  <2>1. i - 1 \in 1 .. size - 1 /\ (i - 1) + 1 = i /\ i \in 1 .. size /\ i - 1 < v
    BY <1>4
  <2>2. i - 1 \notin S
    <3> HIDE DEF S
    <3> QED
      BY <1>1, <1>3, <1>4, <2>1
  <2>3. ~(s[i].prio < Threshold(s))
    BY <2>1, <2>2
  <2>4. \A j \in 1 .. size : s[j].prio \in Nat
    <3>1. Prio \subseteq Nat
      BY ScaleAssumption
    <3>2. \A j \in 1 .. size : s[j].prio \in Prio
      BY DEF Net
    <3> QED
      BY <3>1, <3>2
  <2>5. Threshold(s) \in Nat
    <3>1. Len(s) = size
      BY LengthOf
    <3>2. CASE size > 1 /\ CloseSecond(s)
      <4>1. Threshold(s) = s[2].prio /\ 2 \in 1 .. size
        BY <3>1, <3>2 DEF Threshold
      <4> QED
        BY <2>4, <4>1
    <3>3. CASE ~(size > 1 /\ CloseSecond(s))
      <4>1. Threshold(s) = s[1].prio /\ 1 \in 1 .. size
        BY <3>1, <3>3 DEF Threshold
      <4> QED
        BY <2>4, <4>1
    <3> QED
      BY <3>2, <3>3
  <2> QED
    BY <2>1, <2>3, <2>4, <2>5
<1> QED
  BY <1>4, <1>5 DEF v

\* Where the level that begins with the first a entries ends.
LevelEnd(s, a, size) == Min({j \in a .. size : j = size \/ s[j + 1].tdm # s[1].tdm})

\* A level that is extended over the nets of the same ratio is level, and as long
\* as it can be.
LEMMA Levels ==
  ASSUME NEW size \in Nat, NEW s, NEW a \in 1 .. size, \A i \in 1 .. a : s[i].tdm = s[1].tdm,
         NEW m, m = LevelEnd(s, a, size)
  PROVE  /\ m \in a .. size /\ \A i \in 1 .. m : s[i].tdm = s[1].tdm
         /\ m = size \/ s[m + 1].tdm # s[1].tdm
<1> DEFINE S == {j \in a .. size : j = size \/ s[j + 1].tdm # s[1].tdm}
<1>1. S \in SUBSET Nat /\ S # {} /\ S \subseteq a .. size
  <2>1. size \in a .. size /\ a .. size \subseteq Nat
    OBVIOUS
  <2>2. size \in S /\ S \subseteq a .. size
    BY <2>1
  <2> HIDE DEF S
  <2> QED
    BY <2>1, <2>2
<1>2. m \in S /\ \A y \in S : m <= y
  <2>1. m = Min(S)
    BY DEF LevelEnd
  <2> HIDE DEF S
  <2> QED
    BY ONLY <1>1, <2>1, MinOfNats
<1>3. m \in a .. size
  BY <1>1, <1>2
<1>4. ASSUME NEW i \in 1 .. m PROVE s[i].tdm = s[1].tdm
  <2>1. CASE i <= a
    <3>1. i \in 1 .. a
      BY <2>1
    <3> QED
      BY <3>1
  <2>2. CASE i > a
    <3>1. i - 1 \in a .. size /\ i - 1 < m /\ (i - 1) + 1 = i /\ i - 1 # size
      BY <1>3, <2>2
    <3>2. i - 1 \notin S
      <4> HIDE DEF S
      <4> QED
        BY <1>2, <1>3, <3>1
    <3> QED
      BY <3>1, <3>2
  <2> QED
    BY <1>3, <2>1, <2>2
<1> QED
  BY <1>2, <1>3, <1>4

\* What the loop has whenever it tests its condition: nets to lower, of one ratio,
\* and a positive margin.
LEMMA LoopFacts ==
  ASSUME IInv, pc = "loop"
  PROVE  /\ n \in Nat \ {0} /\ LevelSize \in Nat \ {0} /\ virtualSize \in Nat
         /\ n <= LevelSize /\ LevelSize <= virtualSize /\ virtualSize <= Len(pst)
         /\ \A i \in 1 .. LevelSize : pst[i].tdm = pst[1].tdm
         /\ Margin \in Nat \ {0} /\ CheckSum(pst) \in Int /\ CheckSum(pst) = Scale - Margin
<1> DEFINE level == LevelSize
<1>1. Len(pst) \in Nat \ {0} /\ n \in 1 .. Len(pst) /\ virtualSize \in 0 .. Len(pst)
  BY ListFacts DEF IInv, RatioConstraint, TypeOK
<1>2. n <= virtualSize /\ \A i \in 1 .. n : pst[i].tdm = pst[1].tdm
  BY DEF IInv, LeadersLevel
<1>3. level = LevelEnd(pst, n, virtualSize)
  BY DEF LevelSize, LevelEnd
<1>4. virtualSize \in Nat /\ n \in 1 .. virtualSize
  BY <1>1, <1>2
<1>5. level \in n .. virtualSize /\ \A i \in 1 .. level : pst[i].tdm = pst[1].tdm
  <2> HIDE DEF level
  <2> QED
    BY ONLY <1>2, <1>3, <1>4, Levels
<1>6. level \in Nat \ {0}
  BY <1>1, <1>5
<1> HIDE DEF level
<1>8. CheckSum(pst) \in Int
  <2>1. Len(pst) \in Nat /\ pst \in [1 .. Len(pst) -> Net] /\ \A i \in 1 .. Len(pst) : pst[i].tdm \in Ratio
    BY ListFacts
  <2> QED
    BY <2>1, CheckSumType
<1>9. CheckSum(pst) < Scale /\ Scale \in Nat
  BY ScaleAssumption DEF IInv, RatioConstraint
<1>10. Margin \in Nat \ {0} /\ CheckSum(pst) = Scale - Margin
  BY <1>8, <1>9 DEF Margin
<1> QED
  BY <1>1, <1>4, <1>5, <1>6, <1>8, <1>10 DEF level

\* The leading nets may come down by less than the quotient of the code, or go up.
LEMMA LeadersMoved ==
  ASSUME IInv, pc = "loop", NEW u \in Ratio,
         u >= pst[1].tdm \/ (pst[1].tdm - u) * Denominator < Numerator,
         NEW r \in [1 .. Len(pst) -> Net],
         \A i \in 1 .. Len(pst) : r[i].tdm = IF i <= LevelSize THEN u ELSE pst[i].tdm
  PROVE  /\ \A i \in 1 .. Len(pst) : r[i].tdm \in Ratio
         /\ CheckSum(r) < Scale
<1> DEFINE size == Len(pst)
           t == pst[1].tdm
           m == LevelSize
           M == Margin
           d == (Scale \div u) - (Scale \div t)
<1>1. size \in Nat \ {0} /\ pst \in [1 .. size -> Net] /\ \A i \in 1 .. size : pst[i].tdm \in Ratio
  BY ListFacts
<1>2. m \in 1 .. size /\ m \in Nat \ {0} /\ \A i \in 1 .. m : pst[i].tdm = t
  BY <1>1, LoopFacts
<1>3. M \in Nat \ {0} /\ CheckSum(pst) \in Int /\ CheckSum(pst) = Scale - M /\ Scale \in Nat
  BY LoopFacts, ScaleAssumption
<1>4. t \in Ratio
  BY <1>1
<1>5. u >= t \/ (t - u) * (m * Scale + t * M) < t * t * M
  BY DEF Denominator, Numerator
<1> HIDE DEF m, M, t, size
<1>6. \A i \in 1 .. size : r[i].tdm = IF i <= m THEN u ELSE pst[i].tdm
  BY DEF m, size
<1>7. CheckSum(r) = CheckSum(pst) + m * d
  <2>1. size \in Nat /\ m \in 0 .. size /\ r \in [1 .. size -> Net]
    BY <1>1, <1>2 DEF size
  <2>2. ASSUME NEW l \in 0 .. size, NEW x \in Ratio, NEW y \in Ratio, \A i \in 1 .. l : pst[i].tdm = x,
               \A i \in 1 .. size : r[i].tdm = IF i <= l THEN y ELSE pst[i].tdm
        PROVE  CheckSum(r) = CheckSum(pst) + l * ((Scale \div y) - (Scale \div x))
    BY ONLY <1>1, <2>1, <2>2, LeadersCheckSum
  <2> QED
    BY ONLY <1>2, <1>4, <1>6, <2>1, <2>2, u \in Ratio
<1>8. d \in Int
  BY <1>4, Reciprocal
<1>9. m * d < M
  <2>1. CASE u >= t
    <3>1. t <= u
      BY <1>4, <2>1 DEF Ratio
    <3>2. d <= 0
      BY <1>4, <3>1, Reciprocal, ReciprocalOrder
    <3> HIDE DEF d
    <3>3. m * d <= 0
      BY <1>2, <1>8, <3>2
    <3>4. m * d \in Int
      BY <1>2, <1>8
    <3> DEFINE x == m * d
    <3> HIDE DEF x
    <3> QED
      BY <1>3, <3>3, <3>4 DEF x
  <2>2. CASE ~(u >= t)
    <3>1. u <= t
      BY <1>4, <2>2 DEF Ratio
    <3> QED
      BY <1>2, <1>3, <1>4, <1>5, <2>2, <3>1, Lowering
  <2> QED
    BY <2>1, <2>2
<1>10. CheckSum(r) < Scale
  <2> DEFINE x == m * d
  <2>1. x \in Int
    <3> HIDE DEF d
    <3> QED
      BY <1>2, <1>8
  <2> HIDE DEF x
  <2> QED
    BY <1>3, <1>7, <1>9, <2>1 DEF x
<1>11. \A i \in 1 .. size : r[i].tdm \in Ratio
  BY <1>1, <1>6
<1> QED
  BY <1>10, <1>11 DEF size

\* The even decrement stays below the quotient and leaves a ratio.
LEMMA Decrement ==
  ASSUME IInv, pc = "loop"
  PROVE  /\ pst[1].tdm - EvenDecrement \in Ratio
         /\ pst[1].tdm - (pst[1].tdm - EvenDecrement) = EvenDecrement
         /\ EvenDecrement \in Nat
         /\ EvenDecrement * Denominator < Numerator
<1>1. pst[1].tdm \in Ratio /\ LevelSize \in Nat \ {0} /\ Margin \in Nat \ {0}
  BY ListFacts, LoopFacts
<1>2. /\ Numerator = Dividend(pst[1].tdm, Margin)
      /\ Denominator = Divisor(pst[1].tdm, LevelSize, Margin)
      /\ EvenDecrement = EvenBelow(Numerator, Denominator)
  BY DEF Numerator, Denominator, EvenDecrement, Dividend, Divisor, EvenBelow
<1> QED
  BY ONLY <1>1, <1>2, EvenQuotient

-----------------------------------------------------------------------------
(* The invariant.                                                          *)

\* What a step that leaves an edge of ratios has to show.
LEMMA NextConstraint ==
  ASSUME NEW size \in 1 .. MaxSize, size \in Nat \ {0},
         share' \in [1 .. size -> 1 .. MaxShare], pst' \in [1 .. size -> Net],
         \A i \in 1 .. size : pst'[i].tdm \in Ratio,
         pc' \in {"check", "loop", "refine", "done"},
         n' \in 1 .. size, k' \in 1 .. size + 1, virtualSize' \in 0 .. size,
         CheckSum(pst') <= Scale, pc' \in {"loop", "refine"} => CheckSum(pst') < Scale
  PROVE  Shapes' /\ RatioConstraint'
<1>1. Len(pst') = size /\ DOMAIN pst' = 1 .. size
  BY LengthOf
<1>2. Shapes'
  BY DEF Shapes
<1>3. \A i \in 1 .. size : pst'[i].prio \in Prio
  BY DEF Net
<1>4. \A i \in 1 .. size : pst'[i].tdm \in 2 .. MaxTdm /\ pst'[i].tdm % 2 = 0
  BY DEF Ratio
<1>5. TypeOK'
  BY <1>1, <1>3, <1>4 DEF TypeOK
<1> QED
  BY <1>2, <1>5 DEF RatioConstraint

\* The edge starts with its shares and no ratios.
LEMMA InitInv == Init => IInv
<1> SUFFICES ASSUME Init PROVE IInv
  OBVIOUS
<1>1. PICK size \in 1 .. MaxSize :
        /\ share \in [1 .. size -> 1 .. MaxShare]
        /\ \E p \in [1 .. size -> Prio] : pst = [i \in 1 .. size |-> [prio |-> p[i], tdm |-> 0]]
  BY DEF Init
<1>2. PICK p \in [1 .. size -> Prio] : pst = [i \in 1 .. size |-> [prio |-> p[i], tdm |-> 0]]
  BY <1>1
<1>3. size \in Nat \ {0}
  OBVIOUS
<1>4. pst \in [1 .. size -> Net]
  <2>1. \A i \in 1 .. size : [prio |-> p[i], tdm |-> 0] \in Net
    BY DEF Net
  <2> QED
    BY <1>2, <2>1
<1>5. Len(pst) = size /\ DOMAIN pst = 1 .. size
  BY <1>3, <1>4, LengthOf
<1>6. pc = "ceil" /\ n = 1 /\ k = 1 /\ virtualSize = 0
  BY DEF Init
<1>7. Shapes
  BY <1>1, <1>4 DEF Shapes
<1>8. TypeOK
  <2>1. \A i \in 1 .. size : pst[i].prio \in Prio
    BY <1>4 DEF Net
  <2> QED
    BY <1>3, <1>5, <1>6, <2>1 DEF TypeOK
<1> QED
  BY <1>6, <1>7, <1>8 DEF IInv, CountersWait, StaysSorted, LeadersLevel, RatioConstraint

\* The ceiling: the reciprocals of the rounded ratios add up to at most 1, because
\* each ratio is at least the quotient of all shares and its own.
LEMMA TakeCeilingInv == IInv /\ TakeCeiling => IInv'
<1> SUFFICES ASSUME IInv, TakeCeiling PROVE IInv'
  OBVIOUS
<1> DEFINE size == Len(pst)
           total == SumFunction(share)
           q == [i \in 1 .. size |-> Scale \div pst'[i].tdm]
<1>1. /\ size \in 1 .. MaxSize /\ size \in Nat \ {0} /\ DOMAIN pst = 1 .. size
      /\ pst \in [1 .. size -> Net] /\ share \in [1 .. size -> 1 .. MaxShare]
  BY ListFacts
<1>2. n \in 1 .. size /\ k \in 1 .. size + 1 /\ virtualSize \in 0 .. size
  BY DEF IInv, RatioConstraint, TypeOK
<1>3. n = 1 /\ k = 1
  BY DEF IInv, CountersWait, TakeCeiling
<1>4. total \in Nat \ {0} /\ total <= MaxTdm
  BY <1>1, ShareSum
<1>5. pst' = [i \in 1 .. size |-> [pst[i] EXCEPT !.tdm = EvenCeil(total, share[i])]]
  BY <1>1 DEF TakeCeiling
<1>6. pc' = "check" /\ share' = share /\ virtualSize' = virtualSize /\ n' = n /\ k' = k
  BY DEF TakeCeiling
<1> HIDE DEF size, total
<1>7. ASSUME NEW i \in 1 .. size
      PROVE  /\ EvenCeil(total, share[i]) \in Ratio /\ EvenCeil(total, share[i]) \in Nat
             /\ total <= EvenCeil(total, share[i]) * share[i]
  <2> DEFINE b == share[i]
             z == EvenCeil(total, b)
  <2>1. MaxTdm \in Nat /\ MaxTdm % 2 = 0 /\ MaxShare \in Nat
    BY ScaleAssumption
  <2>2. b \in Nat \ {0}
    <3>1. b \in 1 .. MaxShare
      BY <1>1
    <3> QED
      BY <2>1, <3>1
  <2> HIDE DEF b
  <2>3. z \in Nat /\ z % 2 = 0 /\ z >= 2 /\ total <= z * b /\ z <= total + 1
    BY <1>4, <2>2, EvenCeiling
  <2> HIDE DEF z
  <2>4. z <= MaxTdm
    <3>1. total % 2 \in 0 .. 1 /\ total \in Nat
      BY <1>4
    <3> QED
      BY <1>4, <2>1, <2>3, <3>1
  <2> QED
    BY <2>1, <2>3, <2>4 DEF Ratio, z, b
<1>8. ASSUME NEW i \in 1 .. size
      PROVE  pst'[i] \in Net /\ pst'[i].tdm = EvenCeil(total, share[i])
  <2>1. pst[i] \in Net
    BY <1>1
  <2>2. pst'[i] = [pst[i] EXCEPT !.tdm = EvenCeil(total, share[i])]
    BY <1>5
  <2>3. EvenCeil(total, share[i]) \in Nat
    BY <1>7
  <2> QED
    BY <2>1, <2>2, <2>3 DEF Net
<1>9. pst' \in [1 .. size -> Net]
  <2>1. DOMAIN pst' = 1 .. size /\ pst' = [i \in 1 .. size |-> pst'[i]]
    BY <1>5
  <2> QED
    BY <1>8, <2>1
<1>10. \A i \in 1 .. size : pst'[i].tdm \in Ratio
  BY <1>7, <1>8
<1>11. q \in [1 .. size -> Int] /\ CheckSum(pst') = SumFunction(q) /\ SumFunction(q) \in Int
  BY <1>1, <1>9, <1>10, CheckSumType
<1>12. \A i \in 1 .. size : total * q[i] <= Scale * share[i]
  <2> SUFFICES ASSUME NEW i \in 1 .. size PROVE total * q[i] <= Scale * share[i]
    OBVIOUS
  <2> DEFINE z == EvenCeil(total, share[i])
             a == Scale \div z
             b == share[i]
             S == Scale
  <2>1. z \in Ratio /\ z \in Nat /\ total <= z * b
    BY <1>7
  <2>2. a \in Nat /\ z * a = S
    BY <2>1, Reciprocal
  <2>3. q[i] = a
    BY <1>8
  <2>4. b \in Nat
    <3>1. share[i] \in 1 .. MaxShare /\ MaxShare \in Nat
      BY <1>1, ScaleAssumption
    <3> QED
      BY <3>1
  <2> HIDE DEF z, a, b, S
  <2>5. total * a <= (z * b) * a
    <3> DEFINE y == z * b
    <3>1. y \in Nat /\ total <= y
      BY <2>1, <2>4
    <3> HIDE DEF y
    <3>2. total * a <= y * a
      BY <1>4, <2>2, <3>1
    <3> QED
      BY <3>2 DEF y
  <2>6. (z * b) * a = S * b
    BY <2>1, <2>2, <2>4
  <2>7. total * a <= S * b
    BY <2>5, <2>6
  <2> QED
    BY <2>3, <2>7 DEF S, b
<1>13. total * SumFunction(q) <= Scale * total
  <2>1. share \in [1 .. size -> Int] /\ total \in Int /\ Scale \in Int /\ size \in Nat
    BY <1>1, <1>4, ScaleAssumption
  <2> HIDE DEF q
  <2>2. total * SumFunction(q) <= Scale * SumFunction(share)
    BY <1>11, <1>12, <2>1, SumScaled
  <2> QED
    BY <2>2 DEF total
<1>14. CheckSum(pst') <= Scale
  <2> DEFINE x == SumFunction(q)
  <2>1. x \in Int /\ total * x <= Scale * total /\ Scale \in Nat
    BY <1>11, <1>13, ScaleAssumption
  <2> HIDE DEF x
  <2>2. x * total <= Scale * total
    BY <1>4, <2>1
  <2>3. x <= Scale
    BY <1>4, <2>1, <2>2, Products
  <2> QED
    BY <1>11, <2>3 DEF x
<1>15. Shapes' /\ RatioConstraint'
  BY <1>1, <1>2, <1>6, <1>9, <1>10, <1>14, NextConstraint
<1> QED
  BY <1>3, <1>6, <1>15 DEF IInv, CountersWait, StaysSorted, LeadersLevel

\* A step that leaves the nets as they are and ends the legalisation.
LEMMA EndsInv ==
  ASSUME IInv, pc # "ceil", pc' = "done", UNCHANGED <<share, pst, virtualSize, n, k>>
  PROVE  IInv'
<1> DEFINE size == Len(pst)
<1>1. /\ size \in 1 .. MaxSize /\ size \in Nat \ {0}
      /\ pst \in [1 .. size -> Net] /\ share \in [1 .. size -> 1 .. MaxShare]
      /\ \A i \in 1 .. size : pst[i].tdm \in Ratio
  BY ListFacts
<1>2. n \in 1 .. size /\ k \in 1 .. size + 1 /\ virtualSize \in 0 .. size /\ CheckSum(pst) <= Scale
  BY DEF IInv, RatioConstraint, TypeOK
<1>3. pst' = pst /\ share' = share /\ n' = n /\ k' = k /\ virtualSize' = virtualSize
  OBVIOUS
<1>4. CheckSum(pst') = CheckSum(pst)
  BY <1>3
<1> HIDE DEF size
<1>5. Shapes' /\ RatioConstraint'
  BY <1>1, <1>2, <1>3, <1>4, NextConstraint
<1> QED
  BY <1>5 DEF IInv, CountersWait, StaysSorted, LeadersLevel

\* The sort: the check sum stays, and the list is in the order of the comparison.
LEMMA SortByPriorityInv == IInv /\ SortByPriority => IInv'
<1> SUFFICES ASSUME IInv, SortByPriority PROVE IInv'
  OBVIOUS
<1> DEFINE size == Len(pst)
<1>1. /\ size \in 1 .. MaxSize /\ size \in Nat \ {0}
      /\ pst \in [1 .. size -> Net] /\ share \in [1 .. size -> 1 .. MaxShare]
      /\ \A i \in 1 .. size : pst[i].tdm \in Ratio
  BY ListFacts DEF SortByPriority
<1>2. n \in 1 .. size /\ k \in 1 .. size + 1 /\ n = 1 /\ k = 1
  BY DEF IInv, RatioConstraint, TypeOK, CountersWait, SortByPriority
<1>3. /\ pc' = "loop" /\ share' = share /\ n' = n /\ k' = k
      /\ pst' \in Sorted(pst, Before) /\ virtualSize' = VirtualSize(pst') /\ Margin > 0
  BY DEF SortByPriority
<1> HIDE DEF size
<1>4. /\ pst' \in [1 .. size -> Net] /\ \A i \in 1 .. size : pst'[i].tdm \in Ratio
      /\ CheckSum(pst') = CheckSum(pst)
      /\ \A i, j \in 1 .. size : i < j => ~Before(pst'[j], pst'[i])
  BY <1>1, <1>3, SortedCheckSum
<1>5. CheckSum(pst') < Scale /\ CheckSum(pst') <= Scale
  <2>0. size \in Nat
    BY <1>1
  <2>1. CheckSum(pst) \in Int
    BY <1>1, <2>0, CheckSumType
  <2>2. Scale \in Nat /\ Scale - CheckSum(pst) > 0
    BY <1>3, ScaleAssumption DEF Margin
  <2> QED
    BY <1>4, <2>1, <2>2
<1>6. virtualSize' \in 1 .. size /\ \A i \in 2 .. virtualSize' : pst'[i].prio >= Threshold(pst')
  BY <1>1, <1>3, <1>4, VirtualSizeFacts
<1>7. Shapes' /\ RatioConstraint'
  <2>1. virtualSize' \in 0 .. size
    BY <1>1, <1>6
  <2> QED
    BY <1>1, <1>2, <1>3, <1>4, <1>5, <2>1, NextConstraint
<1>8. DOMAIN pst' = 1 .. size
  BY <1>4
<1>9. StaysSorted'
  <2> SUFFICES ASSUME NEW i \in 1 .. size, NEW j \in 1 .. size, i < j
               PROVE  /\ pst'[i].prio >= pst'[j].prio
                      /\ pst'[i].prio = pst'[j].prio => pst'[i].tdm >= pst'[j].tdm
    BY <1>8 DEF StaysSorted
  <2>1. ~Before(pst'[j], pst'[i])
    BY <1>4
  <2>2. pst'[i] \in Net /\ pst'[j] \in Net
    BY <1>4
  <2>3. Prio \subseteq Nat
    BY ScaleAssumption
  <2>4. pst'[i].prio \in Nat /\ pst'[j].prio \in Nat /\ pst'[i].tdm \in Nat /\ pst'[j].tdm \in Nat
    BY <2>2, <2>3 DEF Net
  <2> QED
    BY <2>1, <2>4 DEF Before
<1>10. LeadersLevel'
  <2>1. n' = 1
    BY <1>2, <1>3
  <2>2. n' <= virtualSize'
    BY <1>1, <1>6, <2>1
  <2>3. \A i \in 1 .. n' : pst'[i].tdm = pst'[1].tdm
    BY <2>1
  <2> QED
    BY <1>6, <2>2, <2>3 DEF LeadersLevel
<1> QED
  BY <1>2, <1>3, <1>7, <1>9, <1>10 DEF IInv, CountersWait

\* The leading nets come down to the next one, or up to it: they stay level with one
\* another and in their place among the others.
LEMMA LevelWithNextInv == IInv /\ LevelWithNext => IInv'
<1> SUFFICES ASSUME IInv, LevelWithNext PROVE IInv'
  OBVIOUS
<1> DEFINE size == Len(pst)
           m == LevelSize
           t == pst[1].tdm
           u == pst[m + 1].tdm
<1>0. pc = "loop" /\ pc' = "loop" /\ share' = share /\ virtualSize' = virtualSize /\ k' = k /\ n' = m
  BY DEF LevelWithNext
<1>1. /\ size \in 1 .. MaxSize /\ size \in Nat \ {0} /\ DOMAIN pst = 1 .. size
      /\ pst \in [1 .. size -> Net] /\ share \in [1 .. size -> 1 .. MaxShare]
      /\ \A i \in 1 .. size : pst[i].tdm \in Ratio /\ pst[i].tdm \in Nat
      /\ \A i \in 1 .. size : pst[i].prio \in Nat
  BY <1>0, ListFacts
<1>2. /\ k \in 1 .. size + 1 /\ virtualSize \in 0 .. size /\ k = 1
      /\ m \in Nat \ {0} /\ m < virtualSize /\ virtualSize <= size
      /\ Numerator > (t - u) * Denominator
  BY <1>0, LoopFacts DEF IInv, RatioConstraint, TypeOK, CountersWait, LevelWithNext, ReachesNext
<1>3. m + 1 \in 1 .. size /\ m \in 1 .. size /\ u \in Ratio /\ u \in Nat
  BY <1>1, <1>2
<1>4. pst' = [i \in 1 .. size |-> IF i <= m THEN [pst[i] EXCEPT !.tdm = u] ELSE pst[i]]
  BY <1>1 DEF LevelWithNext
<1> HIDE DEF size, m, t, u
<1>5. ASSUME NEW i \in 1 .. size
      PROVE  /\ pst'[i] \in Net /\ pst'[i].prio = pst[i].prio
             /\ pst'[i].tdm = IF i <= m THEN u ELSE pst[i].tdm
  <2>1. pst[i] \in Net
    BY <1>1
  <2>2. pst'[i] = IF i <= m THEN [pst[i] EXCEPT !.tdm = u] ELSE pst[i]
    BY <1>4
  <2>3. CASE i <= m
    BY <1>3, <2>1, <2>2, <2>3 DEF Net
  <2>4. CASE ~(i <= m)
    BY <2>1, <2>2, <2>4
  <2> QED
    BY <2>3, <2>4
<1>6. pst' \in [1 .. size -> Net]
  <2>1. DOMAIN pst' = 1 .. size /\ pst' = [i \in 1 .. size |-> pst'[i]]
    BY <1>4
  <2> QED
    BY <1>5, <2>1
<1>7. (\A i \in 1 .. size : pst'[i].tdm \in Ratio) /\ CheckSum(pst') < Scale
  <2>1. (t - u) * Denominator < Numerator
    <3>1. t \in Nat /\ (t - u) \in Int
      BY <1>1, <1>3 DEF t
    <3> QED
      BY <1>2
  <2>2. \A i \in 1 .. size : pst'[i].tdm = IF i <= m THEN u ELSE pst[i].tdm
    BY <1>5
  <2> QED
    BY <1>0, <1>3, <1>6, <2>1, <2>2, LeadersMoved DEF size, m, t
<1>8. CheckSum(pst') <= Scale
  <2>0. size \in Nat
    BY <1>1
  <2>1. \A i \in 1 .. size : pst'[i].tdm \in Ratio
    BY <1>7
  <2>2. CheckSum(pst') \in Int
    BY <1>6, <2>0, <2>1, CheckSumType
  <2>3. Scale \in Nat
    BY ScaleAssumption
  <2> QED
    BY <1>7, <2>2, <2>3
<1>9. Shapes' /\ RatioConstraint'
  BY <1>0, <1>1, <1>2, <1>3, <1>6, <1>7, <1>8, NextConstraint
<1>10. DOMAIN pst' = 1 .. size
  BY <1>4
<1>11. \A i, j \in 1 .. size : i < j =>
         /\ pst[i].prio >= pst[j].prio
         /\ pst[i].prio = pst[j].prio => pst[i].tdm >= pst[j].tdm
  BY <1>0, <1>1 DEF IInv, StaysSorted
<1>12. StaysSorted'
  <2> SUFFICES ASSUME NEW i \in 1 .. size, NEW j \in 1 .. size, i < j
               PROVE  /\ pst'[i].prio >= pst'[j].prio
                      /\ pst'[i].prio = pst'[j].prio => pst'[i].tdm >= pst'[j].tdm
    BY <1>10 DEF StaysSorted
  <2>1. pst'[i].prio = pst[i].prio /\ pst'[j].prio = pst[j].prio /\ pst[i].prio >= pst[j].prio
    BY <1>5, <1>11
  <2>2. ASSUME pst[i].prio = pst[j].prio PROVE pst'[i].tdm >= pst'[j].tdm
    <3>1. CASE j <= m
      <4>1. i <= m
        BY <1>2, <3>1
      <4>2. pst'[i].tdm = u /\ pst'[j].tdm = u
        BY <1>5, <3>1, <4>1
      <4> QED
        BY <1>3, <4>2
    <3>2. CASE i <= m /\ ~(j <= m)
      <4>1. pst'[i].tdm = u /\ pst'[j].tdm = pst[j].tdm
        BY <1>5, <3>2
      <4>2. CASE j = m + 1
        BY <1>3, <4>1, <4>2 DEF u
      <4>3. CASE j # m + 1
        <5>1. i < m + 1 /\ m + 1 < j
          BY <1>2, <3>2, <4>3
        <5>2. pst[i].prio >= pst[m + 1].prio /\ pst[m + 1].prio >= pst[j].prio
          BY <1>3, <1>11, <5>1
        <5>3. pst[m + 1].prio = pst[j].prio
          BY <1>1, <1>3, <2>2, <5>2
        <5>4. pst[m + 1].tdm >= pst[j].tdm
          BY <1>3, <1>11, <5>1, <5>3
        <5> QED
          BY <4>1, <5>4 DEF u
      <4> QED
        BY <4>2, <4>3
    <3>3. CASE ~(i <= m) /\ ~(j <= m)
      BY <1>5, <1>11, <2>2, <3>3
    <3> QED
      BY <1>2, <3>1, <3>2, <3>3
  <2> QED
    BY <2>1, <2>2
<1>13. LeadersLevel'
  <2>1. n' <= virtualSize'
    BY <1>0, <1>2
  <2>2. \A i \in 1 .. n' : pst'[i].tdm = pst'[1].tdm
    <3>1. ASSUME NEW i \in 1 .. m PROVE pst'[i].tdm = u
      <4>0. m \in Nat /\ size \in Nat /\ m <= size
        BY <1>1, <1>3
      <4>1. i \in 1 .. size /\ i <= m
        BY <4>0
      <4> QED
        BY <1>5, <4>1
    <3>2. 1 \in 1 .. m
      BY <1>2
    <3> QED
      BY <1>0, <3>1, <3>2
  <2>3. Threshold(pst') = Threshold(pst)
    <3>1. Len(pst') = size /\ Len(pst) = size
      BY <1>1, <1>6, LengthOf
    <3>2. 1 \in 1 .. size /\ (size > 1 => 2 \in 1 .. size)
      BY <1>1
    <3>3. pst'[1].prio = pst[1].prio /\ (size > 1 => pst'[2].prio = pst[2].prio)
      BY <1>5, <3>2
    <3> QED
      BY <3>1, <3>3 DEF Threshold, CloseSecond
  <2>4. ASSUME NEW i \in 2 .. virtualSize' PROVE pst'[i].prio >= Threshold(pst')
    <3>1. i \in 2 .. virtualSize /\ i \in 1 .. size
      BY <1>0, <1>1, <1>2
    <3>2. pst[i].prio >= Threshold(pst)
      BY <1>0, <3>1 DEF IInv, LeadersLevel
    <3> QED
      BY <1>5, <2>3, <3>1, <3>2
  <2> QED
    BY <2>1, <2>2, <2>4 DEF LeadersLevel
<1> QED
  BY <1>0, <1>2, <1>9, <1>12, <1>13 DEF IInv, CountersWait

\* The last pass of the loop: the even decrement uses less than the margin.
LEMMA LowerLevelInv == IInv /\ LowerLevel => IInv'
<1> SUFFICES ASSUME IInv, LowerLevel PROVE IInv'
  OBVIOUS
<1> DEFINE size == Len(pst)
           m == LevelSize
           t == pst[1].tdm
           u == t - EvenDecrement
<1>0. pc = "loop" /\ pc' = "refine" /\ share' = share /\ virtualSize' = virtualSize /\ k' = k /\ n' = m
  BY DEF LowerLevel
<1>1. /\ size \in 1 .. MaxSize /\ size \in Nat \ {0} /\ DOMAIN pst = 1 .. size
      /\ pst \in [1 .. size -> Net] /\ share \in [1 .. size -> 1 .. MaxShare]
      /\ \A i \in 1 .. size : pst[i].tdm \in Ratio /\ pst[i].tdm \in Nat
  BY <1>0, ListFacts
<1>2. /\ k \in 1 .. size + 1 /\ virtualSize \in 0 .. size
      /\ m \in Nat \ {0} /\ m <= virtualSize /\ virtualSize <= size
      /\ \A i \in 1 .. m : pst[i].tdm = t
  BY <1>0, LoopFacts DEF IInv, RatioConstraint, TypeOK
<1>3. m \in 1 .. size
  BY <1>1, <1>2
<1>4. u \in Ratio /\ u \in Nat /\ (t - u) * Denominator < Numerator
  <2>1. u \in Ratio /\ t - u = EvenDecrement /\ EvenDecrement * Denominator < Numerator
    BY <1>0, Decrement
  <2> QED
    BY <2>1 DEF Ratio
<1>5. pst' = [i \in 1 .. size |-> IF i <= m THEN [pst[i] EXCEPT !.tdm = @ - EvenDecrement] ELSE pst[i]]
  BY <1>1 DEF LowerLevel
<1>6. ASSUME NEW i \in 1 .. size
      PROVE  pst'[i] \in Net /\ pst'[i].tdm = IF i <= m THEN u ELSE pst[i].tdm
  <2>1. pst[i] \in Net
    BY <1>1
  <2>2. pst'[i] = IF i <= m THEN [pst[i] EXCEPT !.tdm = pst[i].tdm - EvenDecrement] ELSE pst[i]
    BY <1>5
  <2>3. CASE i <= m
    <3>1. i \in 1 .. m
      BY <1>2, <2>3
    <3>2. pst[i].tdm - EvenDecrement = u
      BY <1>2, <3>1
    <3>3. pst'[i] = [pst[i] EXCEPT !.tdm = u]
      BY <2>2, <2>3, <3>2
    <3> HIDE DEF u, t, m
    <3> QED
      BY <1>4, <2>1, <2>3, <3>3 DEF Net
  <2>4. CASE ~(i <= m)
    <3> HIDE DEF u, t, m
    <3> QED
      BY <2>1, <2>2, <2>4
  <2> QED
    BY <2>3, <2>4
<1> HIDE DEF size, m, t, u
<1>7. pst' \in [1 .. size -> Net]
  <2>1. DOMAIN pst' = 1 .. size /\ pst' = [i \in 1 .. size |-> pst'[i]]
    BY <1>5
  <2> QED
    BY <1>6, <2>1
<1>8. (\A i \in 1 .. size : pst'[i].tdm \in Ratio) /\ CheckSum(pst') < Scale
  <2>1. \A i \in 1 .. size : pst'[i].tdm = IF i <= m THEN u ELSE pst[i].tdm
    BY <1>6
  <2> QED
    BY <1>0, <1>4, <1>7, <2>1, LeadersMoved DEF size, m, t
<1>9. CheckSum(pst') <= Scale
  <2>1. size \in Nat /\ \A i \in 1 .. size : pst'[i].tdm \in Ratio
    BY <1>1, <1>8
  <2>2. CheckSum(pst') \in Int
    BY <1>7, <2>1, CheckSumType
  <2>3. Scale \in Nat
    BY ScaleAssumption
  <2> QED
    BY <1>8, <2>2, <2>3
<1>10. Shapes' /\ RatioConstraint'
  BY <1>0, <1>1, <1>2, <1>3, <1>7, <1>8, <1>9, NextConstraint
<1> QED
  BY <1>0, <1>10 DEF IInv, CountersWait, StaysSorted, LeadersLevel

\* The refinement: the check of the code is the constraint itself.
LEMMA RefineNextInv == IInv /\ RefineNext => IInv'
<1> SUFFICES ASSUME IInv, RefineNext PROVE IInv'
  OBVIOUS
<1> DEFINE size == Len(pst)
<1>0. /\ pc = "refine" /\ pc' = "refine" /\ share' = share /\ virtualSize' = virtualSize /\ n' = n
      /\ k' = k + 1 /\ k <= size /\ pst' = LoweredAt(k)
      /\ pst[k].tdm > 2 /\ CheckSum(pst') < Scale
  BY DEF RefineNext, CanLower
<1>1. /\ size \in 1 .. MaxSize /\ size \in Nat \ {0} /\ DOMAIN pst = 1 .. size
      /\ pst \in [1 .. size -> Net] /\ share \in [1 .. size -> 1 .. MaxShare]
      /\ \A i \in 1 .. size : pst[i].tdm \in Ratio
  BY <1>0, ListFacts
<1>2. n \in 1 .. size /\ k \in 1 .. size + 1 /\ virtualSize \in 0 .. size
  BY DEF IInv, RatioConstraint, TypeOK
<1> HIDE DEF size
<1>3. k \in 1 .. size /\ k' \in 1 .. size + 1
  BY <1>0, <1>1, <1>2
<1>4. pst' = [pst EXCEPT ![k].tdm = pst[k].tdm - 2]
  BY <1>0 DEF LoweredAt
<1>5. pst[k].tdm - 2 \in Ratio /\ pst[k].tdm - 2 \in Nat
  <2>1. pst[k].tdm \in Ratio /\ MaxTdm \in Nat
    BY <1>1, <1>3, ScaleAssumption
  <2> QED
    BY <1>0, <2>1 DEF Ratio
<1>6. ASSUME NEW i \in 1 .. size PROVE pst'[i] \in Net /\ pst'[i].tdm \in Ratio
  <2>1. pst[i] \in Net /\ pst[i].tdm \in Ratio
    BY <1>1
  <2>2. CASE i = k
    <3>1. pst'[i] = [pst[i] EXCEPT !.tdm = pst[k].tdm - 2]
      BY <1>1, <1>4, <2>2
    <3> QED
      BY <1>5, <2>1, <3>1 DEF Net
  <2>3. CASE i # k
    <3>1. pst'[i] = pst[i]
      BY <1>1, <1>4, <2>3
    <3> QED
      BY <2>1, <3>1
  <2> QED
    BY <2>2, <2>3
<1>7. pst' \in [1 .. size -> Net] /\ \A i \in 1 .. size : pst'[i].tdm \in Ratio
  <2>1. DOMAIN pst' = 1 .. size /\ pst' = [i \in 1 .. size |-> pst'[i]]
    BY <1>1, <1>4
  <2> QED
    BY <1>6, <2>1
<1>8. CheckSum(pst') <= Scale
  <2>1. size \in Nat
    BY <1>1
  <2>2. CheckSum(pst') \in Int
    BY <1>7, <2>1, CheckSumType
  <2>3. Scale \in Nat
    BY ScaleAssumption
  <2> QED
    BY <1>0, <2>2, <2>3
<1>9. Shapes' /\ RatioConstraint'
  BY <1>0, <1>1, <1>2, <1>3, <1>7, <1>8, NextConstraint
<1> QED
  BY <1>0, <1>9 DEF IInv, CountersWait, StaysSorted, LeadersLevel

\* Every step preserves the invariant.
LEMMA StepInv == IInv /\ [Next]_vars => IInv'
<1> SUFFICES ASSUME IInv, [Next]_vars PROVE IInv'
  OBVIOUS
<1>1. CASE TakeCeiling
  BY <1>1, TakeCeilingInv
<1>2. CASE ReturnFull
  BY <1>2, EndsInv DEF ReturnFull
<1>3. CASE SortByPriority
  BY <1>3, SortByPriorityInv
<1>4. CASE ReturnAtTwo
  BY <1>4, EndsInv DEF ReturnAtTwo
<1>5. CASE LevelWithNext
  BY <1>5, LevelWithNextInv
<1>6. CASE LowerLevel
  BY <1>6, LowerLevelInv
<1>7. CASE RefineNext
  BY <1>7, RefineNextInv
<1>8. CASE EndRefine
  BY <1>8, EndsInv DEF EndRefine
<1>9. CASE UNCHANGED vars
  <2>1. share' = share /\ pst' = pst /\ virtualSize' = virtualSize /\ n' = n /\ k' = k /\ pc' = pc
    BY <1>9 DEF vars
  <2>2. Shapes'
    BY <2>1 DEF IInv, Shapes
  <2>3. CountersWait'
    BY <2>1 DEF IInv, CountersWait
  <2>4. StaysSorted'
    BY <2>1 DEF IInv, StaysSorted
  <2>5. LeadersLevel'
    <3>1. Threshold(pst') = Threshold(pst)
      BY <2>1
    <3> QED
      BY <2>1, <3>1 DEF IInv, LeadersLevel
  <2>6. RatioConstraint'
    <3>1. CheckSum(pst') = CheckSum(pst)
      BY <2>1
    <3> QED
      BY <2>1, <3>1 DEF IInv, RatioConstraint, TypeOK
  <2> QED
    BY <2>2, <2>3, <2>4, <2>5, <2>6 DEF IInv
<1> QED
  BY <1>1, <1>2, <1>3, <1>4, <1>5, <1>6, <1>7, <1>8, <1>9 DEF Next, Done

\* IInv is an invariant of the legalisation of an edge.
THEOREM Invariant == Spec => []IInv
BY InitInv, StepInv, PTL DEF Spec

\* The constraint of the problem: at every point after the ceiling, the reciprocals
\* of the ratios on the edge add up to at most 1, and the ratios are even.
THEOREM ConstraintHolds == Spec => []RatioConstraint
<1>1. IInv => RatioConstraint
  BY DEF IInv
<1> QED
  BY <1>1, Invariant, PTL

-----------------------------------------------------------------------------
(* Who is raised, and who is lowered.                                      *)

\* A net of the prefix that may be lowered is in the worst group, or in the second
\* worst when that is close; with the order of the list, its priority is that of the
\* first net, or that of the second.
LEMMA PrefixGroups ==
  ASSUME IInv, pc = "loop", NEW i \in 1 .. virtualSize
  PROVE  /\ i \in 1 .. Len(pst)
         /\ \/ pst[i].prio = pst[1].prio
            \/ i >= 2 /\ CloseSecond(pst) /\ pst[i].prio = pst[2].prio
<1> DEFINE size == Len(pst)
<1>1. size \in Nat \ {0} /\ DOMAIN pst = 1 .. size /\ \A j \in 1 .. size : pst[j].prio \in Nat
  BY ListFacts
<1>2. virtualSize \in Nat /\ virtualSize <= size
  BY LoopFacts
<1> HIDE DEF size
<1>3. i \in 1 .. size
  BY <1>1, <1>2
<1>4. CASE i = 1
  BY <1>3, <1>4 DEF size
<1>5. CASE i # 1
  <2>1. i \in 2 .. virtualSize /\ i >= 2 /\ 1 \in 1 .. size /\ 2 \in 1 .. size /\ size > 1 /\ 1 < i
    BY <1>1, <1>2, <1>3, <1>5
  <2>2. pst[i].prio >= Threshold(pst)
    BY <2>1 DEF IInv, LeadersLevel
  <2>3. \A a, b \in 1 .. size : a < b => pst[a].prio >= pst[b].prio
    BY <1>1 DEF IInv, StaysSorted
  <2>4. CASE CloseSecond(pst)
    <3>1. Threshold(pst) = pst[2].prio
      BY <2>1, <2>4 DEF Threshold, size
    <3>2. i = 2 \/ 2 < i
      BY <2>1
    <3>3. pst[i].prio <= pst[2].prio
      BY <1>1, <1>3, <2>1, <2>3, <3>2
    <3>4. pst[i].prio = pst[2].prio
      BY <1>1, <1>3, <2>1, <2>2, <3>1, <3>3
    <3> QED
      BY <1>3, <2>1, <2>4, <3>4 DEF size
  <2>5. CASE ~CloseSecond(pst)
    <3>1. Threshold(pst) = pst[1].prio
      BY <2>5 DEF Threshold
    <3>2. pst[1].prio >= pst[i].prio
      BY <1>3, <2>1, <2>3
    <3>3. pst[i].prio = pst[1].prio
      BY <1>1, <1>3, <2>1, <2>2, <3>1, <3>2
    <3> QED
      BY <1>3, <3>3 DEF size
  <2> QED
    BY <2>4, <2>5
<1> QED
  BY <1>4, <1>5

\* A pass of the loop raises the first net only.
LEMMA RiseStep ==
  ASSUME IInv, LevelWithNext, NEW i \in DOMAIN pst, pst'[i].tdm > pst[i].tdm
  PROVE  LeaderBelowClose(i)
<1> DEFINE size == Len(pst)
           m == LevelSize
           u == pst[m + 1].tdm
<1>0. pc = "loop"
  BY DEF LevelWithNext
<1>1. /\ size \in Nat \ {0} /\ DOMAIN pst = 1 .. size /\ pst \in [1 .. size -> Net]
      /\ \A j \in 1 .. size : pst[j].prio \in Nat /\ pst[j].tdm \in Nat
  BY <1>0, ListFacts
<1>2. /\ n \in Nat \ {0} /\ m \in Nat \ {0} /\ n <= m /\ m < virtualSize /\ virtualSize <= size
      /\ virtualSize \in Nat /\ \A j \in 1 .. m : pst[j].tdm = pst[1].tdm
  BY <1>0, LoopFacts DEF LevelWithNext, ReachesNext
<1>3. i \in 1 .. size
  BY <1>1
<1>4. pst'[i] = IF i <= m THEN [pst[i] EXCEPT !.tdm = u] ELSE pst[i]
  BY DEF LevelWithNext
<1> HIDE DEF size, m, u
<1>5. i <= m /\ u > pst[i].tdm
  <2>1. CASE i <= m
    <3>1. pst[i] \in Net
      BY <1>1, <1>3
    <3>2. pst'[i].tdm = u
      BY <1>4, <2>1, <3>1 DEF Net
    <3> QED
      BY <2>1, <3>2
  <2>2. CASE ~(i <= m)
    <3>1. pst'[i] = pst[i] /\ pst[i].tdm \in Nat
      BY <1>1, <1>3, <1>4, <2>2
    <3> QED
      BY <3>1
  <2> QED
    BY <2>1, <2>2
<1>6. m + 1 \in 1 .. virtualSize /\ m + 1 \in 1 .. size /\ i < m + 1 /\ 1 \in 1 .. size /\ i \in 1 .. m
      /\ m + 1 # 1 /\ m + 1 >= 2 /\ 2 \in 1 .. size
  BY <1>1, <1>2, <1>3, <1>5
<1>7. \A a, b \in 1 .. size : a < b =>
        /\ pst[a].prio >= pst[b].prio
        /\ pst[a].prio = pst[b].prio => pst[a].tdm >= pst[b].tdm
  BY <1>0, <1>1 DEF IInv, StaysSorted
\* The next net has a greater ratio, so it is not in the group of any leader.
<1>8. \A a \in 1 .. m : pst[a].prio > pst[m + 1].prio
  <2> SUFFICES ASSUME NEW a \in 1 .. m PROVE pst[a].prio > pst[m + 1].prio
    OBVIOUS
  <2>1. a \in 1 .. size /\ a < m + 1
    BY <1>1, <1>2, <1>6
  <2>2. pst[a].tdm = pst[i].tdm
    BY <1>2, <1>6
  <2>3. ~(pst[a].tdm >= pst[m + 1].tdm)
    BY <1>1, <1>3, <1>5, <1>6, <2>2 DEF u
  <2>4. pst[a].prio >= pst[m + 1].prio /\ pst[a].prio # pst[m + 1].prio
    BY <1>6, <1>7, <2>1, <2>3
  <2> QED
    BY <1>1, <1>6, <2>1, <2>4
<1>9. CloseSecond(pst) /\ pst[m + 1].prio = pst[2].prio
  <2>1. 1 \in 1 .. m
    BY <1>2
  <2>2. pst[1].prio > pst[m + 1].prio
    BY <1>8, <2>1
  <2>3. pst[m + 1].prio # pst[1].prio
    BY <1>1, <1>6, <2>2
  <2> QED
    BY <1>0, <1>6, <2>3, PrefixGroups
<1>10. m = 1
  <2> SUFFICES ASSUME m # 1 PROVE FALSE
    OBVIOUS
  <2>1. 2 \in 1 .. m
    BY <1>2
  <2>2. pst[2].prio > pst[m + 1].prio
    BY <1>8, <2>1
  <2> QED
    BY <1>1, <1>6, <1>9, <2>2
<1>11. i = 1 /\ n = 1
  BY <1>2, <1>3, <1>5, <1>10
<1>12. pst[1].prio > pst[2].prio
  <2>1. 1 \in 1 .. m
    BY <1>2
  <2> QED
    BY <1>8, <1>9, <2>1
<1> QED
  BY <1>9, <1>11, <1>12 DEF LeaderBelowClose

\* The legaliser lowers ratios; the only net it raises is a first net below a close
\* second group.
THEOREM LeaderAlone == Spec => OnlyLeaderRises
<1>1. ASSUME IInv, [Next]_vars
      PROVE  [ (pc \in {"loop", "refine"}) =>
                 \A i \in DOMAIN pst : pst'[i].tdm > pst[i].tdm => LeaderBelowClose(i) ]_vars
  <2> SUFFICES ASSUME Next, pc \in {"loop", "refine"},
                      NEW i \in DOMAIN pst, pst'[i].tdm > pst[i].tdm
               PROVE  LeaderBelowClose(i)
    BY <1>1, Zenon
  <2>1. pst[i].tdm \in Nat /\ pst[i] \in Net /\ DOMAIN pst = 1 .. Len(pst) /\ Len(pst) \in Nat
    BY <1>1, ListFacts
  <2>2. CASE LevelWithNext
    BY <1>1, <2>2, RiseStep
  <2>3. CASE LowerLevel
    <3>1. pc = "loop"
      BY <2>3 DEF LowerLevel
    <3>2. EvenDecrement \in Nat
      BY <1>1, <3>1, Decrement
    <3>3. pst'[i] = IF i <= LevelSize THEN [pst[i] EXCEPT !.tdm = pst[i].tdm - EvenDecrement] ELSE pst[i]
      BY <2>3 DEF LowerLevel
    <3> DEFINE d == EvenDecrement
               m == LevelSize
    <3> HIDE DEF d, m
    <3>4. pst'[i] = pst[i] \/ pst'[i] = [pst[i] EXCEPT !.tdm = pst[i].tdm - d]
      BY <3>3 DEF d, m
    <3>5. pst'[i].tdm = pst[i].tdm \/ pst'[i].tdm = pst[i].tdm - d
      BY <2>1, <3>4 DEF Net
    <3> QED
      BY <2>1, <3>2, <3>5 DEF d
  <2>4. CASE RefineNext
    <3>1. pst' = [pst EXCEPT ![k].tdm = pst[k].tdm - 2]
      BY <2>4 DEF RefineNext, LoweredAt
    <3>2. pst'[i] = pst[i] \/ pst'[i] = [pst[i] EXCEPT !.tdm = pst[i].tdm - 2]
      BY <3>1
    <3>3. pst'[i].tdm = pst[i].tdm \/ pst'[i].tdm = pst[i].tdm - 2
      BY <2>1, <3>2 DEF Net
    <3> QED
      BY <2>1, <3>3
  <2>5. CASE ReturnAtTwo \/ EndRefine \/ Done \/ ReturnFull
    <3>1. pst' = pst
      BY <2>5 DEF ReturnAtTwo, EndRefine, Done, ReturnFull, vars
    <3> QED
      BY <2>1, <3>1
  <2>6. CASE TakeCeiling \/ SortByPriority
    BY <2>6 DEF TakeCeiling, SortByPriority
  <2> QED
    BY <2>2, <2>3, <2>4, <2>5, <2>6 DEF Next
<1> QED
  BY <1>1, Invariant, PTL DEF Spec, OnlyLeaderRises

\* In the loop, a net outside the worst group, and outside a close second one, keeps
\* its ratio.
THEOREM OthersWait == Spec => LowPriorityLast
<1>1. ASSUME IInv, [Next]_vars
      PROVE  [ pc = "loop" => \A i \in DOMAIN pst : MayBeLowered(i) \/ pst'[i] = pst[i] ]_vars
  <2> SUFFICES ASSUME Next, pc = "loop", NEW i \in DOMAIN pst, pst'[i] # pst[i]
               PROVE  MayBeLowered(i)
    BY <1>1, Zenon
  <2>1. DOMAIN pst = 1 .. Len(pst) /\ Len(pst) \in Nat
    BY <1>1, ListFacts
  <2>2. LevelSize \in Nat /\ virtualSize \in Nat /\ LevelSize <= virtualSize
    BY <1>1, LoopFacts
  <2>3. i <= LevelSize
    <3>1. CASE LevelWithNext
      <4>1. pst'[i] = IF i <= LevelSize THEN [pst[i] EXCEPT !.tdm = pst[LevelSize + 1].tdm] ELSE pst[i]
        BY <3>1 DEF LevelWithNext
      <4> QED
        BY <4>1, Zenon
    <3>2. CASE LowerLevel
      <4>1. pst'[i] = IF i <= LevelSize THEN [pst[i] EXCEPT !.tdm = pst[i].tdm - EvenDecrement] ELSE pst[i]
        BY <3>2 DEF LowerLevel
      <4> QED
        BY <4>1, Zenon
    <3>3. CASE ReturnAtTwo \/ Done \/ EndRefine \/ ReturnFull
      BY <3>3 DEF ReturnAtTwo, Done, EndRefine, ReturnFull, vars
    <3>4. CASE TakeCeiling \/ SortByPriority \/ RefineNext
      BY <3>4 DEF TakeCeiling, SortByPriority, RefineNext
    <3> QED
      BY <3>1, <3>2, <3>3, <3>4 DEF Next
  <2>4. i \in 1 .. virtualSize
    BY <2>1, <2>2, <2>3
  <2> QED
    BY <1>1, <2>4, PrefixGroups DEF MayBeLowered
<1> QED
  BY <1>1, Invariant, PTL DEF Spec, LowPriorityLast

-----------------------------------------------------------------------------
(* The fast assignment.  The variables whose names TdmRound has are called *)
(* after what they are: n is levelled, k is refined, pc is phase.          *)

CONSTANTS NetNum, Edge, GroupNum, Inputs

VARIABLES input, maxUsedEdges, passing, groupTdm, plan, levelled, refined, edgePc, tdm, phase

H == INSTANCE TdmHeuristic WITH n <- levelled, k <- refined, pc <- phase

\* The assumption of TdmHeuristic.  It is kept folded, to spare the provers its bounds.
Assumed == H!HeuristicAssumption

\* The operators of the community modules are the same in the instance.
LEMMA SameOperators ==
  /\ \A S : H!Cardinality(S) = Cardinality(S) /\ H!IsFiniteSet(S) = IsFiniteSet(S)
  /\ \A S : H!Max(S) = Max(S) /\ H!Min(S) = Min(S)
  /\ \A s : H!ToSet(s) = ToSet(s)
  /\ \A S : H!Ascending(S) = Ascending(S)
<1>1. \A S : H!Cardinality(S) = Cardinality(S) /\ H!IsFiniteSet(S) = IsFiniteSet(S)
  BY DEF H!Cardinality, Cardinality, H!IsFiniteSet, IsFiniteSet
<1>2. \A S : H!Max(S) = Max(S) /\ H!Min(S) = Min(S)
  BY DEF H!Max, Max, H!Min, Min
<1>3. \A s : H!ToSet(s) = ToSet(s)
  BY DEF H!ToSet, ToSet
<1>4. ASSUME NEW S PROVE H!Ascending(S) = Ascending(S)
  BY DEF H!Ascending, Ascending, H!Rank, Rank, H!Cardinality, Cardinality
<1> QED
  BY <1>1, <1>2, <1>3, <1>4

\* So is the sum of a function
LEMMA SameSum == ASSUME NEW f PROVE H!SumFunction(f) = SumFunction(f)
BY DEF H!SumFunction, SumFunction, H!SumFunctionOnSet, SumFunctionOnSet,
       H!FoldFunctionOnSet, FoldFunctionOnSet, H!MapThenFoldSet, MapThenFoldSet

\* and the sets of injections,
LEMMA SameInjections == \A S, T : H!Injection(S, T) = Injection(S, T)
BY DEF H!Injection, Injection, H!IsInjective, IsInjective

\* The orders of s by ratio; D is its domain.
SortedByRatio(D, s) ==
  {[i \in D |-> s[p[i]]] :
     p \in {q \in Injection(D, D) : \A i, j \in D : i < j => ~H!ByRatio(s[q[j]], s[q[i]])}}

\* so that sorting is what Lists says it is.
LEMMA SameSort == ASSUME NEW s PROVE H!Sorted(s, H!ByRatio) = SortedByRatio(DOMAIN s, s)
BY SameInjections DEF H!Sorted, SortedByRatio

-----------------------------------------------------------------------------
(* The weights of the constructor.                                         *)

\* What the assumption says of one input.
LEMMA InputFacts ==
  ASSUME Assumed, NEW in \in Inputs
  PROVE  /\ IsFiniteSet(H!Net) /\ IsFiniteSet(H!Group) /\ H!Net \subseteq Nat
         /\ IsFiniteSet(Edge)
         /\ in.tree \in [H!Net -> SUBSET Edge]
         /\ in.group \in [H!Group -> Seq(H!Net)]
         /\ \A x \in H!Net : \E g \in H!Group : x \in ToSet(in.group[g])
         /\ \A x \in H!Net : IsFiniteSet(in.tree[x])
         /\ \A e \in Edge : /\ H!PassingNets(in, e) \subseteq H!Net
                            /\ IsFiniteSet(H!PassingNets(in, e))
<1>1. /\ NetNum \in Nat /\ GroupNum \in Nat /\ H!IsFiniteSet(Edge)
      /\ in.tree \in [H!Net -> SUBSET Edge]
      /\ in.group \in [H!Group -> Seq(H!Net)]
      /\ \A x \in H!Net : \E g \in H!Group : x \in H!ToSet(in.group[g])
  BY DEF Assumed
<1>2. IsFiniteSet(Edge) /\ \A x \in H!Net : \E g \in H!Group : x \in ToSet(in.group[g])
  BY <1>1, SameOperators
<1>3. IsFiniteSet(H!Net) /\ H!Net \subseteq Nat
  <2>1. H!Net = 0 .. NetNum - 1 /\ NetNum - 1 \in Int
    BY <1>1 DEF H!Net
  <2> QED
    BY <2>1, FS_Interval
<1>4. IsFiniteSet(H!Group)
  BY <1>1, FS_Interval DEF H!Group
<1>5. ASSUME NEW x \in H!Net PROVE IsFiniteSet(in.tree[x])
  <2>1. in.tree[x] \subseteq Edge
    BY <1>1
  <2> QED
    BY <1>2, <2>1, FS_Subset
<1>6. ASSUME NEW e \in Edge
      PROVE  H!PassingNets(in, e) \subseteq H!Net /\ IsFiniteSet(H!PassingNets(in, e))
  <2>1. H!PassingNets(in, e) \subseteq H!Net
    BY DEF H!PassingNets
  <2> QED
    BY <1>3, <2>1, FS_Subset
<1> QED
  BY <1>1, <1>2, <1>3, <1>4, <1>5, <1>6

\* The sum over a group is at least the value of each of its nets.
LEMMA GroupSum ==
  ASSUME Assumed, NEW in \in Inputs, NEW val \in [H!Net -> Nat], NEW g \in H!Group
  PROVE  /\ H!SumOfGroup(in, val, g) \in Nat
         /\ \A x \in ToSet(in.group[g]) : val[x] <= H!SumOfGroup(in, val, g)
<1> DEFINE s == in.group[g]
           q == [i \in DOMAIN s |-> val[s[i]]]
<1>1. s \in Seq(H!Net)
  BY InputFacts
<1>2. Len(s) \in Nat /\ DOMAIN s = 1 .. Len(s) /\ \A i \in 1 .. Len(s) : s[i] \in H!Net
  BY <1>1
<1>3. H!SumOfGroup(in, val, g) = SumFunction(q)
  BY SameSum DEF H!SumOfGroup
<1> HIDE DEF s
<1>4. q \in [1 .. Len(s) -> Nat] /\ \A i \in 1 .. Len(s) : q[i] = val[s[i]]
  BY <1>2
<1> HIDE DEF q
<1>5. SumFunction(q) \in Nat /\ \A i \in 1 .. Len(s) : q[i] <= SumFunction(q)
  BY <1>2, <1>4, SumOfNats
<1>6. ASSUME NEW x \in ToSet(s) PROVE val[x] <= SumFunction(q)
  <2>1. PICK i \in 1 .. Len(s) : s[i] = x
    BY <1>2 DEF ToSet
  <2> QED
    BY <1>4, <1>5, <2>1
<1> QED
  BY <1>3, <1>5, <1>6 DEF s

\* The maximum over the groups of a net is at least the value of each of them.
LEMMA GroupMax ==
  ASSUME Assumed, NEW in \in Inputs, NEW val \in [H!Group -> Nat], NEW x
  PROVE  /\ H!MaxOfGroups(in, val, x) \in Nat
         /\ \A g \in H!Group : x \in ToSet(in.group[g]) => val[g] <= H!MaxOfGroups(in, val, x)
<1> DEFINE S == {0} \cup {val[g] : g \in {h \in H!Group : x \in ToSet(in.group[h])}}
           m == SumFunction(val)
<1>1. m \in Nat /\ \A g \in H!Group : val[g] \in Nat /\ val[g] <= m
  BY InputFacts, SumOfSetOfNats
<1>2. S \in SUBSET (0 .. m) /\ S # {}
  <2> HIDE DEF m
  <2>1. \A g \in H!Group : val[g] \in 0 .. m
    BY <1>1
  <2>2. 0 \in 0 .. m
    BY <1>1
  <2> QED
    BY <2>1, <2>2
<1>3. H!MaxOfGroups(in, val, x) = Max(S)
  BY SameOperators DEF H!MaxOfGroups
<1>4. \A g \in H!Group : x \in ToSet(in.group[g]) => val[g] \in S
  OBVIOUS
<1> HIDE DEF S, m
<1>5. Max(S) \in S /\ \A y \in S : y <= Max(S)
  BY <1>1, <1>2, MaxOfInterval
<1>6. Max(S) \in Nat
  <2>1. Max(S) \in 0 .. m
    BY <1>2, <1>5
  <2> QED
    BY <1>1, <2>1
<1> QED
  BY <1>3, <1>4, <1>5, <1>6

\* Each net that has a tree counts: its weight is not 0.
LEMMA WeightsPositive ==
  ASSUME Assumed, NEW in \in Inputs
  PROVE  /\ H!MaxUsedEdges(in) \in [H!Net -> Nat]
         /\ \A x \in H!Net : in.tree[x] # {} => H!MaxUsedEdges(in)[x] > 0
<1> DEFINE size == [x \in H!Net |-> Cardinality(in.tree[x])]
           groupSize == H!NetGroupEdgeSize(in)
           treeSize == H!WeightedTreeSize(in)
           groupEdges == H!NEdges(in)
<1>0. /\ IsFiniteSet(H!Net) /\ in.tree \in [H!Net -> SUBSET Edge]
      /\ \A x \in H!Net : IsFiniteSet(in.tree[x])
      /\ \A x \in H!Net : \E g \in H!Group : x \in ToSet(in.group[g])
      /\ \A e \in Edge : H!PassingNets(in, e) \subseteq H!Net /\ IsFiniteSet(H!PassingNets(in, e))
  BY InputFacts
<1>1. size \in [H!Net -> Nat] /\ \A x \in H!Net : in.tree[x] # {} => size[x] >= 1
  <2>1. ASSUME NEW x \in H!Net
        PROVE  Cardinality(in.tree[x]) \in Nat /\ (in.tree[x] # {} => Cardinality(in.tree[x]) # 0)
    BY <1>0, FS_CardinalityType, FS_EmptySet
  <2> QED
    BY <2>1
<1>2. groupSize = [g \in H!Group |-> H!SumOfGroup(in, size, g)]
  <2>1. size = [x \in H!Net |-> H!Cardinality(in.tree[x])]
    BY SameOperators
  <2> HIDE DEF size
  <2> QED
    BY <2>1 DEF H!NetGroupEdgeSize
<1> HIDE DEF size
<1>3. /\ groupSize \in [H!Group -> Nat]
      /\ \A g \in H!Group : \A x \in ToSet(in.group[g]) : size[x] <= groupSize[g]
  BY <1>1, <1>2, GroupSum
<1> HIDE DEF groupSize
<1>4. ASSUME NEW e \in Edge
      PROVE  /\ H!EdgeWeight(in, e) \in Nat
             /\ H!PassingNets(in, e) # {} => H!EdgeWeight(in, e) >= 1
  <2> DEFINE P == H!PassingNets(in, e)
             f == [x \in P |-> H!MaxOfGroups(in, groupSize, x)]
  <2>1. H!EdgeWeight(in, e) = SumFunction(f)
    BY SameSum DEF H!EdgeWeight, groupSize
  <2>2. f \in [P -> Nat]
    BY <1>3, GroupMax
  <2>3. ASSUME NEW x \in P PROVE f[x] >= 1
    <3>1. x \in H!Net /\ in.tree[x] # {}
      BY DEF H!PassingNets
    <3>2. PICK g \in H!Group : x \in ToSet(in.group[g])
      BY <1>0, <3>1
    <3>3. size[x] >= 1 /\ size[x] <= groupSize[g] /\ size[x] \in Nat /\ groupSize[g] \in Nat
      BY <1>1, <1>3, <3>1, <3>2
    <3>4. f[x] = H!MaxOfGroups(in, groupSize, x)
      OBVIOUS
    <3>5. groupSize[g] <= f[x] /\ f[x] \in Nat
      BY <1>3, <3>2, <3>4, GroupMax
    <3> QED
      BY <3>3, <3>5
  <2> HIDE DEF f
  <2>4. SumFunction(f) \in Nat /\ \A x \in P : f[x] <= SumFunction(f)
    BY <1>0, <2>2, SumOfSetOfNats
  <2>5. ASSUME NEW x \in P PROVE SumFunction(f) >= 1
    BY <2>2, <2>3, <2>4
  <2> QED
    BY <2>1, <2>4, <2>5
<1>5. /\ treeSize \in [H!Net -> Nat]
      /\ \A x \in H!Net : in.tree[x] # {} => treeSize[x] >= 1
  <2>1. ASSUME NEW x \in H!Net
        PROVE  /\ SumFunction([e \in in.tree[x] |-> H!EdgeWeight(in, e)]) \in Nat
               /\ in.tree[x] # {} => SumFunction([e \in in.tree[x] |-> H!EdgeWeight(in, e)]) >= 1
    <3> DEFINE T == in.tree[x]
               f == [e \in T |-> H!EdgeWeight(in, e)]
    <3>1. T \subseteq Edge /\ IsFiniteSet(T)
      BY <1>0
    <3>2. f \in [T -> Nat] /\ \A e \in T : f[e] >= 1
      <4>1. \A e \in T : e \in Edge /\ x \in H!PassingNets(in, e)
        BY <3>1 DEF H!PassingNets
      <4> QED
        BY <1>4, <4>1
    <3> HIDE DEF f
    <3>3. SumFunction(f) \in Nat /\ \A e \in T : f[e] <= SumFunction(f)
      BY <3>1, <3>2, SumOfSetOfNats
    <3>4. ASSUME NEW e \in T PROVE SumFunction(f) >= 1
      BY <3>2, <3>3
    <3> QED
      BY <3>3, <3>4 DEF f
  <2>2. treeSize = [x \in H!Net |-> SumFunction([e \in in.tree[x] |-> H!EdgeWeight(in, e)])]
    BY SameSum DEF H!WeightedTreeSize
  <2> HIDE DEF treeSize
  <2> QED
    BY <2>1, <2>2
<1>6. groupEdges = [g \in H!Group |-> H!SumOfGroup(in, treeSize, g)]
  BY DEF H!NEdges
<1> HIDE DEF treeSize, groupEdges
<1>7. /\ groupEdges \in [H!Group -> Nat]
      /\ \A g \in H!Group : \A x \in ToSet(in.group[g]) : treeSize[x] <= groupEdges[g]
  BY <1>5, <1>6, GroupSum
<1>8. H!MaxUsedEdges(in) = [x \in H!Net |-> H!MaxOfGroups(in, groupEdges, x)]
  BY DEF H!MaxUsedEdges, groupEdges
<1>9. H!MaxUsedEdges(in) \in [H!Net -> Nat]
  BY <1>7, <1>8, GroupMax
<1>10. ASSUME NEW x \in H!Net, in.tree[x] # {} PROVE H!MaxUsedEdges(in)[x] > 0
  <2>1. PICK g \in H!Group : x \in ToSet(in.group[g])
    BY <1>0
  <2>2. treeSize[x] >= 1 /\ treeSize[x] <= groupEdges[g] /\ treeSize[x] \in Nat /\ groupEdges[g] \in Nat
    BY <1>5, <1>7, <1>10, <2>1
  <2>3. H!MaxUsedEdges(in)[x] = H!MaxOfGroups(in, groupEdges, x)
    BY <1>8
  <2>4. groupEdges[g] <= H!MaxUsedEdges(in)[x] /\ H!MaxUsedEdges(in)[x] \in Nat
    BY <1>7, <2>1, <2>3, GroupMax
  <2> QED
    BY <2>2, <2>4
<1> QED
  BY <1>9, <1>10

-----------------------------------------------------------------------------
(* The ratios of an edge and the sum of their reciprocals.                 *)

\* The reciprocals.
Units(ratio) == [x \in DOMAIN ratio |-> Scale \div ratio[x]]

\* The reciprocals of ratios have a sum; greater ratios have the lower sum.
LEMMA RatioSums ==
  ASSUME NEW D, IsFiniteSet(D), NEW r \in [D -> Ratio]
  PROVE  /\ Units(r) \in [D -> Nat] /\ H!RatioSum(r) = SumFunction(Units(r))
         /\ H!RatioSum(r) \in Int
         /\ \A s \in [D -> Ratio] : (\A x \in D : r[x] <= s[x]) => H!RatioSum(s) <= H!RatioSum(r)
<1>1. ASSUME NEW s \in [D -> Ratio]
      PROVE  /\ Units(s) \in [D -> Nat] /\ \A x \in D : Units(s)[x] = Scale \div s[x]
             /\ H!RatioSum(s) = SumFunction(Units(s))
  <2>1. DOMAIN s = D /\ \A x \in D : Scale \div s[x] \in Nat
    BY Reciprocal
  <2>2. Units(s) \in [D -> Nat] /\ \A x \in D : Units(s)[x] = Scale \div s[x]
    BY <2>1 DEF Units
  <2>3. H!RatioSum(s) = SumFunction(Units(s))
    BY SameSum DEF H!RatioSum, Units
  <2> QED
    BY <2>2, <2>3
<1>2. Units(r) \in [D -> Int]
  BY <1>1
<1>3. SumFunction(Units(r)) \in Int
  BY <1>2, SumCounted
<1>4. ASSUME NEW s \in [D -> Ratio], \A x \in D : r[x] <= s[x]
      PROVE  H!RatioSum(s) <= H!RatioSum(r)
  <2> DEFINE f == Units(s)
             g == Units(r)
  <2>1. f \in [D -> Int] /\ g \in [D -> Int] /\ \A x \in D : f[x] <= g[x]
    <3>1. ASSUME NEW x \in D PROVE Scale \div s[x] <= Scale \div r[x]
      <4>1. r[x] \in Ratio /\ s[x] \in Ratio /\ r[x] <= s[x]
        BY <1>4
      <4> QED
        BY <4>1, ReciprocalOrder
    <3>2. \A x \in D : Units(s)[x] = Scale \div s[x] /\ Units(r)[x] = Scale \div r[x]
      BY <1>1
    <3>3. Units(s) \in [D -> Int] /\ Units(r) \in [D -> Int]
      BY <1>1
    <3> QED
      BY <3>1, <3>2, <3>3
  <2>2. H!RatioSum(s) = SumFunction(f) /\ H!RatioSum(r) = SumFunction(g)
    BY <1>1
  <2> HIDE DEF f, g
  <2>3. \A x \in D : 1 * f[x] <= 1 * g[x]
    BY <2>1
  <2>4. SumFunction(f) \in Int /\ SumFunction(g) \in Int
    BY <2>1, SumCounted
  <2>5. 1 * SumFunction(f) <= 1 * SumFunction(g)
    BY ONLY <2>1, <2>3, 1 \in Int, IsFiniteSet(D), SumCounted
  <2> QED
    BY <2>2, <2>4, <2>5
<1> QED
  BY <1>1, <1>3, <1>4

\* initTDM() keeps to the constraint: a net with the share w of the weights W gets
\* a ratio of at least W / w.
LEMMA FirstRatios ==
  ASSUME Assumed, NEW in \in Inputs, NEW e \in Edge
  PROVE  LET P == H!PassingNets(in, e)
             first == H!InitRatios(in, H!MaxUsedEdges(in), e)
         IN  /\ IsFiniteSet(P) /\ first \in [P -> Ratio]
             /\ H!RatioSum(first) <= Scale
<1> DEFINE P == H!PassingNets(in, e)
           w == H!MaxUsedEdges(in)
           first == H!InitRatios(in, w, e)
           f == [x \in P |-> w[x]]
           W == SumFunction(f)
<1>0. Scale \in Nat \ {0} /\ MaxTdm \in Nat \ {0}
  BY ScaleAssumption
<1>1. IsFiniteSet(P) /\ f \in [P -> Nat] /\ \A x \in P : f[x] >= 1
  <2>1. IsFiniteSet(P) /\ P \subseteq H!Net
    BY InputFacts
  <2>2. \A x \in P : in.tree[x] # {}
    BY DEF H!PassingNets
  <2>3. \A x \in P : w[x] \in Nat /\ w[x] > 0
    BY <2>1, <2>2, WeightsPositive
  <2> HIDE DEF P, w
  <2> QED
    BY <2>1, <2>3
<1>2. first = [x \in P |-> EvenCeil(W, f[x])]
  <2>1. first = [x \in P |-> EvenCeil(W, w[x])]
    BY SameSum DEF H!InitRatios, H!EvenCeil, EvenCeil
  <2> HIDE DEF P, w
  <2> QED
    BY <2>1
<1>3. \A x \in P : first[x] <= MaxTdm
  <2>1. \A x \in DOMAIN first : first[x] <= MaxTdm
    BY DEF Assumed
  <2>2. DOMAIN first = P
    BY <1>2
  <2> QED
    BY <2>1, <2>2
<1> HIDE DEF P, w, first, f
<1>4. W \in Nat /\ \A x \in P : f[x] <= W
  BY <1>1, SumOfSetOfNats
<1>5. ASSUME NEW x \in P
      PROVE  first[x] \in Ratio /\ W <= first[x] * f[x]
  <2>1. W \in Nat \ {0} /\ f[x] \in Nat \ {0} /\ first[x] = EvenCeil(W, f[x])
    BY <1>1, <1>2, <1>4
  <2> HIDE DEF W
  <2>2. /\ EvenCeil(W, f[x]) \in Nat /\ EvenCeil(W, f[x]) % 2 = 0 /\ EvenCeil(W, f[x]) >= 2
        /\ W <= EvenCeil(W, f[x]) * f[x]
    BY <2>1, EvenCeiling
  <2> QED
    BY <1>0, <1>3, <2>1, <2>2 DEF Ratio
<1>6. first \in [P -> Ratio]
  BY <1>2, <1>5
<1>7. H!RatioSum(first) <= Scale
  <2> DEFINE u == Units(first)
             sum == SumFunction(u)
  <2>1. H!RatioSum(first) = sum /\ u \in [P -> Nat] /\ DOMAIN first = P
    BY <1>1, <1>6, RatioSums
  <2>2. \A x \in P : u[x] = Scale \div first[x]
    BY <2>1 DEF Units
  <2> HIDE DEF u
  <2>3. CASE P = {}
    <3>1. \A x \in P : u[x] = 0
      BY <2>3
    <3>2. sum = 0
      BY <1>1, <2>1, <3>1, SumOfSetOfNats
    <3> QED
      BY <1>0, <2>1, <3>2
  <2>4. CASE P # {}
    <3>1. PICK z \in P : TRUE
      BY <2>4
    <3>2. W \in Nat \ {0}
      BY <1>1, <1>4, <3>1
    <3>3. ASSUME NEW x \in P PROVE W * u[x] <= Scale * f[x]
      <4> DEFINE r == first[x]
                 a == u[x]
                 v == f[x]
      <4>1. r \in Nat /\ a \in Nat /\ v \in Nat /\ r * a = Scale /\ W <= r * v
        <5>1. first[x] \in Ratio
          BY <1>5
        <5>2. Scale \div first[x] \in Nat /\ first[x] * (Scale \div first[x]) = Scale
          BY <5>1, Reciprocal
        <5> QED
          BY <1>1, <1>5, <2>2, <5>1, <5>2 DEF Ratio
      <4> HIDE DEF r, a, v, W
      <4>2. W * a <= (r * v) * a
        BY <3>2, <4>1
      <4>3. (r * v) * a = (r * a) * v
        BY <4>1
      <4>4. W * a <= Scale * v
        BY <4>1, <4>2, <4>3
      <4> QED
        BY <4>4 DEF a, v
    <3>4. W * sum <= Scale * W
      <4>1. u \in [P -> Int] /\ f \in [P -> Int]
        BY <1>1, <2>1
      <4>2. W \in Int /\ Scale \in Int
        BY <1>0, <3>2
      <4>3. \A x \in P : W * u[x] <= Scale * f[x]
        BY <3>3
      <4>4. W * SumFunction(u) <= Scale * SumFunction(f)
        <5> HIDE DEF W, sum
        <5> QED
          BY ONLY <1>1, <4>1, <4>2, <4>3, SumCounted
      <4> QED
        BY <4>4
    <3>5. sum \in Int
      BY <1>1, <2>1, SumOfSetOfNats
    <3> HIDE DEF W, sum
    <3>6. sum * W <= Scale * W
      BY <3>2, <3>4, <3>5, <1>0
    <3>7. sum <= Scale
      BY <1>0, <3>2, <3>5, <3>6, Products
    <3> QED
      BY <2>1, <3>7
  <2> QED
    BY <2>3, <2>4
<1> QED
  BY <1>1, <1>6, <1>7 DEF P, w, first

-----------------------------------------------------------------------------
(* Plans: the nets of an edge that may be lowered, with new ratios.        *)

Plans(heavy, size) == [1 .. size -> [net : heavy, tdm : Ratio]]

\* Each net once.
Distinct(p, size) == \A i, j \in 1 .. size : p[i].net = p[j].net => i = j

PlanFor(D, first, heavy, size, p) ==
  /\ IsFiniteSet(D) /\ first \in [D -> Ratio] /\ heavy \in SUBSET D
  /\ size \in Nat /\ p \in Plans(heavy, size) /\ Distinct(p, size)

\* The ratios an edge would have with the plan.
LEMMA OverlayFacts ==
  ASSUME NEW D, NEW first, NEW heavy, NEW size, NEW p, PlanFor(D, first, heavy, size, p)
  PROVE  /\ H!Overlay(first, p) \in [D -> Ratio]
         /\ \A i \in 1 .. size : H!Overlay(first, p)[p[i].net] = p[i].tdm
         /\ \A x \in D : (\A i \in 1 .. size : p[i].net # x) => H!Overlay(first, p)[x] = first[x]
<1> DEFINE o == H!Overlay(first, p)
           At(x) == CHOOSE i \in 1 .. size : p[i].net = x
<1>0. /\ first \in [D -> Ratio] /\ heavy \in SUBSET D /\ size \in Nat
      /\ p \in Plans(heavy, size) /\ Distinct(p, size)
  BY DEF PlanFor
<1>1. DOMAIN p = 1 .. size /\ \A i \in 1 .. size : p[i].net \in D /\ p[i].tdm \in Ratio
  BY <1>0 DEF Plans
<1>2. o = [x \in D |-> IF \E i \in 1 .. size : p[i].net = x THEN p[At(x)].tdm ELSE first[x]]
  BY <1>0, <1>1 DEF H!Overlay
<1> HIDE DEF o
<1>3. ASSUME NEW x \in D, NEW i \in 1 .. size, p[i].net = x PROVE At(x) = i
  <2>1. At(x) \in 1 .. size /\ p[At(x)].net = x
    BY <1>3
  <2> HIDE DEF At
  <2> QED
    BY <1>0, <1>3, <2>1 DEF Distinct
<1> HIDE DEF At
<1>4. ASSUME NEW i \in 1 .. size PROVE o[p[i].net] = p[i].tdm
  <2>1. p[i].net \in D /\ At(p[i].net) = i
    BY <1>1, <1>3
  <2> QED
    BY <1>2, <2>1
<1>5. ASSUME NEW x \in D, \A i \in 1 .. size : p[i].net # x PROVE o[x] = first[x]
  BY <1>2, <1>5
<1>6. o \in [D -> Ratio]
  <2>1. ASSUME NEW x \in D PROVE o[x] \in Ratio
    <3>1. CASE \E i \in 1 .. size : p[i].net = x
      <4>1. PICK i \in 1 .. size : p[i].net = x
        BY <3>1
      <4> QED
        BY <1>1, <1>4, <4>1
    <3>2. CASE \A i \in 1 .. size : p[i].net # x
      BY <1>0, <1>5, <3>2
    <3> QED
      BY <3>1, <3>2
  <2> QED
    BY <1>2, <2>1
<1> QED
  BY <1>4, <1>5, <1>6 DEF o

\* r is p, but gives the m nets that b counts the ratio u instead of t.
Moves(heavy, size, p, r, m, b, t, u) ==
  /\ r \in Plans(heavy, size) /\ \A i \in 1 .. size : r[i].net = p[i].net
  /\ m \in Nat /\ b \in [1 .. m -> 1 .. size] /\ \A i, j \in 1 .. m : b[i] = b[j] => i = j
  /\ t \in Ratio /\ u \in Ratio /\ \A j \in 1 .. m : p[b[j]].tdm = t /\ r[b[j]].tdm = u
  /\ \A i \in 1 .. size : (\A j \in 1 .. m : b[j] # i) => r[i].tdm = p[i].tdm

\* When m nets of a plan come to the ratio u, the sum changes by m times the
\* difference of the reciprocals.
LEMMA PlanChanged ==
  ASSUME NEW D, NEW first, NEW heavy, NEW size, NEW p, PlanFor(D, first, heavy, size, p),
         NEW r, NEW m, NEW b, NEW t, NEW u, Moves(heavy, size, p, r, m, b, t, u)
  PROVE  /\ PlanFor(D, first, heavy, size, r)
         /\ H!RatioSum(H!Overlay(first, r))
              = H!RatioSum(H!Overlay(first, p)) + m * ((Scale \div u) - (Scale \div t))
<1> DEFINE o == H!Overlay(first, p)
           q == H!Overlay(first, r)
           f == Units(o)
           g == Units(q)
           d == (Scale \div u) - (Scale \div t)
           c == [j \in 1 .. m |-> p[b[j]].net]
<1>0. /\ IsFiniteSet(D) /\ first \in [D -> Ratio] /\ heavy \in SUBSET D /\ size \in Nat
      /\ p \in Plans(heavy, size) /\ Distinct(p, size)
      /\ r \in Plans(heavy, size) /\ \A i \in 1 .. size : r[i].net = p[i].net
      /\ m \in Nat /\ b \in [1 .. m -> 1 .. size] /\ \A i, j \in 1 .. m : b[i] = b[j] => i = j
      /\ t \in Ratio /\ u \in Ratio /\ \A j \in 1 .. m : p[b[j]].tdm = t /\ r[b[j]].tdm = u
      /\ \A i \in 1 .. size : (\A j \in 1 .. m : b[j] # i) => r[i].tdm = p[i].tdm
  BY DEF PlanFor, Moves
<1>1. PlanFor(D, first, heavy, size, r)
  BY <1>0 DEF PlanFor, Distinct
<1>2. /\ o \in [D -> Ratio] /\ \A i \in 1 .. size : o[p[i].net] = p[i].tdm
      /\ \A x \in D : (\A i \in 1 .. size : p[i].net # x) => o[x] = first[x]
  BY OverlayFacts
<1>3. /\ q \in [D -> Ratio] /\ \A i \in 1 .. size : q[p[i].net] = r[i].tdm
      /\ \A x \in D : (\A i \in 1 .. size : p[i].net # x) => q[x] = first[x]
  <2>1. /\ q \in [D -> Ratio] /\ \A i \in 1 .. size : q[r[i].net] = r[i].tdm
        /\ \A x \in D : (\A i \in 1 .. size : r[i].net # x) => q[x] = first[x]
    BY <1>1, OverlayFacts
  <2> HIDE DEF q
  <2> QED
    BY <1>0, <2>1
<1> HIDE DEF o, q
<1>4. /\ f \in [D -> Int] /\ H!RatioSum(o) = SumFunction(f) /\ \A x \in D : f[x] = Scale \div o[x]
      /\ g \in [D -> Int] /\ H!RatioSum(q) = SumFunction(g) /\ \A x \in D : g[x] = Scale \div q[x]
  <2>1. f \in [D -> Nat] /\ H!RatioSum(o) = SumFunction(f)
    BY <1>0, <1>2, RatioSums
  <2>2. g \in [D -> Nat] /\ H!RatioSum(q) = SumFunction(g)
    BY <1>0, <1>3, RatioSums
  <2>3. \A x \in D : f[x] = Scale \div o[x] /\ g[x] = Scale \div q[x]
    BY <1>2, <1>3 DEF Units
  <2> HIDE DEF f, g
  <2> QED
    BY <2>1, <2>2, <2>3
<1>5. d \in Int /\ Scale \div u \in Int /\ Scale \div t \in Int
  BY <1>0, Reciprocal
<1>6. c \in [1 .. m -> D] /\ \A j \in 1 .. m : c[j] = p[b[j]].net
  BY <1>0 DEF Plans
<1> HIDE DEF f, g, c, d
<1>7. \A i, j \in 1 .. m : c[i] = c[j] => i = j
  <2> TAKE i, j \in 1 .. m
  <2> HAVE c[i] = c[j]
  <2>1. p[b[i]].net = p[b[j]].net /\ b[i] \in 1 .. size /\ b[j] \in 1 .. size
    BY <1>0, <1>6
  <2>2. b[i] = b[j]
    BY <1>0, <2>1 DEF Distinct
  <2> QED
    BY <1>0, <2>2
<1>8. ASSUME NEW x \in D
      PROVE  g[x] = IF \E j \in 1 .. m : c[j] = x THEN f[x] + d ELSE f[x]
  <2>1. CASE \E j \in 1 .. m : c[j] = x
    <3>1. PICK j \in 1 .. m : c[j] = x
      BY <2>1
    <3>2. p[b[j]].net = x /\ b[j] \in 1 .. size /\ p[b[j]].tdm = t /\ r[b[j]].tdm = u
      BY <1>0, <1>6, <3>1
    <3>3. o[x] = t /\ q[x] = u
      BY <1>2, <1>3, <3>2
    <3>4. f[x] = Scale \div t /\ g[x] = Scale \div u
      BY <1>4, <3>3
    <3>5. g[x] = f[x] + d
      BY <1>5, <3>4 DEF d
    <3> QED
      BY <2>1, <3>5
  <2>2. CASE ~ \E j \in 1 .. m : c[j] = x
    <3>1. CASE \E i \in 1 .. size : p[i].net = x
      <4>1. PICK i \in 1 .. size : p[i].net = x
        BY <3>1
      <4>2. \A j \in 1 .. m : b[j] # i
        BY <1>6, <2>2, <4>1
      <4>3. r[i].tdm = p[i].tdm
        BY <1>0, <4>2
      <4>4. q[x] = o[x]
        BY <1>2, <1>3, <4>1, <4>3
      <4> QED
        BY <1>4, <2>2, <4>4
    <3>2. CASE \A i \in 1 .. size : p[i].net # x
      <4>1. q[x] = o[x]
        BY <1>2, <1>3, <3>2
      <4> QED
        BY <1>4, <2>2, <4>1
    <3> QED
      BY <3>1, <3>2
  <2> QED
    BY <2>1, <2>2
<1>9. g = RaisedAlong(f, c, m, d)
  BY <1>4, <1>8 DEF RaisedAlong
<1>10. SumFunction(RaisedAlong(f, c, m, d)) = SumFunction(f) + m * d
  <2>1. Counts(D, f, c, m)
    BY <1>0, <1>4, <1>6, <1>7 DEF Counts
  <2> QED
    BY ONLY <1>5, <2>1, SumRaised
<1> QED
  BY <1>1, <1>4, <1>9, <1>10 DEF o, q, d

\* What the edge would still have to give.
Spare(first, p) == Scale - H!RatioSum(H!Overlay(first, p))

\* A plan that keeps to the constraint and raises no ratio.
Planned(D, first, heavy, size, p) ==
  /\ PlanFor(D, first, heavy, size, p) /\ size # 0
  /\ \A i \in 1 .. size : p[i].tdm <= first[p[i].net]
  /\ Spare(first, p) > 0

\* r is p with the ratio u for the first m nets.
Leading(heavy, size, p, r, m, u) ==
  /\ r \in Plans(heavy, size)
  /\ \A i \in 1 .. size :
       r[i].net = p[i].net /\ r[i].tdm = IF i <= m THEN u ELSE p[i].tdm

\* The first m nets of the plan have the same ratio.
Even(size, p, m) == m \in 1 .. size /\ \A i \in 1 .. m : p[i].tdm = p[1].tdm

\* What a plan is made of.
LEMMA PlannedFacts ==
  ASSUME NEW D, NEW first, NEW heavy, NEW size, NEW p, Planned(D, first, heavy, size, p)
  PROVE  /\ IsFiniteSet(D) /\ first \in [D -> Ratio] /\ heavy \in SUBSET D
         /\ size \in Nat \ {0} /\ p \in Plans(heavy, size) /\ DOMAIN p = 1 .. size /\ Len(p) = size
         /\ \A i \in 1 .. size : /\ p[i].net \in heavy /\ p[i].net \in D /\ p[i].tdm \in Ratio
                                 /\ p[i].tdm <= first[p[i].net]
         /\ Spare(first, p) \in Nat \ {0}
         /\ H!RatioSum(H!Overlay(first, p)) \in Int
<1>1. /\ IsFiniteSet(D) /\ first \in [D -> Ratio] /\ heavy \in SUBSET D
      /\ size \in Nat \ {0} /\ p \in Plans(heavy, size) /\ PlanFor(D, first, heavy, size, p)
      /\ Spare(first, p) > 0 /\ \A i \in 1 .. size : p[i].tdm <= first[p[i].net]
  BY DEF Planned, PlanFor
<1>2. p \in [1 .. size -> [net : heavy, tdm : Ratio]]
  BY <1>1 DEF Plans
<1>3. DOMAIN p = 1 .. size /\ Len(p) = size
  <2>1. size \in Nat
    BY <1>1
  <2> QED
    BY ONLY <1>2, <2>1, LengthOf
<1>4. \A i \in 1 .. size : p[i].net \in heavy /\ p[i].net \in D /\ p[i].tdm \in Ratio
  BY <1>1, <1>2
<1>5. H!RatioSum(H!Overlay(first, p)) \in Int
  <2>1. H!Overlay(first, p) \in [D -> Ratio]
    BY <1>1, OverlayFacts
  <2> QED
    BY <1>1, <2>1, RatioSums
<1>6. Spare(first, p) \in Nat \ {0}
  BY <1>1, <1>5, ScaleAssumption DEF Spare
<1> QED
  BY <1>1, <1>3, <1>4, <1>5, <1>6

\* The leading nets may come down by less than the quotient.
LEMMA LeadersDown ==
  ASSUME NEW D, NEW first, NEW heavy, NEW size, NEW p, Planned(D, first, heavy, size, p),
         NEW m, Even(size, p, m), NEW u \in Ratio, u <= p[1].tdm,
         (p[1].tdm - u) * Divisor(p[1].tdm, m, Spare(first, p)) < Dividend(p[1].tdm, Spare(first, p)),
         NEW r, Leading(heavy, size, p, r, m, u)
  PROVE  /\ Planned(D, first, heavy, size, r)
         /\ Spare(first, r) = Spare(first, p) - m * ((Scale \div u) - (Scale \div p[1].tdm))
<1> DEFINE t == p[1].tdm
           M == Spare(first, p)
           x == m * ((Scale \div u) - (Scale \div t))
           b == [j \in 1 .. m |-> j]
<1>1. /\ size \in Nat \ {0} /\ M \in Nat \ {0}
      /\ \A i \in 1 .. size : /\ p[i].tdm \in Ratio /\ p[i].tdm <= first[p[i].net]
                              /\ first[p[i].net] \in Nat
  <2>1. /\ size \in Nat \ {0} /\ M \in Nat \ {0} /\ first \in [D -> Ratio]
        /\ \A i \in 1 .. size : /\ p[i].net \in D /\ p[i].tdm \in Ratio
                                /\ p[i].tdm <= first[p[i].net]
    BY PlannedFacts
  <2> HIDE DEF M
  <2> QED
    BY <2>1 DEF Ratio
<1>2. m \in 1 .. size /\ \A i \in 1 .. m : p[i].tdm = t
  BY DEF Even
<1>3. m \in Nat \ {0} /\ m <= size /\ t \in Ratio /\ u <= t
  BY <1>1, <1>2
<1>4. r \in Plans(heavy, size) /\ \A i \in 1 .. size :
        r[i].net = p[i].net /\ r[i].tdm = IF i <= m THEN u ELSE p[i].tdm
  BY DEF Leading
<1>5. x < M
  <2>1. (t - u) * (m * Scale + t * M) < t * t * M
    BY DEF Divisor, Dividend
  <2> HIDE DEF t, M
  <2> QED
    BY <1>1, <1>3, <2>1, Lowering
<1>6. PlanFor(D, first, heavy, size, p)
  BY DEF Planned
<1>7. /\ PlanFor(D, first, heavy, size, r)
      /\ H!RatioSum(H!Overlay(first, r)) = H!RatioSum(H!Overlay(first, p)) + x
  <2>1. b \in [1 .. m -> 1 .. size] /\ \A i, j \in 1 .. m : b[i] = b[j] => i = j
    BY <1>1, <1>3
  <2>2. \A j \in 1 .. m : p[b[j]].tdm = t /\ r[b[j]].tdm = u
    <3>1. \A j \in 1 .. m : b[j] = j /\ j \in 1 .. size /\ j <= m
      BY <1>1, <1>3
    <3> HIDE DEF b, t
    <3> QED
      BY <1>2, <1>4, <3>1
  <2>3. \A i \in 1 .. size : (\A j \in 1 .. m : b[j] # i) => r[i].tdm = p[i].tdm
    <3>1. ASSUME NEW i \in 1 .. size, \A j \in 1 .. m : b[j] # i PROVE ~ (i <= m)
      <4>1. ASSUME i <= m PROVE FALSE
        <5>1. i \in 1 .. m /\ b[i] = i
          BY <1>1, <1>3, <4>1
        <5> QED
          BY <3>1, <5>1
      <4> QED
        BY <4>1
    <3> HIDE DEF b
    <3> QED
      BY <1>4, <3>1
  <2>4. \A i \in 1 .. size : r[i].net = p[i].net
    BY <1>4
  <2>5. m \in Nat /\ r \in Plans(heavy, size)
    BY <1>3, <1>4
  <2> HIDE DEF b, t
  <2> QED
    <3>1. Moves(heavy, size, p, r, m, b, t, u)
      BY <1>3, <2>1, <2>2, <2>3, <2>4, <2>5 DEF Moves
    <3> QED
      BY ONLY <1>6, <3>1, PlanChanged
<1>8. Spare(first, r) = M - x
  <2>1. x \in Int
    BY <1>3, Reciprocal
  <2>2. H!RatioSum(H!Overlay(first, p)) \in Int /\ Scale \in Int
    BY PlannedFacts, ScaleAssumption
  <2> HIDE DEF x
  <2> QED
    BY <1>7, <2>1, <2>2 DEF Spare
<1>9. Spare(first, r) > 0
  <2>1. x \in Int
    BY <1>3, Reciprocal
  <2> HIDE DEF x, M
  <2> QED
    BY <1>1, <1>5, <1>8, <2>1
<1>10. \A i \in 1 .. size : r[i].tdm <= first[r[i].net]
  <2> TAKE i \in 1 .. size
  <2>1. CASE i <= m
    <3>1. r[i].tdm = u /\ r[i].net = p[i].net /\ p[i].tdm = t
      BY <1>1, <1>2, <1>3, <1>4, <2>1
    <3>2. t \in Nat /\ u \in Nat /\ first[p[i].net] \in Nat /\ t <= first[p[i].net]
      BY <1>1, <1>3, <3>1 DEF Ratio
    <3> QED
      BY <1>3, <3>1, <3>2
  <2>2. CASE ~ (i <= m)
    BY <1>1, <1>4, <2>2
  <2> QED
    BY <2>1, <2>2
<1>11. Planned(D, first, heavy, size, r)
  BY <1>1, <1>7, <1>9, <1>10 DEF Planned
<1> QED
  BY <1>8, <1>11

-----------------------------------------------------------------------------
(* The refinement.                                                         *)

\* The nets of the plan from k to a are level, and the margin is no greater than what
\* these would use by coming down by 2.
Refinable(first, p, size, a, j) ==
  /\ a \in 1 .. size /\ j \in 1 .. a
  /\ \A i \in j .. a : p[i].tdm = p[j].tdm
  /\ p[j].tdm > 2 =>
       Spare(first, p) <= (a - j + 1) * ((Scale \div (p[j].tdm - 2)) - (Scale \div p[j].tdm))

\* 2 less than a ratio above 2 is a ratio.
LEMMA TwoLess ==
  ASSUME NEW t \in Ratio, t > 2
  PROVE  t - 2 \in Ratio /\ t - 2 <= t /\ t - (t - 2) = 2
BY ScaleAssumption DEF Ratio

\* The decrement of the code leaves too little margin for another one.
LEMMA LevelIsLow ==
  ASSUME NEW D, NEW first, NEW heavy, NEW size, NEW p, Planned(D, first, heavy, size, p),
         NEW m, Even(size, p, m), NEW d,
         d = EvenBelow(Dividend(p[1].tdm, Spare(first, p)), Divisor(p[1].tdm, m, Spare(first, p))),
         NEW r, Leading(heavy, size, p, r, m, p[1].tdm - d)
  PROVE  Planned(D, first, heavy, size, r) /\ Refinable(first, r, size, m, 1)
<1> DEFINE t == p[1].tdm
           M == Spare(first, p)
           u == t - d
           su == Scale \div u
           st == Scale \div t
<1>1. /\ size \in Nat \ {0} /\ M \in Nat \ {0} /\ t \in Ratio /\ m \in 1 .. size /\ m \in Nat \ {0}
  <2>1. size \in Nat \ {0} /\ M \in Nat \ {0} /\ \A i \in 1 .. size : p[i].tdm \in Ratio
    BY PlannedFacts
  <2>2. m \in 1 .. size
    BY DEF Even
  <2> HIDE DEF M
  <2> QED
    BY <2>1, <2>2
<1>2. /\ u \in Ratio /\ t - u = d /\ d \in Nat
      /\ d * Divisor(t, m, M) < Dividend(t, M)
      /\ Dividend(t, M) <= (d + 2) * Divisor(t, m, M)
  <2>1. d = EvenBelow(Dividend(t, M), Divisor(t, m, M))
    OBVIOUS
  <2> HIDE DEF M, t
  <2> QED
    BY ONLY <1>1, <2>1, EvenQuotient DEF u
<1>3. u <= t /\ t \in Nat /\ u \in Nat
  BY <1>1, <1>2 DEF Ratio
<1>4. /\ Planned(D, first, heavy, size, r)
      /\ Spare(first, r) = M - m * (su - st)
  <2>1. (t - u) * Divisor(t, m, M) < Dividend(t, M)
    BY <1>2
  <2>2. Leading(heavy, size, p, r, m, u)
    OBVIOUS
  <2> HIDE DEF u
  <2> QED
    BY <1>2, <1>3, <2>1, <2>2, LeadersDown
<1>5. \A i \in 1 .. m : i \in 1 .. size /\ r[i].tdm = u
  <2>1. \A i \in 1 .. size : r[i].tdm = IF i <= m THEN u ELSE p[i].tdm
    BY DEF Leading
  <2> HIDE DEF u
  <2> QED
    BY <1>1, <2>1
<1>6. ASSUME u > 2
      PROVE  Spare(first, r) <= m * ((Scale \div (u - 2)) - su)
  <2> DEFINE w == u - 2
             sw == Scale \div w
  <2>1. w \in Ratio /\ w <= t /\ t - w = d + 2
    <3>1. w \in Ratio /\ w <= u
      BY <1>2, <1>6, TwoLess
    <3> HIDE DEF u, t
    <3>2. w = u - 2
      OBVIOUS
    <3> QED
      BY <1>2, <1>3, <3>1, <3>2 DEF Ratio
  <2>2. ~ ((t - w) * Divisor(t, m, M) < Dividend(t, M))
    <3>1. Divisor(t, m, M) \in Int /\ Dividend(t, M) \in Int
      <4>1. Scale \in Nat /\ m \in Nat /\ M \in Nat
        BY <1>1, ScaleAssumption
      <4> HIDE DEF t, M
      <4> QED
        BY <1>3, <4>1 DEF Divisor, Dividend
    <3> DEFINE x == (d + 2) * Divisor(t, m, M)
               y == Dividend(t, M)
    <3>2. x \in Int /\ y \in Int /\ y <= x
      BY <1>2, <3>1
    <3>3. (t - w) * Divisor(t, m, M) = x
      BY <2>1
    <3> HIDE DEF x, y, w, t
    <3>4. ~ (x < y)
      BY <3>2
    <3> QED
      BY <3>3, <3>4 DEF y
  <2> HIDE DEF w
  <2>3. ~ (m * (sw - st) < M)
    <3>1. ~ ((t - w) * (m * Scale + t * M) < t * t * M)
      BY <2>2 DEF Divisor, Dividend
    <3> HIDE DEF t, M
    <3> QED
      BY <1>1, <2>1, <3>1, Lowering
  <2>4. sw \in Int /\ su \in Int /\ st \in Int
    BY <1>1, <1>2, <2>1, Reciprocal
  <2> DEFINE x == m * (sw - st)
             y == m * (su - st)
             z == m * (sw - su)
  <2>5. x \in Int /\ y \in Int /\ z \in Int /\ z = x - y
    <3> HIDE DEF sw, su, st
    <3> QED
      BY <1>1, <2>4
  <2>6. Spare(first, r) = M - y /\ ~ (x < M)
    BY <1>4, <2>3
  <2>7. Spare(first, r) <= z
    <3> HIDE DEF x, y, z, M
    <3> QED
      BY <1>1, <2>5, <2>6
  <2> QED
    BY <2>7 DEF w
<1>7. Refinable(first, r, size, m, 1)
  <2>1. r[1].tdm = u /\ \A i \in 1 .. m : r[i].tdm = r[1].tdm
    BY <1>1, <1>5
  <2>2. m - 1 + 1 = m
    BY <1>1
  <2> HIDE DEF u
  <2> QED
    BY <1>1, <1>6, <2>1, <2>2 DEF Refinable
<1> QED
  BY <1>4, <1>7

\* r is p, but 2 less for the net at j.
Lowered(heavy, size, p, r, j) ==
  /\ r \in Plans(heavy, size) /\ j \in 1 .. size
  /\ \A i \in 1 .. size :
       r[i].net = p[i].net /\ r[i].tdm = IF i = j THEN p[j].tdm - 2 ELSE p[i].tdm

\* The refinement lowers one net and goes on to the next; the last of the level
\* cannot be lowered.
LEMMA NextIsRefinable ==
  ASSUME NEW D, NEW first, NEW heavy, NEW size, NEW p, Planned(D, first, heavy, size, p),
         NEW a, NEW j, Refinable(first, p, size, a, j), p[j].tdm > 2,
         NEW r, Lowered(heavy, size, p, r, j), Spare(first, r) > 0
  PROVE  /\ Planned(D, first, heavy, size, r)
         /\ j + 1 \in 1 .. a /\ Refinable(first, r, size, a, j + 1)
<1> DEFINE t == p[j].tdm
           u == t - 2
           step == (Scale \div u) - (Scale \div t)
           b == [i \in 1 .. 1 |-> j]
<1>1. /\ size \in Nat \ {0}
      /\ \A i \in 1 .. size : /\ p[i].tdm \in Ratio /\ p[i].tdm <= first[p[i].net]
                              /\ first[p[i].net] \in Nat
  <2>1. /\ size \in Nat \ {0} /\ first \in [D -> Ratio]
        /\ \A i \in 1 .. size : /\ p[i].net \in D /\ p[i].tdm \in Ratio
                                /\ p[i].tdm <= first[p[i].net]
    BY PlannedFacts
  <2> QED
    BY <2>1 DEF Ratio
<1>2. /\ a \in 1 .. size /\ j \in 1 .. a /\ j \in 1 .. size /\ j \in Nat \ {0} /\ a \in Nat \ {0}
      /\ \A i \in j .. a : p[i].tdm = t
      /\ Spare(first, p) <= (a - j + 1) * step
  BY <1>1 DEF Refinable
<1>3. t \in Ratio /\ t > 2 /\ u \in Ratio /\ u <= t /\ t \in Nat /\ u \in Nat
  <2>1. t \in Ratio /\ t > 2
    BY <1>1, <1>2
  <2> HIDE DEF t
  <2>2. u \in Ratio /\ u <= t
    BY <2>1, TwoLess
  <2> HIDE DEF u
  <2> QED
    BY <2>1, <2>2 DEF Ratio
<1>4. /\ r \in Plans(heavy, size) /\ \A i \in 1 .. size :
           r[i].net = p[i].net /\ r[i].tdm = IF i = j THEN u ELSE p[i].tdm
  BY DEF Lowered
<1>5. step \in Int
  BY <1>3, Reciprocal
<1> HIDE DEF t, u
<1>6. /\ PlanFor(D, first, heavy, size, r)
      /\ H!RatioSum(H!Overlay(first, r)) = H!RatioSum(H!Overlay(first, p)) + 1 * step
  <2>1. PlanFor(D, first, heavy, size, p)
    BY DEF Planned
  <2>2. b \in [1 .. 1 -> 1 .. size] /\ (\A h, i \in 1 .. 1 : b[h] = b[i] => h = i) /\ 1 \in 1 .. 1
        /\ \A i \in 1 .. 1 : b[i] = j
    BY <1>2
  <2> HIDE DEF b
  <2>3. \A i \in 1 .. 1 : p[b[i]].tdm = t /\ r[b[i]].tdm = u
    BY <1>2, <1>4, <2>2 DEF t
  <2>4. \A i \in 1 .. size : (\A h \in 1 .. 1 : b[h] # i) => r[i].tdm = p[i].tdm
    BY <1>4, <2>2
  <2>5. Moves(heavy, size, p, r, 1, b, t, u)
    BY <1>3, <1>4, <2>2, <2>3, <2>4 DEF Moves
  <2> QED
    BY ONLY <2>1, <2>5, PlanChanged
<1> HIDE DEF step
<1>7. Spare(first, r) = Spare(first, p) - step /\ Spare(first, p) \in Int
  <2>1. H!RatioSum(H!Overlay(first, p)) \in Int /\ Scale \in Int
    BY PlannedFacts, ScaleAssumption
  <2> QED
    BY <1>5, <1>6, <2>1 DEF Spare
<1>8. \A i \in 1 .. size : r[i].tdm <= first[r[i].net]
  <2> TAKE i \in 1 .. size
  <2>1. CASE i = j
    <3>1. r[i].tdm = u /\ r[i].net = p[i].net /\ p[i].tdm = t
      BY <1>4, <2>1 DEF t
    <3> QED
      BY <1>1, <1>3, <3>1
  <2>2. CASE i # j
    BY <1>1, <1>4, <2>2
  <2> QED
    BY <2>1, <2>2
<1>9. Planned(D, first, heavy, size, r)
  BY <1>1, <1>6, <1>8 DEF Planned
<1>10. Spare(first, r) <= (a - j) * step
  <2> DEFINE x == (a - j) * step
             y == (a - j + 1) * step
  <2>1. x \in Int /\ y \in Int /\ y = x + step
    BY <1>2, <1>5
  <2>2. Spare(first, p) <= y
    BY <1>2
  <2> HIDE DEF x, y
  <2>3. Spare(first, r) <= x
    BY <1>5, <1>7, <2>1, <2>2
  <2> QED
    BY <2>3 DEF x
<1>11. j < a
  <2>1. ASSUME a = j PROVE FALSE
    <3>1. (a - j) * step = 0
      BY <1>2, <1>5, <2>1
    <3> QED
      BY <1>5, <1>7, <1>10, <3>1
  <2> QED
    BY <1>2, <2>1
<1>12. /\ j + 1 \in 1 .. a /\ r[j + 1].tdm = t
       /\ \A i \in j + 1 .. a : r[i].tdm = t
  <2>1. j + 1 \in 1 .. a /\ j + 1 \in j + 1 .. a
    BY <1>2, <1>11
  <2>2. \A i \in j + 1 .. a : i \in 1 .. size /\ i # j /\ i \in j .. a
    <3>1. size \in Nat /\ a \in 1 .. size /\ j \in 1 .. a
      BY <1>1, <1>2
    <3> QED
      BY ONLY <3>1
  <2>3. \A i \in j + 1 .. a : r[i].tdm = t
    BY <1>2, <1>4, <2>2
  <2> QED
    BY <2>1, <2>3
<1>13. a - (j + 1) + 1 = a - j
  BY <1>2
<1>14. Refinable(first, r, size, a, j + 1)
  <2>1. Spare(first, r) <= (a - (j + 1) + 1) * ((Scale \div (t - 2)) - (Scale \div t))
    BY <1>10, <1>13 DEF step, u
  <2> QED
    BY <1>2, <1>12, <2>1 DEF Refinable
<1> QED
  BY <1>9, <1>12, <1>14

-----------------------------------------------------------------------------
(* The inductive invariant: how each edge stands in each phase.            *)

\* The ratios initTDM() gives, and the nets round() may lower.
FirstOf(in, e) == H!InitRatios(in, H!MaxUsedEdges(in), e)

HeavyNets(in, tdms, e) ==
  {x \in H!PassingNets(in, e) : H!MaxOfGroups(in, tdms, x) >= H!SortSeq(tdms, >)[3]}

Unplanned(p, a, j) == p = <<>> /\ a = 1 /\ j = 1

\* The ratios of a list do not rise.
Descends(p, size) == \A i, j \in 1 .. size : i < j => p[i].tdm >= p[j].tdm

\* The constraint is kept, and at most one ratio is not the first one: a lower one, of
\* a net that may be lowered.
Settled(D, first, heavy, ratio) ==
  /\ ratio \in [D -> Ratio] /\ H!RatioSum(ratio) <= Scale
  /\ \A x \in D : ratio[x] # first[x] => ratio[x] < first[x] /\ x \in heavy
  /\ \A x, y \in D : ratio[x] # first[x] /\ ratio[y] # first[y] => x = y

\* at, ratio, p, a and j are what edgePc, passing, plan, n and k have for the edge.
EdgeRight(D, first, heavy, ph, at, ratio, p, a, j) ==
  /\ a \in 1 .. Len(p) + 1 /\ j \in 1 .. Len(p) + 1
  /\ ph = "weights" => at = "todo" /\ Unplanned(p, a, j)
  /\ ph = "init" => /\ Unplanned(p, a, j) /\ DOMAIN ratio = D
                    /\ at = "todo" \/ (at = "done" /\ ratio = first)
  /\ ph = "round" =>
       \/ at = "todo" /\ ratio = first /\ Unplanned(p, a, j)
       \/ /\ at = "loop" /\ ratio = first /\ j = 1
          /\ Planned(D, first, heavy, Len(p), p) /\ Even(Len(p), p, a) /\ Descends(p, Len(p))
       \/ /\ at = "refine" /\ ratio = first
          /\ Planned(D, first, heavy, Len(p), p) /\ Refinable(first, p, Len(p), a, j)
       \/ at = "done" /\ Settled(D, first, heavy, ratio)
  /\ ph \in {"apply", "done"} => at = "done" /\ Settled(D, first, heavy, ratio)

EdgeStands(e) ==
  EdgeRight(H!PassingNets(input, e), FirstOf(input, e), HeavyNets(input, groupTdm, e),
            phase, edgePc[e], passing[e], plan[e], levelled[e], refined[e])

Tables == DOMAIN passing = Edge /\ DOMAIN plan = Edge /\ DOMAIN levelled = Edge
          /\ DOMAIN refined = Edge /\ DOMAIN edgePc = Edge

\* Nothing is in the topology before apply().
Applied == tdm = IF phase = "done"
                 THEN [e \in Edge |-> [x \in H!Net |-> IF x \in DOMAIN passing[e] THEN passing[e][x] ELSE 0]]
                 ELSE [e \in Edge |-> [x \in H!Net |-> 0]]

HeuristicInv ==
  /\ input \in Inputs
  /\ phase \in {"weights", "init", "round", "apply", "done"}
  /\ phase # "weights" => maxUsedEdges = H!MaxUsedEdges(input)
  /\ Tables /\ Applied
  /\ \A e \in Edge : EdgeStands(e)

\* Heavy reads what HeavyNets takes as parameters,
LEMMA HeavyIs ==
  ASSUME NEW e, DOMAIN passing[e] = H!PassingNets(input, e)
  PROVE  H!Heavy(e) = HeavyNets(input, groupTdm, e) /\ H!Heavy(e) \subseteq H!PassingNets(input, e)
BY DEF H!Heavy, HeavyNets, H!MaxGroupTdm, H!RoundingThreshold

\* and Margin what Spare does.
LEMMA MarginIs ==
  ASSUME NEW e
  PROVE  H!Margin(e) = Spare(passing[e], plan[e])
BY DEF H!Margin, Spare

\* The ratios initTDM() gives settle an edge.
LEMMA FirstSettles ==
  ASSUME Assumed, NEW in \in Inputs, NEW e \in Edge, NEW heavy
  PROVE  Settled(H!PassingNets(in, e), FirstOf(in, e), heavy, FirstOf(in, e))
BY FirstRatios DEF Settled, FirstOf

\* Before the constructor no edge has a ratio or a plan.
LEMMA HeuristicInit == H!Init => HeuristicInv
<1> SUFFICES ASSUME H!Init PROVE HeuristicInv
  OBVIOUS
<1>1. /\ input \in Inputs /\ phase = "weights"
      /\ passing = [e \in Edge |-> <<>>] /\ plan = [e \in Edge |-> <<>>]
      /\ levelled = [e \in Edge |-> 1] /\ refined = [e \in Edge |-> 1]
      /\ edgePc = [e \in Edge |-> "todo"]
      /\ tdm = [e \in Edge |-> [x \in H!Net |-> 0]]
  BY DEF H!Init
<1>2. Tables /\ Applied
  BY <1>1 DEF Tables, Applied
<1>3. ASSUME NEW e \in Edge PROVE EdgeStands(e)
  <2>1. plan[e] = <<>> /\ levelled[e] = 1 /\ refined[e] = 1 /\ edgePc[e] = "todo" /\ Len(plan[e]) = 0
    BY <1>1
  <2> QED
    BY <1>1, <2>1 DEF EdgeStands, EdgeRight, Unplanned
<1> QED
  BY <1>1, <1>2, <1>3 DEF HeuristicInv

\* A step of one edge leaves the others alone.
LEMMA OneEdge ==
  ASSUME HeuristicInv, NEW e \in Edge, phase \in {"init", "round"},
         UNCHANGED <<input, maxUsedEdges, groupTdm, tdm, phase>>, Tables',
         \A f \in Edge : f # e =>
           /\ passing'[f] = passing[f] /\ plan'[f] = plan[f] /\ edgePc'[f] = edgePc[f]
           /\ levelled'[f] = levelled[f] /\ refined'[f] = refined[f],
         EdgeRight(H!PassingNets(input, e), FirstOf(input, e), HeavyNets(input, groupTdm, e),
                   phase, edgePc'[e], passing'[e], plan'[e], levelled'[e], refined'[e])
  PROVE  HeuristicInv'
<1>1. /\ input' = input /\ maxUsedEdges' = maxUsedEdges /\ groupTdm' = groupTdm
      /\ tdm' = tdm /\ phase' = phase
  OBVIOUS
<1>2. Applied'
  BY <1>1 DEF HeuristicInv, Applied
<1>3. ASSUME NEW f \in Edge PROVE EdgeStands(f)'
  <2>1. CASE f = e
    BY <1>1, <2>1 DEF EdgeStands
  <2>2. CASE f # e
    <3>1. EdgeStands(f)
      BY DEF HeuristicInv
    <3>2. /\ passing'[f] = passing[f] /\ plan'[f] = plan[f] /\ edgePc'[f] = edgePc[f]
          /\ levelled'[f] = levelled[f] /\ refined'[f] = refined[f]
      BY <2>2
    <3> QED
      BY ONLY <1>1, <3>1, <3>2 DEF EdgeStands
  <2> QED
    BY <2>1, <2>2
<1> QED
  BY <1>1, <1>2, <1>3 DEF HeuristicInv

-----------------------------------------------------------------------------
(* The steps of the phases.                                                *)

\* The constructor gives each edge a table of its nets.
LEMMA CalcWeightsStep == HeuristicInv /\ H!CalcWeights => HeuristicInv'
<1> SUFFICES ASSUME HeuristicInv, H!CalcWeights PROVE HeuristicInv'
  OBVIOUS
<1>1. /\ phase = "weights" /\ phase' = "init" /\ maxUsedEdges' = H!MaxUsedEdges(input)
      /\ passing' = [e \in Edge |-> [x \in H!PassingNets(input, e) |-> 0]]
      /\ input' = input /\ groupTdm' = groupTdm /\ plan' = plan /\ levelled' = levelled
      /\ refined' = refined /\ edgePc' = edgePc /\ tdm' = tdm
  BY DEF H!CalcWeights
<1>2. Tables' /\ Applied'
  <2>1. Tables /\ Applied
    BY DEF HeuristicInv
  <2> QED
    BY <1>1, <2>1 DEF Tables, Applied
<1>3. ASSUME NEW e \in Edge PROVE EdgeStands(e)'
  <2>1. EdgeStands(e)
    BY DEF HeuristicInv
  <2>2. /\ levelled[e] \in 1 .. Len(plan[e]) + 1 /\ refined[e] \in 1 .. Len(plan[e]) + 1
        /\ edgePc[e] = "todo" /\ Unplanned(plan[e], levelled[e], refined[e])
    BY <1>1, <2>1 DEF EdgeStands, EdgeRight
  <2>3. DOMAIN (passing'[e]) = H!PassingNets(input, e)
    BY <1>1
  <2> QED
    BY <1>1, <2>2, <2>3 DEF EdgeStands, EdgeRight
<1> QED
  BY <1>1, <1>2, <1>3 DEF HeuristicInv

\* initTDM() gives an edge its first ratios.
LEMMA InitEdgeStep ==
  ASSUME HeuristicInv, NEW e \in Edge, H!InitEdge(e)
  PROVE  HeuristicInv'
<1>1. /\ phase = "init" /\ edgePc[e] = "todo"
      /\ passing' = [passing EXCEPT ![e] = H!InitRatios(input, maxUsedEdges, e)]
      /\ edgePc' = [edgePc EXCEPT ![e] = "done"]
      /\ UNCHANGED <<input, maxUsedEdges, groupTdm, plan, levelled, refined, tdm, phase>>
  BY DEF H!InitEdge
<1>2. Tables /\ EdgeStands(e) /\ maxUsedEdges = H!MaxUsedEdges(input) /\ input \in Inputs
  BY <1>1 DEF HeuristicInv
<1>3. passing'[e] = FirstOf(input, e) /\ edgePc'[e] = "done"
  BY <1>1, <1>2 DEF Tables, FirstOf
<1>4. /\ levelled[e] \in 1 .. Len(plan[e]) + 1 /\ refined[e] \in 1 .. Len(plan[e]) + 1
      /\ Unplanned(plan[e], levelled[e], refined[e])
  BY <1>1, <1>2 DEF EdgeStands, EdgeRight
<1>5. DOMAIN FirstOf(input, e) = H!PassingNets(input, e)
  BY DEF FirstOf, H!InitRatios
<1>6. EdgeRight(H!PassingNets(input, e), FirstOf(input, e), HeavyNets(input, groupTdm, e),
                phase, edgePc'[e], passing'[e], plan'[e], levelled'[e], refined'[e])
  <2>1. plan'[e] = plan[e] /\ levelled'[e] = levelled[e] /\ refined'[e] = refined[e]
    BY <1>1
  <2> QED
    BY <1>1, <1>3, <1>4, <1>5, <2>1 DEF EdgeRight
<1>7. Tables' /\ \A f \in Edge : f # e =>
        /\ passing'[f] = passing[f] /\ plan'[f] = plan[f] /\ edgePc'[f] = edgePc[f]
        /\ levelled'[f] = levelled[f] /\ refined'[f] = refined[f]
  BY <1>1, <1>2 DEF Tables
<1> QED
  BY <1>1, <1>6, <1>7, OneEdge

\* initTDM() is done with all edges.
LEMMA AllInitialized ==
  ASSUME HeuristicInv, phase = "init", H!AllEdges("done"), NEW e \in Edge
  PROVE  /\ passing[e] = FirstOf(input, e) /\ edgePc[e] = "done"
         /\ Unplanned(plan[e], levelled[e], refined[e])
         /\ levelled[e] \in 1 .. Len(plan[e]) + 1 /\ refined[e] \in 1 .. Len(plan[e]) + 1
<1>1. edgePc[e] = "done" /\ EdgeStands(e)
  BY DEF HeuristicInv, H!AllEdges
<1> QED
  BY <1>1 DEF EdgeStands, EdgeRight

\* Without round() all edges keep their first ratios,
LEMMA SkipRefinementStep == Assumed /\ HeuristicInv /\ H!SkipRefinement => HeuristicInv'
<1> SUFFICES ASSUME Assumed, HeuristicInv, H!SkipRefinement PROVE HeuristicInv'
  OBVIOUS
<1>1. /\ phase = "init" /\ H!AllEdges("done") /\ phase' = "apply"
      /\ input' = input /\ maxUsedEdges' = maxUsedEdges /\ passing' = passing
      /\ groupTdm' = groupTdm /\ plan' = plan /\ levelled' = levelled
      /\ refined' = refined /\ edgePc' = edgePc /\ tdm' = tdm
  BY DEF H!SkipRefinement
<1>2. Tables' /\ Applied' /\ input \in Inputs
  <2>1. Tables /\ Applied /\ input \in Inputs
    BY DEF HeuristicInv
  <2> QED
    BY <1>1, <2>1 DEF Tables, Applied
<1>3. ASSUME NEW e \in Edge PROVE EdgeStands(e)'
  <2>1. /\ passing[e] = FirstOf(input, e) /\ edgePc[e] = "done"
        /\ levelled[e] \in 1 .. Len(plan[e]) + 1 /\ refined[e] \in 1 .. Len(plan[e]) + 1
    BY <1>1, AllInitialized
  <2>2. Settled(H!PassingNets(input, e), FirstOf(input, e), HeavyNets(input, groupTdm, e), passing[e])
    BY <1>2, <2>1, FirstSettles
  <2> QED
    BY <1>1, <2>1, <2>2 DEF EdgeStands, EdgeRight
<1> QED
  BY <1>1, <1>2, <1>3 DEF HeuristicInv

\* and with it all start from them.
LEMMA CalcGroupTDMStep == HeuristicInv /\ H!CalcGroupTDM => HeuristicInv'
<1> SUFFICES ASSUME HeuristicInv, H!CalcGroupTDM PROVE HeuristicInv'
  OBVIOUS
<1>1. /\ phase = "init" /\ H!AllEdges("done") /\ phase' = "round"
      /\ input' = input /\ maxUsedEdges' = maxUsedEdges /\ passing' = passing
      /\ plan' = plan /\ levelled' = levelled /\ refined' = refined /\ tdm' = tdm
      /\ edgePc' = [e \in Edge |-> "todo"]
  BY DEF H!CalcGroupTDM
<1>2. Tables' /\ Applied'
  <2>1. Tables /\ Applied
    BY DEF HeuristicInv
  <2> QED
    BY <1>1, <2>1 DEF Tables, Applied
<1>3. ASSUME NEW e \in Edge PROVE EdgeStands(e)'
  <2>1. /\ passing[e] = FirstOf(input, e) /\ Unplanned(plan[e], levelled[e], refined[e])
        /\ levelled[e] \in 1 .. Len(plan[e]) + 1 /\ refined[e] \in 1 .. Len(plan[e]) + 1
    BY <1>1, AllInitialized
  <2>2. edgePc'[e] = "todo"
    BY <1>1
  <2> QED
    BY <1>1, <2>1, <2>2 DEF EdgeStands, EdgeRight
<1> QED
  BY <1>1, <1>2, <1>3 DEF HeuristicInv

\* round() is over when all edges are settled.
LEMMA EndRoundStep == HeuristicInv /\ H!EndRound => HeuristicInv'
<1> SUFFICES ASSUME HeuristicInv, H!EndRound PROVE HeuristicInv'
  OBVIOUS
<1>1. /\ phase = "round" /\ H!AllEdges("done") /\ phase' = "apply"
      /\ input' = input /\ maxUsedEdges' = maxUsedEdges /\ passing' = passing
      /\ groupTdm' = groupTdm /\ plan' = plan /\ levelled' = levelled
      /\ refined' = refined /\ edgePc' = edgePc /\ tdm' = tdm
  BY DEF H!EndRound
<1>2. Tables' /\ Applied'
  <2>1. Tables /\ Applied
    BY DEF HeuristicInv
  <2> QED
    BY <1>1, <2>1 DEF Tables, Applied
<1>3. ASSUME NEW e \in Edge PROVE EdgeStands(e)'
  <2>1. edgePc[e] = "done" /\ EdgeStands(e)
    BY <1>1 DEF HeuristicInv, H!AllEdges
  <2>2. /\ levelled[e] \in 1 .. Len(plan[e]) + 1 /\ refined[e] \in 1 .. Len(plan[e]) + 1
        /\ Settled(H!PassingNets(input, e), FirstOf(input, e), HeavyNets(input, groupTdm, e), passing[e])
    BY <1>1, <2>1 DEF EdgeStands, EdgeRight
  <2> QED
    BY <1>1, <2>1, <2>2 DEF EdgeStands, EdgeRight
<1> QED
  BY <1>1, <1>2, <1>3 DEF HeuristicInv

\* apply() copies the ratios.
LEMMA ApplyStep == HeuristicInv /\ H!Apply => HeuristicInv'
<1> SUFFICES ASSUME HeuristicInv, H!Apply PROVE HeuristicInv'
  OBVIOUS
<1>1. /\ phase = "apply" /\ phase' = "done"
      /\ tdm' = [e \in Edge |-> [x \in H!Net |-> IF x \in DOMAIN passing[e] THEN passing[e][x] ELSE tdm[e][x]]]
      /\ input' = input /\ maxUsedEdges' = maxUsedEdges /\ passing' = passing
      /\ groupTdm' = groupTdm /\ plan' = plan /\ levelled' = levelled
      /\ refined' = refined /\ edgePc' = edgePc
  BY DEF H!Apply
<1>2. Tables' /\ Applied'
  <2>1. Tables /\ Applied
    BY DEF HeuristicInv
  <2>2. \A e \in Edge : \A x \in H!Net : tdm[e][x] = 0
    BY <1>1, <2>1 DEF Applied
  <2>3. tdm' = [e \in Edge |-> [x \in H!Net |-> IF x \in DOMAIN passing[e] THEN passing[e][x] ELSE 0]]
    BY <1>1, <2>2
  <2> QED
    BY <1>1, <2>1, <2>3 DEF Tables, Applied
<1>3. ASSUME NEW e \in Edge PROVE EdgeStands(e)'
  <2>1. EdgeStands(e)
    BY DEF HeuristicInv
  <2>2. /\ levelled[e] \in 1 .. Len(plan[e]) + 1 /\ refined[e] \in 1 .. Len(plan[e]) + 1
        /\ edgePc[e] = "done"
        /\ Settled(H!PassingNets(input, e), FirstOf(input, e), HeavyNets(input, groupTdm, e), passing[e])
    BY <1>1, <2>1 DEF EdgeStands, EdgeRight
  <2> QED
    BY <1>1, <2>2 DEF EdgeStands, EdgeRight
<1> QED
  BY <1>1, <1>2, <1>3 DEF HeuristicInv

-----------------------------------------------------------------------------
(* The steps of one edge in round().                                       *)

\* What holds of an edge that round() is at.
LEMMA AtEdge ==
  ASSUME Assumed, HeuristicInv, phase = "round", NEW e \in Edge, edgePc[e] # "done"
  PROVE  /\ input \in Inputs /\ Tables
         /\ IsFiniteSet(H!PassingNets(input, e)) /\ H!PassingNets(input, e) \subseteq Nat
         /\ passing[e] = FirstOf(input, e) /\ passing[e] \in [H!PassingNets(input, e) -> Ratio]
         /\ H!Heavy(e) = HeavyNets(input, groupTdm, e)
         /\ H!Heavy(e) \subseteq H!PassingNets(input, e)
         /\ H!Margin(e) = Spare(passing[e], plan[e])
         /\ levelled[e] \in 1 .. Len(plan[e]) + 1 /\ refined[e] \in 1 .. Len(plan[e]) + 1
         /\ edgePc[e] = "todo" => Unplanned(plan[e], levelled[e], refined[e])
         /\ edgePc[e] \in {"loop", "refine"} =>
              Planned(H!PassingNets(input, e), passing[e], H!Heavy(e), Len(plan[e]), plan[e])
         /\ edgePc[e] = "loop" =>
              /\ Even(Len(plan[e]), plan[e], levelled[e]) /\ Descends(plan[e], Len(plan[e]))
              /\ refined[e] = 1
         /\ edgePc[e] = "refine" =>
              Refinable(passing[e], plan[e], Len(plan[e]), levelled[e], refined[e])
<1> DEFINE P == H!PassingNets(input, e)
           heavy == HeavyNets(input, groupTdm, e)
<1>1. input \in Inputs /\ Tables /\ EdgeStands(e)
  BY DEF HeuristicInv
<1>2. /\ levelled[e] \in 1 .. Len(plan[e]) + 1 /\ refined[e] \in 1 .. Len(plan[e]) + 1
      /\ \/ /\ edgePc[e] = "todo" /\ passing[e] = FirstOf(input, e)
            /\ Unplanned(plan[e], levelled[e], refined[e])
         \/ /\ edgePc[e] = "loop" /\ passing[e] = FirstOf(input, e) /\ refined[e] = 1
            /\ Planned(P, FirstOf(input, e), heavy, Len(plan[e]), plan[e])
            /\ Even(Len(plan[e]), plan[e], levelled[e]) /\ Descends(plan[e], Len(plan[e]))
         \/ /\ edgePc[e] = "refine" /\ passing[e] = FirstOf(input, e)
            /\ Planned(P, FirstOf(input, e), heavy, Len(plan[e]), plan[e])
            /\ Refinable(FirstOf(input, e), plan[e], Len(plan[e]), levelled[e], refined[e])
  BY <1>1 DEF EdgeStands, EdgeRight
<1>3. IsFiniteSet(P) /\ FirstOf(input, e) \in [P -> Ratio]
  BY <1>1, FirstRatios DEF FirstOf
<1>4. P \subseteq Nat
  <2>1. P \subseteq H!Net /\ H!Net \subseteq Nat
    BY <1>1, InputFacts
  <2> QED
    BY <2>1
<1>5. passing[e] = FirstOf(input, e)
  BY <1>2
<1>6. H!Heavy(e) = heavy /\ H!Heavy(e) \subseteq P
  BY <1>3, <1>5, HeavyIs
<1>7. H!Margin(e) = Spare(passing[e], plan[e])
  BY MarginIs
<1> HIDE DEF P, heavy
<1> QED
  BY <1>1, <1>2, <1>3, <1>4, <1>5, <1>6, <1>7 DEF P, heavy

\* What a step of one edge has to show.
LEMMA RoundStep ==
  ASSUME Assumed, HeuristicInv, phase = "round", NEW e \in Edge, edgePc[e] # "done",
         UNCHANGED <<input, maxUsedEdges, groupTdm, tdm, phase>>, Tables',
         \A f \in Edge : f # e =>
           /\ passing'[f] = passing[f] /\ plan'[f] = plan[f] /\ edgePc'[f] = edgePc[f]
           /\ levelled'[f] = levelled[f] /\ refined'[f] = refined[f],
         levelled'[e] \in 1 .. Len(plan'[e]) + 1, refined'[e] \in 1 .. Len(plan'[e]) + 1,
         \/ /\ edgePc'[e] = "loop" /\ passing'[e] = passing[e] /\ refined'[e] = 1
            /\ Planned(H!PassingNets(input, e), passing[e], H!Heavy(e), Len(plan'[e]), plan'[e])
            /\ Even(Len(plan'[e]), plan'[e], levelled'[e]) /\ Descends(plan'[e], Len(plan'[e]))
         \/ /\ edgePc'[e] = "refine" /\ passing'[e] = passing[e]
            /\ Planned(H!PassingNets(input, e), passing[e], H!Heavy(e), Len(plan'[e]), plan'[e])
            /\ Refinable(passing[e], plan'[e], Len(plan'[e]), levelled'[e], refined'[e])
         \/ /\ edgePc'[e] = "done"
            /\ Settled(H!PassingNets(input, e), passing[e], H!Heavy(e), passing'[e])
  PROVE  HeuristicInv'
<1>1. passing[e] = FirstOf(input, e) /\ H!Heavy(e) = HeavyNets(input, groupTdm, e)
  BY AtEdge
<1>2. EdgeRight(H!PassingNets(input, e), FirstOf(input, e), HeavyNets(input, groupTdm, e),
                phase, edgePc'[e], passing'[e], plan'[e], levelled'[e], refined'[e])
  BY <1>1 DEF EdgeRight
<1> QED
  BY <1>2, OneEdge

\* An edge whose ratios stay the first ones is settled.
LEMMA KeepsFirst ==
  ASSUME Assumed, HeuristicInv, phase = "round", NEW e \in Edge, edgePc[e] # "done"
  PROVE  Settled(H!PassingNets(input, e), passing[e], H!Heavy(e), passing[e])
<1>1. input \in Inputs /\ passing[e] = FirstOf(input, e)
  BY AtEdge
<1> QED
  BY <1>1, FirstSettles

\* An edge that has nothing to give is settled,
LEMMA SkipEdgeStep ==
  ASSUME Assumed, HeuristicInv, NEW e \in Edge, H!SkipEdge(e)
  PROVE  HeuristicInv'
<1>1. /\ phase = "round" /\ edgePc[e] = "todo"
      /\ edgePc' = [edgePc EXCEPT ![e] = "done"]
      /\ UNCHANGED <<input, maxUsedEdges, passing, groupTdm, plan, levelled, refined, tdm, phase>>
  BY DEF H!SkipEdge
<1>2. /\ Tables
      /\ levelled[e] \in 1 .. Len(plan[e]) + 1 /\ refined[e] \in 1 .. Len(plan[e]) + 1
      /\ Settled(H!PassingNets(input, e), passing[e], H!Heavy(e), passing[e])
  BY <1>1, AtEdge, KeepsFirst
<1>3. edgePc'[e] = "done" /\ Tables' /\ \A f \in Edge : f # e => edgePc'[f] = edgePc[f]
  BY <1>1, <1>2 DEF Tables
<1> QED
  BY <1>1, <1>2, <1>3, RoundStep

\* and so is one whose refinement stops at no net.
LEMMA EndRefineStep ==
  ASSUME Assumed, HeuristicInv, NEW e \in Edge, H!EndRefine(e), phase = "round"
  PROVE  HeuristicInv'
<1>1. /\ edgePc[e] = "refine"
      /\ edgePc' = [edgePc EXCEPT ![e] = "done"]
      /\ UNCHANGED <<input, maxUsedEdges, passing, groupTdm, plan, levelled, refined, tdm, phase>>
  BY DEF H!EndRefine
<1>2. /\ Tables
      /\ levelled[e] \in 1 .. Len(plan[e]) + 1 /\ refined[e] \in 1 .. Len(plan[e]) + 1
      /\ Settled(H!PassingNets(input, e), passing[e], H!Heavy(e), passing[e])
  BY <1>1, AtEdge, KeepsFirst
<1>3. edgePc'[e] = "done" /\ Tables' /\ \A f \in Edge : f # e => edgePc'[f] = edgePc[f]
  BY <1>1, <1>2 DEF Tables
<1> QED
  BY <1>1, <1>2, <1>3, RoundStep

\* round() only works on edges in its phase.
LEMMA LoopInRound ==
  ASSUME HeuristicInv, NEW e \in Edge, edgePc[e] \in {"loop", "refine"}
  PROVE  phase = "round" /\ edgePc[e] # "done"
<1>1. EdgeStands(e) /\ phase \in {"weights", "init", "round", "apply", "done"}
  BY DEF HeuristicInv
<1> QED
  BY <1>1 DEF EdgeStands, EdgeRight

\* The plan of an edge begins with the ratios the edge has.
LEMMA SortHeavyStep ==
  ASSUME Assumed, HeuristicInv, NEW e \in Edge, H!SortHeavy(e)
  PROVE  HeuristicInv'
<1> DEFINE P == H!PassingNets(input, e)
           first == passing[e]
           heavy == H!Heavy(e)
           size == Cardinality(heavy)
           list == H!HeavyList(e)
           up == Ascending(heavy)
<1>1. /\ phase = "round" /\ edgePc[e] = "todo" /\ H!RatioSum(first) < Scale /\ heavy # {}
      /\ \E p \in H!Sorted(list, H!ByRatio) : plan' = [plan EXCEPT ![e] = p]
      /\ edgePc' = [edgePc EXCEPT ![e] = "loop"]
      /\ UNCHANGED <<input, maxUsedEdges, passing, groupTdm, levelled, refined, tdm, phase>>
  BY DEF H!SortHeavy
<1>2. PICK p \in H!Sorted(list, H!ByRatio) : plan' = [plan EXCEPT ![e] = p]
  BY <1>1
<1>3. /\ Tables /\ IsFiniteSet(P) /\ P \subseteq Nat /\ first \in [P -> Ratio] /\ heavy \subseteq P
      /\ levelled[e] = 1 /\ refined[e] = 1
  BY <1>1, AtEdge DEF Unplanned
<1> HIDE DEF P, first, heavy, list
<1>4. /\ size \in Nat \ {0} /\ up \in Bijection(1 .. size, heavy)
  <2>1. IsFiniteSet(heavy) /\ heavy \in SUBSET Nat
    BY <1>3, FS_Subset
  <2>2. size \in Nat /\ size # 0
    BY <1>1, <2>1, FS_CardinalityType, FS_EmptySet
  <2>3. up \in Bijection(1 .. size, heavy)
    BY <2>1, AscendingFacts
  <2> QED
    BY <2>2, <2>3
<1>5. list = [i \in 1 .. size |-> [net |-> up[i], tdm |-> first[up[i]]]]
  BY SameOperators DEF list, H!HeavyList, heavy, first
<1> HIDE DEF size, up
<1>6. up \in [1 .. size -> heavy] /\ \A i, j \in 1 .. size : up[i] = up[j] => i = j
  BY <1>4 DEF Bijection, Injection, IsInjective
<1>7. PICK q \in Injection(1 .. size, 1 .. size) :
        /\ p = [i \in 1 .. size |-> list[q[i]]]
        /\ \A i, j \in 1 .. size : i < j => ~H!ByRatio(list[q[j]], list[q[i]])
  <2>1. DOMAIN list = 1 .. size
    BY <1>5
  <2>2. H!Sorted(list, H!ByRatio) = SortedByRatio(DOMAIN list, list)
    BY SameSort
  <2>3. p \in SortedByRatio(1 .. size, list)
    BY <1>2, <2>1, <2>2
  <2> QED
    BY <2>3 DEF SortedByRatio
<1>8. q \in [1 .. size -> 1 .. size] /\ \A i, j \in 1 .. size : q[i] = q[j] => i = j
  BY DEF Injection, IsInjective
<1>9. \A i \in 1 .. size : p[i] = [net |-> up[q[i]], tdm |-> first[up[q[i]]]]
  BY <1>5, <1>7, <1>8
<1>10. \A i \in 1 .. size : /\ p[i].net = up[q[i]] /\ p[i].net \in heavy
                            /\ p[i].tdm = first[p[i].net] /\ p[i].tdm \in Ratio
  <2> TAKE i \in 1 .. size
  <2>1. q[i] \in 1 .. size /\ up[q[i]] \in heavy /\ first[up[q[i]]] \in Ratio
    BY <1>3, <1>6, <1>8
  <2> DEFINE x == up[q[i]]
  <2>2. p[i] = [net |-> x, tdm |-> first[x]]
    BY <1>9
  <2> HIDE DEF x
  <2>3. p[i].net = x /\ p[i].tdm = first[x]
    BY <2>2
  <2> QED
    BY <2>1, <2>3 DEF x
<1>11. p \in Plans(heavy, size) /\ Distinct(p, size) /\ Len(p) = size
  <2>1. p \in [1 .. size -> [net : heavy, tdm : Ratio]]
    <3>1. ASSUME NEW i \in 1 .. size PROVE p[i] \in [net : heavy, tdm : Ratio]
      <4> DEFINE x == up[q[i]]
      <4>1. p[i] = [net |-> x, tdm |-> first[x]]
        BY <1>9
      <4>2. x \in heavy /\ first[x] \in Ratio
        BY <1>3, <1>6, <1>8
      <4> HIDE DEF x
      <4> QED
        BY <4>1, <4>2
    <3>2. p = [i \in 1 .. size |-> p[i]]
      BY <1>7
    <3> QED
      BY <3>1, <3>2
  <2>2. Len(p) = size
    BY <1>4, <2>1, LengthOf
  <2>3. Distinct(p, size)
    BY <1>6, <1>8, <1>10 DEF Distinct
  <2> QED
    BY <2>1, <2>2, <2>3 DEF Plans
<1>12. Planned(P, first, heavy, size, p)
  <2>1. PlanFor(P, first, heavy, size, p)
    BY <1>3, <1>4, <1>11 DEF PlanFor
  <2>2. H!Overlay(first, p) = first
    <3>1. /\ H!Overlay(first, p) \in [P -> Ratio]
          /\ \A i \in 1 .. size : H!Overlay(first, p)[p[i].net] = p[i].tdm
          /\ \A x \in P : (\A i \in 1 .. size : p[i].net # x) => H!Overlay(first, p)[x] = first[x]
      BY <2>1, OverlayFacts
    <3>2. ASSUME NEW x \in P PROVE H!Overlay(first, p)[x] = first[x]
      <4>1. CASE \E i \in 1 .. size : p[i].net = x
        <5>1. PICK i \in 1 .. size : p[i].net = x
          BY <4>1
        <5> QED
          BY <1>10, <3>1, <5>1
      <4>2. CASE \A i \in 1 .. size : p[i].net # x
        BY <3>1, <4>2
      <4> QED
        BY <4>1, <4>2
    <3> DEFINE o == H!Overlay(first, p)
    <3>3. o \in [P -> Ratio] /\ \A x \in P : o[x] = first[x]
      BY <3>1, <3>2
    <3> HIDE DEF o
    <3>4. o = [x \in P |-> o[x]] /\ first = [x \in P |-> first[x]]
      BY <1>3, <3>3
    <3>5. [x \in P |-> o[x]] = [x \in P |-> first[x]]
      BY <3>3
    <3>6. o = first
      BY <3>4, <3>5
    <3> QED
      BY <3>6 DEF o
  <2>3. Spare(first, p) > 0
    <3>1. H!RatioSum(first) \in Int
      BY <1>3, RatioSums
    <3>2. H!RatioSum(first) < Scale
      BY <1>1 DEF first
    <3>3. Scale \in Int
      BY ScaleAssumption
    <3> QED
      BY <2>2, <3>1, <3>2, <3>3 DEF Spare
  <2>4. \A i \in 1 .. size : p[i].tdm <= first[p[i].net]
    BY <1>10 DEF Ratio
  <2> QED
    BY <1>4, <2>1, <2>3, <2>4 DEF Planned
<1>13. Descends(p, size)
  <2>1. ASSUME NEW i \in 1 .. size, NEW j \in 1 .. size, i < j PROVE p[i].tdm >= p[j].tdm
    <3>1. ~H!ByRatio(list[q[j]], list[q[i]]) /\ p[i] = list[q[i]] /\ p[j] = list[q[j]]
      BY <1>7, <1>8, <2>1
    <3>2. ~H!ByRatio(p[j], p[i])
      BY <3>1
    <3>3. ~ (p[j].tdm > p[i].tdm)
      BY <3>2 DEF H!ByRatio
    <3>4. p[i].tdm \in Ratio /\ p[j].tdm \in Ratio
      BY <1>10
    <3>5. p[i].tdm \in Nat /\ p[j].tdm \in Nat
      BY <3>4 DEF Ratio
    <3> QED
      BY <3>3, <3>5
  <2> QED
    BY <2>1 DEF Descends
<1>14. Even(size, p, 1)
  BY <1>4 DEF Even
<1>15. /\ plan'[e] = p /\ edgePc'[e] = "loop" /\ passing'[e] = first
       /\ levelled'[e] = 1 /\ refined'[e] = 1
  BY <1>1, <1>2, <1>3 DEF Tables, first
<1>16. Tables' /\ \A f \in Edge : f # e => plan'[f] = plan[f] /\ edgePc'[f] = edgePc[f]
  BY <1>1, <1>2, <1>3 DEF Tables
<1>17. 1 \in 1 .. size + 1
  BY <1>4
<1>18. /\ levelled'[e] \in 1 .. Len(plan'[e]) + 1 /\ refined'[e] \in 1 .. Len(plan'[e]) + 1
       /\ Planned(P, first, heavy, Len(plan'[e]), plan'[e])
       /\ Even(Len(plan'[e]), plan'[e], levelled'[e]) /\ Descends(plan'[e], Len(plan'[e]))
  BY <1>11, <1>12, <1>13, <1>14, <1>15, <1>17
<1> QED
  BY <1>1, <1>15, <1>16, <1>18, RoundStep DEF P, first, heavy

\* A first ratio of 2 cannot be lowered, so the refinement is at its end.
LEMMA BreakAtTwoStep ==
  ASSUME Assumed, HeuristicInv, NEW e \in Edge, H!BreakAtTwo(e)
  PROVE  HeuristicInv'
<1> DEFINE p == plan[e]
           size == Len(p)
<1>1. /\ edgePc[e] = "loop" /\ p[1].tdm = 2
      /\ edgePc' = [edgePc EXCEPT ![e] = "refine"]
      /\ UNCHANGED <<input, maxUsedEdges, passing, groupTdm, plan, levelled, refined, tdm, phase>>
  BY DEF H!BreakAtTwo
<1>2. phase = "round" /\ edgePc[e] # "done"
  BY <1>1, LoopInRound
<1>3. /\ Tables /\ levelled[e] \in 1 .. size + 1 /\ refined[e] \in 1 .. size + 1
      /\ Planned(H!PassingNets(input, e), passing[e], H!Heavy(e), size, p)
      /\ Even(size, p, levelled[e]) /\ refined[e] = 1
  BY <1>1, <1>2, AtEdge
<1>4. size \in Nat
  BY <1>3, PlannedFacts
<1>5. Refinable(passing[e], p, size, levelled[e], 1)
  <2>1. levelled[e] \in 1 .. size /\ \A i \in 1 .. levelled[e] : p[i].tdm = p[1].tdm
    BY <1>3 DEF Even
  <2>2. 1 \in 1 .. levelled[e] /\ ~ (p[1].tdm > 2)
    BY <1>1, <1>4, <2>1
  <2> HIDE DEF p, size
  <2> QED
    BY <2>1, <2>2 DEF Refinable
<1>6. edgePc'[e] = "refine" /\ Tables' /\ \A f \in Edge : f # e => edgePc'[f] = edgePc[f]
  BY <1>1, <1>3 DEF Tables
<1>7. refined'[e] = 1 /\ levelled'[e] = levelled[e] /\ plan'[e] = p /\ passing'[e] = passing[e]
  BY <1>1, <1>3
<1> QED
  BY <1>1, <1>2, <1>3, <1>5, <1>6, <1>7, RoundStep

\* The level of the loop, and the two parts of the quotient.
LEMMA LoopLevel ==
  ASSUME Assumed, HeuristicInv, NEW e \in Edge, edgePc[e] = "loop"
  PROVE  LET p == plan[e]
             size == Len(p)
             m == H!LevelSize(e)
         IN  /\ Even(size, p, m) /\ m \in levelled[e] .. size
             /\ m = size \/ p[m + 1].tdm # p[1].tdm
             /\ H!Numerator(e) = Dividend(p[1].tdm, Spare(passing[e], p))
             /\ H!Denominator(e) = Divisor(p[1].tdm, m, Spare(passing[e], p))
<1> DEFINE p == plan[e]
           size == Len(p)
           a == levelled[e]
           m == H!LevelSize(e)
<1>1. phase = "round" /\ edgePc[e] # "done"
  BY LoopInRound
<1>2. /\ Planned(H!PassingNets(input, e), passing[e], H!Heavy(e), size, p)
      /\ Even(size, p, a) /\ H!Margin(e) = Spare(passing[e], p)
  BY <1>1, AtEdge
<1>3. m = LevelEnd(p, a, size)
  BY SameOperators DEF H!LevelSize, LevelEnd
<1>4. /\ H!Numerator(e) = Dividend(p[1].tdm, Spare(passing[e], p))
      /\ H!Denominator(e) = Divisor(p[1].tdm, m, Spare(passing[e], p))
  BY <1>2 DEF H!Numerator, H!Denominator, Dividend, Divisor
<1>5. size \in Nat
  BY <1>2, PlannedFacts
<1> HIDE DEF p, size, a, m
<1>6. a \in 1 .. size /\ \A i \in 1 .. a : p[i].tdm = p[1].tdm
  BY <1>2 DEF Even
<1>7. /\ m \in a .. size /\ \A i \in 1 .. m : p[i].tdm = p[1].tdm
      /\ m = size \/ p[m + 1].tdm # p[1].tdm
  BY ONLY <1>3, <1>5, <1>6, Levels
<1>8. m \in 1 .. size
  BY <1>5, <1>6, <1>7
<1>9. Even(size, p, m)
  BY <1>7, <1>8 DEF Even
<1> QED
  BY <1>4, <1>7, <1>9 DEF p, size, a, m

\* SetLeaders gives the ratio u to the level.
LEMMA LeadersSet ==
  ASSUME Assumed, HeuristicInv, NEW e \in Edge, edgePc[e] = "loop", NEW u \in Ratio
  PROVE  /\ H!SetLeaders(e, u) = [plan EXCEPT ![e] = H!SetLeaders(e, u)[e]]
         /\ Leading(H!Heavy(e), Len(plan[e]), plan[e], H!SetLeaders(e, u)[e], H!LevelSize(e), u)
         /\ Len(H!SetLeaders(e, u)[e]) = Len(plan[e])
<1> DEFINE p == plan[e]
           size == Len(p)
           m == H!LevelSize(e)
           heavy == H!Heavy(e)
           r == H!SetLeaders(e, u)[e]
<1>1. phase = "round" /\ edgePc[e] # "done"
  BY LoopInRound
<1>2. /\ Planned(H!PassingNets(input, e), passing[e], heavy, size, p)
      /\ DOMAIN plan = Edge
  BY <1>1, AtEdge DEF Tables
<1>3. /\ size \in Nat /\ p \in Plans(heavy, size) /\ DOMAIN p = 1 .. size
  BY <1>2, PlannedFacts
<1>4. r = [i \in 1 .. size |-> IF i <= m THEN [p[i] EXCEPT !.tdm = u] ELSE p[i]]
  BY <1>2, <1>3 DEF H!SetLeaders
<1>5. H!SetLeaders(e, u) = [plan EXCEPT ![e] = r]
  BY <1>2 DEF H!SetLeaders
<1> HIDE DEF p, size, m, heavy, r
<1>6. p \in [1 .. size -> [net : heavy, tdm : Ratio]]
  BY <1>3 DEF Plans
<1>7. ASSUME NEW i \in 1 .. size
      PROVE  /\ r[i] \in [net : heavy, tdm : Ratio] /\ r[i].net = p[i].net
             /\ r[i].tdm = IF i <= m THEN u ELSE p[i].tdm
  <2>1. p[i] \in [net : heavy, tdm : Ratio]
    BY <1>6
  <2>2. CASE i <= m
    <3>1. r[i] = [p[i] EXCEPT !.tdm = u]
      BY <1>4, <2>2
    <3> QED
      BY <2>1, <2>2, <3>1
  <2>3. CASE ~ (i <= m)
    <3>1. r[i] = p[i]
      BY <1>4, <2>3
    <3> QED
      BY <2>1, <2>3, <3>1
  <2> QED
    BY <2>2, <2>3
<1>8. r \in [1 .. size -> [net : heavy, tdm : Ratio]]
  BY <1>4, <1>7
<1>9. Len(r) = size
  BY ONLY <1>3, <1>8, LengthOf
<1>10. Leading(heavy, size, p, r, m, u)
  BY <1>7, <1>8 DEF Leading, Plans
<1> QED
  BY <1>5, <1>9, <1>10 DEF p, size, m, heavy, r

\* The level comes down to the next ratio: by less than the quotient.
LEMMA LevelWithNextStep ==
  ASSUME Assumed, HeuristicInv, NEW e \in Edge, H!LevelWithNext(e)
  PROVE  HeuristicInv'
<1> DEFINE p == plan[e]
           size == Len(p)
           m == H!LevelSize(e)
           t == p[1].tdm
           u == p[m + 1].tdm
           r == H!SetLeaders(e, u)[e]
           P == H!PassingNets(input, e)
           first == passing[e]
           heavy == H!Heavy(e)
<1>1. /\ edgePc[e] = "loop" /\ m < size
      /\ H!Numerator(e) > (p[m].tdm - u) * H!Denominator(e)
      /\ plan' = H!SetLeaders(e, u)
      /\ levelled' = [levelled EXCEPT ![e] = m]
      /\ UNCHANGED <<input, maxUsedEdges, passing, groupTdm, refined, edgePc, tdm, phase>>
  BY DEF H!LevelWithNext, H!ReachesNext
<1>2. phase = "round" /\ edgePc[e] # "done"
  BY <1>1, LoopInRound
<1>3. /\ Tables /\ Planned(P, first, heavy, size, p) /\ Descends(p, size) /\ refined[e] = 1
  BY <1>1, <1>2, AtEdge
<1>4. /\ Even(size, p, m) /\ m \in levelled[e] .. size
      /\ H!Numerator(e) = Dividend(t, Spare(first, p))
      /\ H!Denominator(e) = Divisor(t, m, Spare(first, p))
  BY <1>1, LoopLevel
<1>5. size \in Nat \ {0} /\ \A i \in 1 .. size : p[i].tdm \in Ratio
  BY <1>3, PlannedFacts
<1>6. m \in 1 .. size /\ p[m].tdm = t
  <2>1. m \in 1 .. size /\ \A i \in 1 .. m : p[i].tdm = t
    BY <1>4 DEF Even
  <2> HIDE DEF p, size, m, t
  <2> QED
    BY <1>5, <2>1
<1>7. m + 1 \in 1 .. size /\ m < m + 1 /\ u \in Ratio /\ t \in Ratio
  <2>1. m + 1 \in 1 .. size /\ m < m + 1 /\ 1 \in 1 .. size
    <3> HIDE DEF p, size, m
    <3> QED
      BY <1>1, <1>5, <1>6
  <2> HIDE DEF p, size, m
  <2> QED
    BY <1>5, <2>1
<1>8. u <= t
  <2>1. p[m].tdm >= p[m + 1].tdm
    BY <1>3, <1>6, <1>7 DEF Descends
  <2> HIDE DEF m, p
  <2> QED
    BY <1>6, <1>7, <2>1 DEF Ratio
<1>9. (t - u) * Divisor(t, m, Spare(first, p)) < Dividend(t, Spare(first, p))
  <2>1. Dividend(t, Spare(first, p)) > (t - u) * Divisor(t, m, Spare(first, p))
    BY <1>1, <1>4, <1>6
  <2>2. t \in Int /\ u \in Int /\ m \in Int /\ Spare(first, p) \in Int /\ Scale \in Int
    <3>1. Spare(first, p) \in Nat
      BY <1>3, PlannedFacts
    <3>2. Scale \in Int
      BY ScaleAssumption
    <3> QED
      BY <1>6, <1>7, <3>1, <3>2 DEF Ratio
  <2> DEFINE M == Spare(first, p)
             x == Dividend(t, M)
             y == (t - u) * Divisor(t, m, M)
  <2>3. x \in Int /\ y \in Int
    <3> HIDE DEF M, t, u, m
    <3> QED
      BY <2>2 DEF Dividend, Divisor, M
  <2> HIDE DEF x, y
  <2>4. y < x
    BY <2>1, <2>3 DEF x, y
  <2> QED
    BY <2>4 DEF x, y
<1>10. /\ plan' = [plan EXCEPT ![e] = r] /\ Len(r) = size
       /\ Leading(heavy, size, p, r, m, u)
  <2> HIDE DEF u
  <2> QED
    BY <1>1, <1>7, LeadersSet
<1> HIDE DEF r, u, t, m
<1>11. Planned(P, first, heavy, size, r)
  <2>1. (p[1].tdm - u) * Divisor(p[1].tdm, m, Spare(first, p)) < Dividend(p[1].tdm, Spare(first, p))
    BY <1>9 DEF t
  <2>2. u <= p[1].tdm
    BY <1>8 DEF t
  <2> HIDE DEF p, size, P, first, heavy
  <2> QED
    BY ONLY <1>3, <1>4, <1>7, <1>10, <2>1, <2>2, LeadersDown
<1> HIDE DEF p, size, P, first, heavy
<1>12. \A i \in 1 .. size : i \in Nat /\ (i <= m => r[i].tdm = u) /\ (~ (i <= m) => r[i].tdm = p[i].tdm)
  BY <1>5, <1>10 DEF Leading
<1>13. Even(size, r, m)
  <2>1. m \in Nat /\ 1 <= m /\ m <= size
    BY <1>5, <1>6
  <2>2. \A i \in 1 .. m : i \in 1 .. size /\ i <= m
    BY <1>5, <2>1
  <2>3. r[1].tdm = u /\ \A i \in 1 .. m : r[i].tdm = u
    BY <1>12, <2>1, <2>2
  <2> QED
    BY <1>6, <2>3 DEF Even
<1>14. Descends(r, size)
  <2>1. ASSUME NEW i \in 1 .. size, NEW j \in 1 .. size, i < j PROVE r[i].tdm >= r[j].tdm
    <3>1. u \in Nat /\ p[i].tdm \in Nat /\ p[j].tdm \in Nat /\ p[i].tdm >= p[j].tdm
      BY <1>3, <1>5, <1>7, <2>1 DEF Descends, Ratio
    <3>2. CASE i <= m /\ j <= m
      <4>1. r[i].tdm = u /\ r[j].tdm = u
        BY <1>12, <3>2
      <4> QED
        BY <3>1, <4>1
    <3>3. CASE i <= m /\ ~ (j <= m)
      <4>1. r[i].tdm = u /\ r[j].tdm = p[j].tdm
        BY <1>12, <3>3
      <4>2. m + 1 <= j
        BY <1>5, <1>6, <3>3
      <4>3. u >= p[j].tdm
        <5>1. CASE m + 1 = j
          BY <3>1, <5>1 DEF u
        <5>2. CASE m + 1 # j
          <6>1. m + 1 < j
            BY <1>5, <1>6, <4>2, <5>2
          <6>2. p[m + 1].tdm >= p[j].tdm
            BY <1>3, <1>7, <6>1 DEF Descends
          <6> QED
            BY <6>2 DEF u
        <5> QED
          BY <5>1, <5>2
      <4> QED
        BY <4>1, <4>3
    <3>4. CASE ~ (i <= m)
      <4>1. ~ (j <= m)
        BY <1>5, <1>6, <2>1, <3>4
      <4>2. r[i].tdm = p[i].tdm /\ r[j].tdm = p[j].tdm
        BY <1>12, <3>4, <4>1
      <4> QED
        BY <3>1, <4>2
    <3> QED
      BY <3>2, <3>3, <3>4
  <2> QED
    BY <2>1 DEF Descends
<1>15. /\ plan'[e] = r /\ levelled'[e] = m /\ edgePc'[e] = "loop" /\ passing'[e] = first
       /\ refined'[e] = 1
  BY <1>1, <1>3, <1>10 DEF Tables, first
<1>16. Tables' /\ \A f \in Edge : f # e => plan'[f] = plan[f] /\ levelled'[f] = levelled[f]
  BY <1>1, <1>3, <1>10 DEF Tables
<1>17. m \in 1 .. size + 1 /\ 1 \in 1 .. size + 1
  BY <1>5, <1>6
<1>18. /\ levelled'[e] \in 1 .. Len(plan'[e]) + 1 /\ refined'[e] \in 1 .. Len(plan'[e]) + 1
       /\ Planned(P, first, heavy, Len(plan'[e]), plan'[e])
       /\ Even(Len(plan'[e]), plan'[e], levelled'[e]) /\ Descends(plan'[e], Len(plan'[e]))
  BY <1>10, <1>11, <1>13, <1>14, <1>15, <1>17
<1> QED
  BY <1>1, <1>2, <1>15, <1>16, <1>18, RoundStep DEF P, first, heavy

\* The level comes down by the quotient made even.
LEMMA LowerLevelStep ==
  ASSUME Assumed, HeuristicInv, NEW e \in Edge, H!LowerLevel(e)
  PROVE  HeuristicInv'
<1> DEFINE p == plan[e]
           size == Len(p)
           m == H!LevelSize(e)
           t == p[1].tdm
           d == H!EvenDecrement(e)
           u == t - d
           r == H!SetLeaders(e, u)[e]
           P == H!PassingNets(input, e)
           first == passing[e]
           heavy == H!Heavy(e)
<1>1. /\ edgePc[e] = "loop"
      /\ plan' = H!SetLeaders(e, u)
      /\ levelled' = [levelled EXCEPT ![e] = m]
      /\ edgePc' = [edgePc EXCEPT ![e] = "refine"]
      /\ UNCHANGED <<input, maxUsedEdges, passing, groupTdm, refined, tdm, phase>>
  BY DEF H!LowerLevel
<1>2. phase = "round" /\ edgePc[e] # "done"
  BY <1>1, LoopInRound
<1>3. /\ Tables /\ Planned(P, first, heavy, size, p) /\ refined[e] = 1
  BY <1>1, <1>2, AtEdge
<1>4. /\ Even(size, p, m) /\ m \in levelled[e] .. size
      /\ H!Numerator(e) = Dividend(t, Spare(first, p))
      /\ H!Denominator(e) = Divisor(t, m, Spare(first, p))
  BY <1>1, LoopLevel
<1>5. d = EvenBelow(Dividend(t, Spare(first, p)), Divisor(t, m, Spare(first, p)))
  BY <1>4 DEF H!EvenDecrement, EvenBelow
<1>6. /\ size \in Nat \ {0} /\ (\A i \in 1 .. size : p[i].tdm \in Ratio)
      /\ Spare(first, p) \in Nat \ {0}
  BY <1>3, PlannedFacts
<1>7. m \in 1 .. size
  BY <1>4 DEF Even
<1> HIDE DEF p, size, m, d, P, first, heavy, r
<1>8. m \in Nat \ {0} /\ t \in Ratio
  BY <1>6, <1>7
<1> HIDE DEF t
<1>9. u \in Ratio
  BY ONLY <1>5, <1>6, <1>8, EvenQuotient
<1> HIDE DEF u
<1>10. /\ plan' = [plan EXCEPT ![e] = r] /\ Len(r) = size
       /\ Leading(heavy, size, p, r, m, u)
  BY <1>1, <1>9, LeadersSet DEF r, size, p, m, heavy
<1>11. Planned(P, first, heavy, size, r) /\ Refinable(first, r, size, m, 1)
  <2>1. d = EvenBelow(Dividend(p[1].tdm, Spare(first, p)), Divisor(p[1].tdm, m, Spare(first, p)))
    BY <1>5 DEF t
  <2>2. Leading(heavy, size, p, r, m, p[1].tdm - d)
    BY <1>10 DEF u, t
  <2> QED
    BY ONLY <1>3, <1>4, <2>1, <2>2, LevelIsLow
<1>12. /\ plan'[e] = r /\ levelled'[e] = m /\ edgePc'[e] = "refine" /\ passing'[e] = first
       /\ refined'[e] = 1
  BY <1>1, <1>3, <1>10 DEF Tables, first
<1>13. Tables' /\ \A f \in Edge : f # e =>
         plan'[f] = plan[f] /\ levelled'[f] = levelled[f] /\ edgePc'[f] = edgePc[f]
  BY <1>1, <1>3, <1>10 DEF Tables
<1>14. m \in 1 .. size + 1 /\ 1 \in 1 .. size + 1
  BY <1>6, <1>7
<1>15. /\ levelled'[e] \in 1 .. Len(plan'[e]) + 1 /\ refined'[e] \in 1 .. Len(plan'[e]) + 1
       /\ Planned(P, first, heavy, Len(plan'[e]), plan'[e])
       /\ Refinable(first, plan'[e], Len(plan'[e]), levelled'[e], refined'[e])
  BY <1>10, <1>11, <1>12, <1>14
<1> QED
  BY <1>1, <1>2, <1>12, <1>13, <1>15, RoundStep DEF P, first, heavy

\* A net that can be lowered is not the last of the level.
LEMMA RefineNextStep ==
  ASSUME Assumed, HeuristicInv, NEW e \in Edge, H!RefineNext(e)
  PROVE  HeuristicInv'
<1> DEFINE p == plan[e]
           size == Len(p)
           a == levelled[e]
           j == refined[e]
           r == H!LoweredAt(e)
           P == H!PassingNets(input, e)
           first == passing[e]
           heavy == H!Heavy(e)
<1>1. /\ edgePc[e] = "refine" /\ p[j].tdm > 2 /\ j <= size
      /\ H!RatioSum(H!Overlay(first, r)) < Scale
      /\ plan' = [plan EXCEPT ![e] = r]
      /\ refined' = [refined EXCEPT ![e] = j + 1]
      /\ UNCHANGED <<input, maxUsedEdges, passing, groupTdm, levelled, edgePc, tdm, phase>>
  BY DEF H!RefineNext, H!Refining, H!CanLower
<1>2. phase = "round" /\ edgePc[e] # "done"
  BY <1>1, LoopInRound
<1>3. Tables /\ Planned(P, first, heavy, size, p) /\ Refinable(first, p, size, a, j)
  BY <1>1, <1>2, AtEdge
<1>4. /\ size \in Nat \ {0} /\ p \in Plans(heavy, size)
      /\ DOMAIN p = 1 .. size
  BY <1>3, PlannedFacts
<1>5. r = [p EXCEPT ![j].tdm = p[j].tdm - 2]
  BY DEF H!LoweredAt
<1> HIDE DEF p, size, a, j, r, P, first, heavy
<1>6. a \in 1 .. size /\ j \in 1 .. a /\ j \in 1 .. size
  BY <1>3, <1>4 DEF Refinable
<1>7. p \in [1 .. size -> [net : heavy, tdm : Ratio]]
  BY <1>4 DEF Plans
<1>8. p[j].tdm - 2 \in Ratio
  <2>1. p[j].tdm \in Ratio
    BY <1>6, <1>7
  <2> QED
    BY <1>1, <2>1, TwoLess
<1>9. ASSUME NEW i \in 1 .. size
      PROVE  /\ r[i] \in [net : heavy, tdm : Ratio] /\ r[i].net = p[i].net
             /\ r[i].tdm = IF i = j THEN p[j].tdm - 2 ELSE p[i].tdm
  <2>1. p[i] \in [net : heavy, tdm : Ratio]
    BY <1>7
  <2> DEFINE u == p[j].tdm - 2
  <2>2. u \in Ratio /\ r = [p EXCEPT ![j].tdm = u]
    BY <1>5, <1>8
  <2> HIDE DEF u
  <2>3. CASE i = j
    <3>1. r[i] = [p[i] EXCEPT !.tdm = u]
      BY <1>4, <2>2, <2>3
    <3> QED
      BY <2>1, <2>2, <2>3, <3>1 DEF u
  <2>4. CASE i # j
    <3>1. r[i] = p[i]
      BY <1>4, <2>2, <2>4
    <3> QED
      BY <2>1, <2>4, <3>1
  <2> QED
    BY <2>3, <2>4
<1>10. r \in [1 .. size -> [net : heavy, tdm : Ratio]] /\ Len(r) = size
  <2>1. r = [i \in 1 .. size |-> r[i]]
    BY <1>4, <1>5
  <2>2. r \in [1 .. size -> [net : heavy, tdm : Ratio]]
    BY <1>9, <2>1
  <2> QED
    BY ONLY <1>4, <2>2, LengthOf
<1>11. Lowered(heavy, size, p, r, j)
  BY <1>6, <1>9, <1>10 DEF Lowered, Plans
<1>12. Spare(first, r) > 0
  <2>1. PlanFor(P, first, heavy, size, p)
    BY <1>3 DEF Planned
  <2>2. PlanFor(P, first, heavy, size, r)
    BY <1>9, <1>10, <2>1 DEF PlanFor, Plans, Distinct
  <2>3. IsFiniteSet(P) /\ H!Overlay(first, r) \in [P -> Ratio]
    BY <2>2, OverlayFacts DEF PlanFor
  <2>4. H!RatioSum(H!Overlay(first, r)) \in Int
    BY <2>3, RatioSums
  <2>5. Scale \in Int
    BY ScaleAssumption
  <2> QED
    BY <1>1, <2>4, <2>5 DEF Spare
<1>13. /\ Planned(P, first, heavy, size, r)
       /\ j + 1 \in 1 .. a /\ Refinable(first, r, size, a, j + 1)
  BY ONLY <1>1, <1>3, <1>11, <1>12, NextIsRefinable
<1>14. /\ plan'[e] = r /\ levelled'[e] = a /\ edgePc'[e] = "refine" /\ passing'[e] = first
       /\ refined'[e] = j + 1
  BY <1>1, <1>3 DEF Tables, first, a
<1>15. Tables' /\ \A f \in Edge : f # e => plan'[f] = plan[f] /\ refined'[f] = refined[f]
  BY <1>1, <1>3 DEF Tables
<1>16. a \in 1 .. size + 1 /\ j + 1 \in 1 .. size + 1
  BY <1>4, <1>6, <1>13
<1>17. /\ levelled'[e] \in 1 .. Len(plan'[e]) + 1 /\ refined'[e] \in 1 .. Len(plan'[e]) + 1
       /\ Planned(P, first, heavy, Len(plan'[e]), plan'[e])
       /\ Refinable(first, plan'[e], Len(plan'[e]), levelled'[e], refined'[e])
  BY <1>10, <1>13, <1>14, <1>16
<1> QED
  BY <1>1, <1>2, <1>14, <1>15, <1>17, RoundStep DEF P, first, heavy

\* Writing one ratio of a plan back keeps to the constraint: the others stay as high as
\* they were.
LEMMA WrittenSettles ==
  ASSUME NEW D, NEW first, NEW heavy, NEW size, NEW p, Planned(D, first, heavy, size, p),
         NEW j \in 1 .. size, NEW ratio, ratio = [first EXCEPT ![p[j].net] = p[j].tdm]
  PROVE  Settled(D, first, heavy, ratio)
<1> DEFINE x == p[j].net
           v == p[j].tdm
           o == H!Overlay(first, p)
<1>1. /\ IsFiniteSet(D) /\ first \in [D -> Ratio]
      /\ \A i \in 1 .. size : /\ p[i].net \in heavy /\ p[i].net \in D /\ p[i].tdm \in Ratio
                              /\ p[i].tdm <= first[p[i].net]
      /\ Spare(first, p) \in Nat \ {0} /\ H!RatioSum(o) \in Int
  BY PlannedFacts
<1>2. PlanFor(D, first, heavy, size, p) /\ Distinct(p, size)
  BY DEF Planned, PlanFor
<1>3. /\ o \in [D -> Ratio]
      /\ \A i \in 1 .. size : o[p[i].net] = p[i].tdm
      /\ \A y \in D : (\A i \in 1 .. size : p[i].net # y) => o[y] = first[y]
  BY <1>2, OverlayFacts
<1> HIDE DEF o
<1>4. x \in D /\ x \in heavy /\ v \in Ratio /\ v <= first[x] /\ ratio = [first EXCEPT ![x] = v]
  BY <1>1
<1> HIDE DEF x, v
<1>5. ratio \in [D -> Ratio] /\ ratio[x] = v /\ \A y \in D : y # x => ratio[y] = first[y]
  BY <1>1, <1>4
<1>6. ASSUME NEW y \in D PROVE o[y] <= ratio[y]
  <2>1. first[y] \in Nat /\ v \in Nat
    BY <1>1, <1>4 DEF Ratio
  <2>2. CASE \E i \in 1 .. size : p[i].net = y
    <3>1. PICK i \in 1 .. size : p[i].net = y
      BY <2>2
    <3>2. o[y] = p[i].tdm /\ p[i].tdm <= first[y]
      BY <1>1, <1>3, <3>1
    <3>3. CASE y = x
      <4>1. i = j
        BY <1>2, <3>1, <3>3 DEF Distinct, x
      <4> QED
        BY <1>5, <2>1, <3>2, <3>3, <4>1 DEF v
    <3>4. CASE y # x
      BY <1>5, <3>2, <3>4
    <3> QED
      BY <3>3, <3>4
  <2>3. CASE \A i \in 1 .. size : p[i].net # y
    <3>1. y # x
      BY <2>3 DEF x
    <3>2. o[y] = first[y] /\ ratio[y] = first[y]
      BY <1>3, <1>5, <2>3, <3>1
    <3> QED
      BY <2>1, <3>2
  <2> QED
    BY <2>2, <2>3
<1>7. H!RatioSum(ratio) <= Scale
  <2>1. H!RatioSum(ratio) <= H!RatioSum(o)
    BY <1>1, <1>3, <1>5, <1>6, RatioSums
  <2>2. H!RatioSum(ratio) \in Int
    BY <1>1, <1>5, RatioSums
  <2>3. H!RatioSum(o) < Scale /\ Scale \in Int
    <3>1. Scale \in Int
      BY ScaleAssumption
    <3>2. Scale - H!RatioSum(o) > 0
      BY <1>1 DEF Spare, o
    <3> QED
      BY <1>1, <3>1, <3>2
  <2> QED
    BY <1>1, <2>1, <2>2, <2>3
<1>8. ASSUME NEW y \in D, ratio[y] # first[y]
      PROVE  y = x /\ ratio[y] < first[y] /\ y \in heavy
  <2>1. y = x
    BY <1>5, <1>8
  <2>2. v \in Nat /\ first[x] \in Nat
    BY <1>1, <1>4 DEF Ratio
  <2> QED
    BY <1>4, <1>5, <1>8, <2>1, <2>2
<1> QED
  BY <1>5, <1>7, <1>8 DEF Settled

\* The net that stops the refinement is written back.
LEMMA WriteStopStep ==
  ASSUME Assumed, HeuristicInv, NEW e \in Edge, H!WriteStop(e)
  PROVE  HeuristicInv'
<1> DEFINE p == plan[e]
           size == Len(p)
           j == refined[e]
           ratio == [passing[e] EXCEPT ![p[j].net] = p[j].tdm]
           P == H!PassingNets(input, e)
           first == passing[e]
           heavy == H!Heavy(e)
<1>1. /\ edgePc[e] = "refine" /\ j <= size
      /\ passing' = [passing EXCEPT ![e] = ratio]
      /\ edgePc' = [edgePc EXCEPT ![e] = "done"]
      /\ UNCHANGED <<input, maxUsedEdges, groupTdm, plan, levelled, refined, tdm, phase>>
  BY DEF H!WriteStop, H!Refining, H!StopRatio
<1>2. phase = "round" /\ edgePc[e] # "done"
  BY <1>1, LoopInRound
<1>3. /\ Tables /\ Planned(P, first, heavy, size, p)
      /\ levelled[e] \in 1 .. size + 1 /\ j \in 1 .. size + 1
  BY <1>1, <1>2, AtEdge
<1>4. j \in 1 .. size
  <2>1. size \in Nat
    BY <1>3, PlannedFacts
  <2> HIDE DEF j, size
  <2> QED
    BY <1>1, <1>3, <2>1
<1>5. Settled(P, first, heavy, ratio)
  <2> HIDE DEF P, heavy, size, p, j
  <2>1. ratio = [first EXCEPT ![p[j].net] = p[j].tdm]
    OBVIOUS
  <2> HIDE DEF ratio, first
  <2> QED
    BY ONLY <1>3, <1>4, <2>1, WrittenSettles
<1> HIDE DEF ratio
<1>6. /\ passing'[e] = ratio /\ edgePc'[e] = "done" /\ Tables'
      /\ \A f \in Edge : f # e => passing'[f] = passing[f] /\ edgePc'[f] = edgePc[f]
  BY <1>1, <1>3 DEF Tables
<1>7. Settled(P, first, heavy, passing'[e])
  BY <1>5, <1>6
<1>8. /\ levelled'[e] \in 1 .. Len(plan'[e]) + 1 /\ refined'[e] \in 1 .. Len(plan'[e]) + 1
      /\ plan' = plan /\ levelled' = levelled /\ refined' = refined
  BY <1>1, <1>3
<1> QED
  BY <1>1, <1>2, <1>6, <1>7, <1>8, RoundStep

-----------------------------------------------------------------------------
(* The theorems.                                                           *)

\* A step that changes nothing keeps the invariant,
LEMMA HeuristicStutter == HeuristicInv /\ UNCHANGED H!vars => HeuristicInv'
<1> SUFFICES ASSUME HeuristicInv, UNCHANGED H!vars PROVE HeuristicInv'
  OBVIOUS
<1>1. /\ input' = input /\ maxUsedEdges' = maxUsedEdges /\ passing' = passing
      /\ groupTdm' = groupTdm /\ plan' = plan /\ levelled' = levelled
      /\ refined' = refined /\ edgePc' = edgePc /\ tdm' = tdm /\ phase' = phase
  BY DEF H!vars
<1>2. Tables' /\ Applied'
  <2>1. Tables /\ Applied
    BY DEF HeuristicInv
  <2> QED
    BY <1>1, <2>1 DEF Tables, Applied
<1>3. ASSUME NEW e \in Edge PROVE EdgeStands(e)'
  <2>1. EdgeStands(e)
    BY DEF HeuristicInv
  <2> QED
    BY ONLY <1>1, <2>1 DEF EdgeStands
<1> QED
  BY <1>1, <1>2, <1>3 DEF HeuristicInv

\* and so does every step of the assigner.
LEMMA HeuristicStep ==
  ASSUME Assumed, HeuristicInv, [H!Next]_(H!vars)
  PROVE  HeuristicInv'
<1>1. CASE H!CalcWeights
  BY <1>1, CalcWeightsStep
<1>2. CASE H!SkipRefinement
  BY <1>2, SkipRefinementStep
<1>3. CASE H!CalcGroupTDM
  BY <1>3, CalcGroupTDMStep
<1>4. CASE H!EndRound
  BY <1>4, EndRoundStep
<1>5. CASE H!Apply
  BY <1>5, ApplyStep
<1>6. ASSUME NEW e \in Edge, H!InitEdge(e) \/ H!RoundEdge(e) PROVE HeuristicInv'
  <2>1. CASE H!InitEdge(e)
    BY <2>1, InitEdgeStep
  <2>2. CASE H!SkipEdge(e)
    BY <2>2, SkipEdgeStep
  <2>3. CASE H!SortHeavy(e)
    BY <2>3, SortHeavyStep
  <2>4. CASE H!BreakAtTwo(e)
    BY <2>4, BreakAtTwoStep
  <2>5. CASE H!LevelWithNext(e)
    BY <2>5, LevelWithNextStep
  <2>6. CASE H!LowerLevel(e)
    BY <2>6, LowerLevelStep
  <2>7. CASE H!RefineNext(e)
    BY <2>7, RefineNextStep
  <2>8. CASE H!WriteStop(e)
    BY <2>8, WriteStopStep
  <2>9. CASE H!EndRefine(e)
    <3>1. edgePc[e] = "refine"
      BY <2>9 DEF H!EndRefine
    <3>2. phase = "round"
      BY <3>1, LoopInRound
    <3> QED
      BY <2>9, <3>2, EndRefineStep
  <2> QED
    BY <1>6, <2>1, <2>2, <2>3, <2>4, <2>5, <2>6, <2>7, <2>8, <2>9 DEF H!RoundEdge
<1>7. CASE H!Done \/ UNCHANGED H!vars
  BY <1>7, HeuristicStutter DEF H!Done
<1> QED
  BY <1>1, <1>2, <1>3, <1>4, <1>5, <1>6, <1>7 DEF H!Next

\* The inductive invariant holds throughout.
THEOREM HeuristicInvariant ==
  ASSUME H!HeuristicAssumption
  PROVE  H!Spec => []HeuristicInv
<1>1. Assumed
  BY DEF Assumed
<1>2. H!Init => HeuristicInv
  BY HeuristicInit
<1>3. HeuristicInv /\ [H!Next]_(H!vars) => HeuristicInv'
  BY <1>1, HeuristicStep
<1> QED
  BY <1>2, <1>3, PTL DEF H!Spec

\* An edge that has ratios keeps to the constraint with them.
LEMMA AssignedSettles ==
  ASSUME Assumed, HeuristicInv, NEW e \in Edge, H!Assigned(e)
  PROVE  Settled(H!PassingNets(input, e), FirstOf(input, e), HeavyNets(input, groupTdm, e), passing[e])
<1>1. input \in Inputs /\ EdgeStands(e)
  BY DEF HeuristicInv
<1>2. \/ passing[e] = FirstOf(input, e)
      \/ Settled(H!PassingNets(input, e), FirstOf(input, e), HeavyNets(input, groupTdm, e), passing[e])
  BY <1>1 DEF H!Assigned, EdgeStands, EdgeRight
<1> QED
  BY <1>1, <1>2, FirstSettles

\* The types, of one edge.
LEMMA EdgeTypes ==
  ASSUME Assumed, HeuristicInv, NEW e \in Edge
  PROVE  /\ edgePc[e] \in {"todo", "loop", "refine", "done"}
         /\ refined[e] \in 1 .. Len(plan[e]) + 1 /\ levelled[e] \in 1 .. Len(plan[e]) + 1
         /\ H!Assigned(e) => \A x \in H!PassingNets(input, e) :
              passing[e][x] \in 2 .. MaxTdm /\ passing[e][x] % 2 = 0
         /\ phase = "done" => \A x \in H!Net :
              tdm[e][x] = IF e \in input.tree[x] THEN passing[e][x] ELSE 0
<1>1. /\ EdgeStands(e) /\ Applied
      /\ phase \in {"weights", "init", "round", "apply", "done"}
  BY DEF HeuristicInv
<1>2. /\ edgePc[e] \in {"todo", "loop", "refine", "done"}
      /\ refined[e] \in 1 .. Len(plan[e]) + 1 /\ levelled[e] \in 1 .. Len(plan[e]) + 1
  BY <1>1 DEF EdgeStands, EdgeRight
<1>3. ASSUME H!Assigned(e) PROVE passing[e] \in [H!PassingNets(input, e) -> Ratio]
  BY <1>3, AssignedSettles DEF Settled
<1>4. ASSUME H!Assigned(e), NEW x \in H!PassingNets(input, e)
      PROVE  passing[e][x] \in 2 .. MaxTdm /\ passing[e][x] % 2 = 0
  <2>1. passing[e][x] \in Ratio
    BY <1>3, <1>4
  <2> QED
    BY <2>1 DEF Ratio
<1>5. ASSUME phase = "done", NEW x \in H!Net
      PROVE  tdm[e][x] = IF e \in input.tree[x] THEN passing[e][x] ELSE 0
  <2>1. H!Assigned(e)
    BY <1>5 DEF H!Assigned
  <2>2. DOMAIN passing[e] = H!PassingNets(input, e)
    BY <1>3, <2>1
  <2>3. x \in DOMAIN passing[e] <=> e \in input.tree[x]
    BY <2>2 DEF H!PassingNets
  <2>4. tdm[e][x] = IF x \in DOMAIN passing[e] THEN passing[e][x] ELSE 0
    BY <1>1, <1>5 DEF Applied
  <2> QED
    BY <2>3, <2>4
<1> QED
  BY <1>2, <1>4, <1>5

\* The invariant contains the constraint.
LEMMA InvConstraint ==
  ASSUME Assumed, HeuristicInv
  PROVE  H!RatioConstraint
<1>1. H!TypeOK
  <2>1. /\ input \in Inputs /\ phase \in {"weights", "init", "round", "apply", "done"}
        /\ phase # "weights" => maxUsedEdges = H!MaxUsedEdges(input)
    BY DEF HeuristicInv
  <2>2. phase # "weights" => \A x \in H!Net : input.tree[x] # {} => maxUsedEdges[x] > 0
    BY <2>1, WeightsPositive
  <2>3. \A e \in Edge :
          /\ edgePc[e] \in {"todo", "loop", "refine", "done"}
          /\ refined[e] \in 1 .. Len(plan[e]) + 1 /\ levelled[e] \in 1 .. Len(plan[e]) + 1
          /\ H!Assigned(e) => \A x \in H!PassingNets(input, e) :
               passing[e][x] \in 2 .. MaxTdm /\ passing[e][x] % 2 = 0
          /\ phase = "done" => \A x \in H!Net :
               tdm[e][x] = IF e \in input.tree[x] THEN passing[e][x] ELSE 0
    BY EdgeTypes
  <2> QED
    BY <2>1, <2>2, <2>3 DEF H!TypeOK
<1>2. ASSUME NEW e \in Edge PROVE H!Assigned(e) => H!RatioSum(passing[e]) <= Scale
  BY AssignedSettles DEF Settled
<1>3. ASSUME NEW e \in Edge, edgePc[e] \in {"loop", "refine"}
      PROVE  /\ H!Margin(e) > 0
             /\ \A i \in DOMAIN plan[e] : plan[e][i].tdm <= passing[e][plan[e][i].net]
  <2>1. phase = "round" /\ edgePc[e] # "done"
    BY <1>3, LoopInRound
  <2>2. /\ Planned(H!PassingNets(input, e), passing[e], H!Heavy(e), Len(plan[e]), plan[e])
        /\ H!Margin(e) = Spare(passing[e], plan[e])
    BY <1>3, <2>1, AtEdge
  <2>3. DOMAIN plan[e] = 1 .. Len(plan[e])
    BY <2>2, PlannedFacts
  <2> QED
    BY <2>2, <2>3 DEF Planned
<1> QED
  BY <1>1, <1>2, <1>3 DEF H!RatioConstraint

\* The constraint of the problem holds throughout: the reciprocals of the ratios of an
\* edge add up to at most 1 from initTDM() on, a plan always leaves margin, and the
\* ratios are even.
THEOREM HeuristicConstraint ==
  ASSUME H!HeuristicAssumption
  PROVE  H!Spec => []H!RatioConstraint
<1>1. Assumed
  BY DEF Assumed
<1>2. HeuristicInv => H!RatioConstraint
  BY <1>1, InvConstraint
<1> QED
  BY <1>2, HeuristicInvariant, PTL

\* An edge that is settled has at most one lowered net.
LEMMA InvLowersOne ==
  ASSUME Assumed, HeuristicInv
  PROVE  H!LowersOneHeavyNet
<1>1. ASSUME NEW e \in Edge, phase \in {"round", "apply", "done"}
      PROVE  LET first == H!InitRatios(input, maxUsedEdges, e)
                 lowered == {x \in DOMAIN passing[e] : passing[e][x] # first[x]}
             IN  /\ H!Cardinality(lowered) <= 1
                 /\ \A x \in lowered : passing[e][x] < first[x] /\ H!MaxGroupTdm(x) >= H!RoundingThreshold
  <2> DEFINE P == H!PassingNets(input, e)
             first == H!InitRatios(input, maxUsedEdges, e)
             lowered == {x \in DOMAIN passing[e] : passing[e][x] # first[x]}
  <2>1. first = FirstOf(input, e)
    BY <1>1 DEF HeuristicInv, FirstOf
  <2>2. Settled(P, first, HeavyNets(input, groupTdm, e), passing[e])
    <3>1. H!Assigned(e)
      BY <1>1 DEF H!Assigned
    <3> QED
      BY <2>1, <3>1, AssignedSettles
  <2> HIDE DEF first, P
  <2>3. /\ \A x \in lowered : x \in P /\ passing[e][x] < first[x] /\ x \in HeavyNets(input, groupTdm, e)
        /\ \A x, y \in lowered : x = y
    BY <2>2 DEF Settled
  <2> HIDE DEF lowered
  <2>4. Cardinality(lowered) <= 1
    <3>1. CASE lowered = {}
      <4>1. Cardinality(lowered) = 0
        BY <3>1, FS_EmptySet
      <4> QED
        BY <4>1
    <3>2. CASE lowered # {}
      <4>1. PICK x \in lowered : TRUE
        BY <3>2
      <4>2. lowered = {x}
        BY <2>3, <4>1
      <4>3. Cardinality(lowered) = 1
        BY <4>2, FS_Singleton
      <4> QED
        BY <4>3
    <3> QED
      BY <3>1, <3>2
  <2>5. H!Cardinality(lowered) <= 1
    BY <2>4, SameOperators
  <2>6. \A x \in lowered : passing[e][x] < first[x] /\ H!MaxGroupTdm(x) >= H!RoundingThreshold
    BY <2>3 DEF HeavyNets, H!MaxGroupTdm, H!RoundingThreshold
  <2> QED
    BY <2>5, <2>6 DEF first, lowered
<1> QED
  BY <1>1 DEF H!LowersOneHeavyNet

\* After all its decrements, round() has lowered at most one net of an edge, a net of
\* one of the heaviest groups.
THEOREM HeuristicLowersOne ==
  ASSUME H!HeuristicAssumption
  PROVE  H!Spec => []H!LowersOneHeavyNet
<1>1. Assumed
  BY DEF Assumed
<1>2. HeuristicInv => H!LowersOneHeavyNet
  BY <1>1, InvLowersOne
<1> QED
  BY <1>2, HeuristicInvariant, PTL

\* The refinement is among the level nets.
LEMMA InvStopsAtLeader ==
  ASSUME Assumed, HeuristicInv
  PROVE  H!StopsAtLeader
<1>1. ASSUME NEW e \in Edge, edgePc[e] = "refine" PROVE refined[e] <= levelled[e]
  <2>1. phase = "round" /\ edgePc[e] # "done"
    BY <1>1, LoopInRound
  <2>2. /\ Planned(H!PassingNets(input, e), passing[e], H!Heavy(e), Len(plan[e]), plan[e])
        /\ Refinable(passing[e], plan[e], Len(plan[e]), levelled[e], refined[e])
    BY <1>1, <2>1, AtEdge
  <2>3. Len(plan[e]) \in Nat
    BY <2>2, PlannedFacts
  <2>4. levelled[e] \in 1 .. Len(plan[e]) /\ refined[e] \in 1 .. levelled[e]
    BY <2>2 DEF Refinable
  <2> QED
    BY <2>3, <2>4
<1> QED
  BY <1>1 DEF H!StopsAtLeader

\* The refinement never gets past the nets that the loop left level with the first.
THEOREM HeuristicStopsAtLeader ==
  ASSUME H!HeuristicAssumption
  PROVE  H!Spec => []H!StopsAtLeader
<1>1. Assumed
  BY DEF Assumed
<1>2. HeuristicInv => H!StopsAtLeader
  BY <1>1, InvStopsAtLeader
<1> QED
  BY <1>2, HeuristicInvariant, PTL
=============================================================================
