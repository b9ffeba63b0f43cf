--------------------------- MODULE NetOrderProofs ---------------------------
(***************************************************************************)
(* Proofs about the order of the nets, for any number of nets, groups and  *)
(* lanes: what GroupRouter assumes of its lanes, and that cheap groups are *)
(* served first.                                                           *)
(***************************************************************************)
EXTENDS NetOrder, SetFacts, SequenceTheorems

-----------------------------------------------------------------------------
(* The inductive invariant.                                                *)

\* How often the k-th group of the order mentions n, for the first k groups.
Mentions(n, k) == [i \in 1 .. k |-> Occurrences(n, group[groupOrder[i]])]

\* The nets no group mentions from the k-th one of the order on.
Settled(k) == {n \in Grouped : \A i \in k .. GroupNum : n \notin ToSet(group[groupOrder[i]])}

\* All groups stand in the order, cheap ones first.
GroupsSorted ==
  /\ groupOrder \in Bijection(1 .. GroupNum, Gid)
  /\ \A i, j \in 1 .. GroupNum : i < j => GroupBefore(groupOrder[i], groupOrder[j])

\* Every counter has the mentions of the groups passed.
Counting ==
  /\ idx \in 1 .. GroupNum + 1
  /\ netCounter = [n \in Net |-> SumFunction(Mentions(n, idx - 1))]

\* s lists the nets of S, each of them once and none after one it has to precede.
Enumerates(s, S) ==
  /\ s \in Bijection(1 .. Cardinality(S), S)
  /\ \A i, j \in 1 .. Cardinality(S) : i < j => ~Precedes(s[j], s[i])

\* The list to be dealt: all grouped nets, then the mark.
Queued ==
  \E s \in Bijection(1 .. Cardinality(Grouped), Grouped) :
    Enumerates(s, Grouped) /\ netOrder = Append(s, NoNet)

\* Places of the lanes that hold a net.
Held(lanes) ==
  {p \in Thread \X (Nat \ {0}) : p[2] \in DOMAIN lanes[p[1]] /\ lanes[p[1]][p[2]] # NoNet}
NetAt(lanes, p) == lanes[p[1]][p[2]]

\* Row by row, lane by lane.
Earlier(p, q) == p[2] < q[2] \/ (p[2] = q[2] /\ p[1] < q[1])

\* The first k nets of the list stand in the lanes, in this order.
DealtInOrder(lanes, order, k) ==
  /\ \A p \in Held(lanes) : \E i \in 1 .. k : NetAt(lanes, p) = order[i]
  /\ \A i \in 1 .. k : \E p \in Held(lanes) : NetAt(lanes, p) = order[i]
  /\ \A p, q \in Held(lanes) : Earlier(p, q) =>
       \E i, j \in 1 .. k : i < j /\ NetAt(lanes, p) = order[i] /\ NetAt(lanes, q) = order[j]

\* While nets are dealt, the lanes below counter are one row ahead; the mark fills
\* the other lanes up.
LanesEven ==
  LET size == Cardinality(Grouped)
      row == (idx - 1) \div NumThread
  IN  /\ idx \in 1 .. size + 2
      /\ counter \in Thread
      /\ nids \in [Thread -> Seq(Net \cup {NoNet})]
      /\ idx <= size + 1 =>
           /\ counter = (idx - 1) % NumThread
           /\ \A t \in Thread : Len(nids[t]) = IF t < counter THEN row + 1 ELSE row
           /\ DealtInOrder(nids, netOrder, idx - 1)
      /\ idx = size + 2 =>
           /\ \A t \in Thread : Len(nids[t]) = size \div NumThread + 1
           /\ Last(nids[NumThread - 1]) = NoNet
           /\ DealtInOrder(nids, netOrder, size)

NoLanes == nids = [t \in Thread |-> <<>>] /\ counter = 0

IInv ==
  /\ group \in Groups
  /\ pc \in {"groups", "nets", "deal", "done"}
  /\ pc = "groups" => groupOrder = <<>> /\ netOrder = <<>> /\ idx = 1
                      /\ netCounter = [n \in Net |-> 0] /\ NoLanes
  /\ pc # "groups" => GroupsSorted
  /\ pc = "nets" => Counting /\ Enumerates(netOrder, Settled(idx)) /\ NoLanes
  /\ pc \in {"deal", "done"} =>
       /\ Queued /\ LanesEven
       /\ netCounter = [n \in Net |-> NetGroupSize(n)]
  /\ pc = "done" => idx = Cardinality(Grouped) + 2

-----------------------------------------------------------------------------
(* Groups.                                                                 *)

\* Costs are numbers, and lists of nets have nets.
LEMMA GroupFacts ==
  ASSUME group \in Groups
  PROVE  \A g \in Gid : group[g] \in Seq(Net) /\ GroupCost(g) \in Int
<1> SUFFICES ASSUME NEW g \in Gid PROVE group[g] \in Seq(Net) /\ GroupCost(g) \in Int
  OBVIOUS
<1>1. group[g] \in Seq(Net) /\ MstCost \in [Net -> Int]
  BY OrderAssumption
<1> DEFINE m == Len(group[g])
           q == [i \in 1 .. m |-> MstCost[group[g][i]]]
<1>2. m \in Nat /\ DOMAIN group[g] = 1 .. m /\ \A i \in 1 .. m : group[g][i] \in Net
  BY <1>1
<1>3. q \in [1 .. m -> Int]
  BY <1>1, <1>2
<1>4. GroupCost(g) = SumFunction(q)
  BY <1>2 DEF GroupCost
<1> HIDE DEF q, m
<1>5. SumFunction(q) \in Int
  BY <1>2, <1>3, PartialSums
<1> QED
  BY <1>1, <1>4, <1>5

\* Pairs of cost and id are in a strict total order.
LEMMA GroupOrderTotal ==
  ASSUME group \in Groups, NEW g \in Gid, NEW h \in Gid
  PROVE  /\ ~(GroupBefore(g, h) /\ GroupBefore(h, g))
         /\ g = h \/ GroupBefore(g, h) \/ GroupBefore(h, g)
         /\ ~GroupBefore(g, g)
<1>1. GroupCost(g) \in Int /\ GroupCost(h) \in Int
  BY GroupFacts
<1>2. g \in Int /\ h \in Int
  BY OrderAssumption DEF Gid
<1> QED
  BY <1>1, <1>2 DEF GroupBefore

\* The sort leaves every group once, cheap ones first.
LEMMA SortedGroupsFacts ==
  ASSUME group \in Groups, NEW order \in SortedGroups
  PROVE  /\ order \in Bijection(1 .. GroupNum, Gid)
         /\ \A i, j \in 1 .. GroupNum : i < j => GroupBefore(order[i], order[j])
<1> DEFINE D == 1 .. GroupNum
           s == [i \in D |-> i - 1]
<1>0. GroupNum \in Nat /\ Gid = 0 .. GroupNum - 1 /\ DOMAIN s = D
  BY OrderAssumption DEF Gid
<1>1. PICK p \in Injection(D, D) :
        /\ order = [i \in D |-> s[p[i]]]
        /\ \A i, j \in D : i < j => ~GroupBefore(s[p[j]], s[p[i]])
  BY <1>0 DEF SortedGroups, Sorted
<1>2. /\ p \in [D -> D] /\ \A i, j \in D : p[i] = p[j] => i = j
      /\ \A k \in D : \E i \in D : p[i] = k
  <2>1. IsFiniteSet(D)
    BY <1>0, FS_Interval
  <2>2. p \in Surjection(D, D)
    BY <2>1, FS_Injection
  <2> QED
    BY <2>2 DEF Injection, Surjection, IsInjective
<1>8. \A i \in D : order[i] = p[i] - 1 /\ s[p[i]] = p[i] - 1
  BY <1>1, <1>2
<1>3. \A i \in D : order[i] = p[i] - 1 /\ p[i] \in 1 .. GroupNum
  BY <1>8, <1>2
<1>4. order \in [D -> Gid]
  <2>1. \A i \in D : order[i] \in Gid
    BY ONLY <1>0, <1>3
  <2>2. order = [i \in D |-> order[i]]
    BY <1>1
  <2> QED
    BY <2>1, <2>2
<1>5. \A i, j \in D : order[i] = order[j] => i = j
  <2> SUFFICES ASSUME NEW i \in D, NEW j \in D, order[i] = order[j] PROVE i = j
    OBVIOUS
  <2>1. p[i] \in Int /\ p[j] \in Int
    BY <1>3, <1>0
  <2>3. p[i] - 1 = p[j] - 1
    BY <1>3
  <2>2. p[i] = p[j]
    BY ONLY <2>1, <2>3
  <2> QED
    BY <2>2, <1>2
<1>6. \A g \in Gid : \E i \in D : order[i] = g
  <2> TAKE g \in Gid
  <2>1. g + 1 \in D /\ (g + 1) - 1 = g
    BY <1>0
  <2>2. PICK i \in D : p[i] = g + 1
    BY <2>1, <1>2
  <2> QED
    BY <1>3, <2>1, <2>2
<1>7. ASSUME NEW i \in D, NEW j \in D, i < j PROVE GroupBefore(order[i], order[j])
  <2>1. order[i] \in Gid /\ order[j] \in Gid /\ order[i] # order[j]
    BY <1>4, <1>5, <1>7, <1>0
  <2>2. ~GroupBefore(order[j], order[i])
    BY <1>1, <1>8, <1>7
  <2> QED
    BY <2>1, <2>2, GroupOrderTotal
<1> QED
  BY <1>4, <1>5, <1>6, <1>7 DEF Bijection, Injection, Surjection, IsInjective

-----------------------------------------------------------------------------
(* Counting.                                                               *)

\* A net is mentioned a number of times, and not at all if it is no member.
LEMMA OccurrenceFacts ==
  ASSUME NEW n \in Net, NEW s \in Seq(Net)
  PROVE  Occurrences(n, s) \in Nat /\ (Occurrences(n, s) = 0 <=> n \notin ToSet(s))
<1> DEFINE P == {i \in DOMAIN s : s[i] = n}
<1>1. IsFiniteSet(P)
  <2>1. Len(s) \in Nat /\ DOMAIN s = 1 .. Len(s)
    OBVIOUS
  <2>2. IsFiniteSet(1 .. Len(s)) /\ P \in SUBSET (1 .. Len(s))
    BY <2>1, FS_Interval
  <2> QED
    BY <2>2, FS_Subset
<1>2. Cardinality(P) \in Nat /\ (Cardinality(P) = 0 <=> P = {})
  BY <1>1, FS_CardinalityType, FS_EmptySet
<1>3. P = {} <=> n \notin ToSet(s)
  BY DEF ToSet
<1> QED
  BY <1>2, <1>3 DEF Occurrences

\* Partial sums of natural numbers stay below the whole, and reach it when nothing
\* is left.
LEMMA SumsGrow ==
  ASSUME NEW m \in Nat, NEW q \in [1 .. m -> Nat], NEW A \in [0 .. m -> Int],
         A[0] = 0, \A k \in 1 .. m : A[k] = A[k - 1] + q[k]
  PROVE  \A k \in 0 .. m : /\ 0 <= A[k] /\ A[k] <= A[m]
                           /\ A[k] = A[m] <=> \A i \in k + 1 .. m : q[i] = 0
<1> DEFINE up == {k \in 0 .. m : 0 <= A[k]}
           Reaches(k) == A[k] = A[m] <=> \A i \in k + 1 .. m : q[i] = 0
           down == {j \in 0 .. m : A[m - j] <= A[m] /\ Reaches(m - j)}
<1>1. 0 .. m \subseteq up
  <2>1. 0 \in up
    OBVIOUS
  <2>2. \A k \in 0 .. m - 1 : k \in up => k + 1 \in up
    <3> TAKE k \in 0 .. m - 1
    <3>1. A[k + 1] = A[k] + q[k + 1] /\ q[k + 1] \in Nat /\ A[k] \in Int
      <4>1. k + 1 \in 1 .. m /\ (k + 1) - 1 = k /\ k \in 0 .. m
        OBVIOUS
      <4> QED
        BY <4>1
    <3> QED
      BY <3>1
  <2> HIDE DEF up
  <2> QED
    BY <2>1, <2>2, IntervalInduction, Zenon
<1>2. 0 .. m \subseteq down
  <2>1. 0 \in down
    <3>1. m - 0 = m /\ A[m] \in Int
      OBVIOUS
    <3> QED
      BY <3>1
  <2>2. \A j \in 0 .. m - 1 : j \in down => j + 1 \in down
    <3> SUFFICES ASSUME NEW j \in 0 .. m - 1, j \in down PROVE j + 1 \in down
      OBVIOUS
    <3> DEFINE k == m - j
    <3>1. k \in 1 .. m /\ m - (j + 1) = k - 1 /\ k - 1 \in 0 .. m /\ j + 1 \in 0 .. m
      OBVIOUS
    <3>2. A[k] = A[k - 1] + q[k] /\ q[k] \in Nat /\ A[k - 1] \in Int /\ A[m] \in Int /\ A[k] \in Int
      BY <3>1
    <3>3. A[k] <= A[m] /\ (A[k] = A[m] <=> \A i \in k + 1 .. m : q[i] = 0)
      OBVIOUS
    <3>7. A[k] <= A[m]
      BY <3>3
    <3>4. (k - 1) + 1 = k
      BY <3>1
    <3>5. (\A i \in k .. m : q[i] = 0) <=> q[k] = 0 /\ \A i \in k + 1 .. m : q[i] = 0
      <4>1. \A i \in k .. m : i = k \/ i \in k + 1 .. m
        BY <3>1
      <4>2. k \in k .. m /\ k + 1 .. m \subseteq k .. m
        BY <3>1
      <4> HIDE DEF k
      <4> QED
        BY <4>1, <4>2
    <3> HIDE DEF k
    <3>6. A[k - 1] <= A[m] /\ (A[k - 1] = A[m] <=> q[k] = 0 /\ A[k] = A[m])
      BY ONLY <3>2, <3>7
    <3> QED
      BY <3>1, <3>3, <3>4, <3>5, <3>6
  <2> HIDE DEF down
  <2> QED
    BY <2>1, <2>2, IntervalInduction, Zenon
<1> QED
  <2> TAKE k \in 0 .. m
  <2>1. m - k \in 0 .. m /\ m - (m - k) = k
    OBVIOUS
  <2>2. k \in up /\ m - k \in down
    BY <1>1, <1>2, <2>1
  <2> QED
    BY <2>1, <2>2

\* The mentions counted group by group make up the size the net knows.
LEMMA MentionSums ==
  ASSUME group \in Groups, GroupsSorted, NEW n \in Net
  PROVE  \E A \in [0 .. GroupNum -> Int] :
           /\ A[0] = 0
           /\ \A k \in 1 .. GroupNum : A[k] = A[k - 1] + Occurrences(n, group[groupOrder[k]])
           /\ \A k \in 0 .. GroupNum : A[k] = SumFunction(Mentions(n, k))
           /\ A[GroupNum] = NetGroupSize(n)
<1> DEFINE m == GroupNum
           q == [k \in 1 .. m |-> Occurrences(n, group[groupOrder[k]])]
           f == [g \in Gid |-> Occurrences(n, group[g])]
<1>0. m \in Nat
  BY OrderAssumption
<1>1. \A k \in 1 .. m : groupOrder[k] \in Gid
  BY DEF GroupsSorted, Bijection, Injection
<1>2. \A g \in Gid : Occurrences(n, group[g]) \in Nat
  BY GroupFacts, OccurrenceFacts
<1>3. q \in [1 .. m -> Int] /\ f \in [Gid -> Int]
  BY <1>1, <1>2
<1>4. \A k \in 1 .. m : q[k] = Occurrences(n, group[groupOrder[k]]) /\ q[k] = f[groupOrder[k]]
  BY <1>1
<1>5. q = [k \in 1 .. m |-> f[groupOrder[k]]]
  BY <1>4
<1>6. NetGroupSize(n) = SumFunction(f)
  BY DEF NetGroupSize
<1>7. groupOrder \in Bijection(1 .. m, Gid)
  BY DEF GroupsSorted
<1>8. ASSUME NEW k \in 0 .. m PROVE Mentions(n, k) = [i \in 1 .. k |-> q[i]] /\ 1 .. k \subseteq 1 .. m
  <2>1. \A i \in 1 .. k : i \in 1 .. m
    BY <1>0
  <2> QED
    BY <2>1, <1>4 DEF Mentions
<1> HIDE DEF m, q, f
<1>9. SumFunction(q) = SumFunction(f)
  BY <1>0, <1>3, <1>5, <1>7, SumEnumerated
<1>10. PICK A \in [0 .. m -> Int] :
         A[0] = 0 /\ A[m] = SumFunction(q) /\ \A k \in 1 .. m : A[k] = A[k - 1] + q[k]
  BY <1>0, <1>3, PartialSums
<1>11. ASSUME NEW k \in 0 .. m PROVE A[k] = SumFunction(Mentions(n, k))
  <2> DEFINE r == [i \in 1 .. k |-> q[i]]
  <2>1. k \in Nat /\ \A i \in 1 .. k : i \in 1 .. m
    BY <1>0, <1>8
  <2>2. r \in [1 .. k -> Int] /\ \A i \in 1 .. k : r[i] = q[i]
    BY <2>1, <1>3
  <2>3. \A i \in 1 .. k : A[i] = A[i - 1] + r[i]
    BY <2>1, <2>2, <1>10
  <2>4. r = Mentions(n, k)
    BY <1>8
  <2> HIDE DEF r
  <2>5. A[k] = SumFunction(r)
    BY ONLY <1>10, <2>1, <2>2, <2>3, SumUnique
  <2> QED
    BY <2>4, <2>5
<1> QED
  BY <1>4, <1>6, <1>9, <1>10, <1>11 DEF m

\* The net has been counted as often as it is mentioned when no later group
\* mentions it, and never more often.
LEMMA CountedOut ==
  ASSUME group \in Groups, GroupsSorted, NEW n \in Net, NEW k \in 0 .. GroupNum
  PROVE  /\ SumFunction(Mentions(n, k)) \in 0 .. NetGroupSize(n)
         /\ SumFunction(Mentions(n, k)) = NetGroupSize(n) <=>
              \A i \in k + 1 .. GroupNum : n \notin ToSet(group[groupOrder[i]])
         /\ k < GroupNum =>
              SumFunction(Mentions(n, k + 1)) =
                SumFunction(Mentions(n, k)) + Occurrences(n, group[groupOrder[k + 1]])
         /\ SumFunction(Mentions(n, 0)) = 0
<1> DEFINE m == GroupNum
           q == [i \in 1 .. m |-> Occurrences(n, group[groupOrder[i]])]
<1>0. m \in Nat
  BY OrderAssumption
<1>1. PICK A \in [0 .. m -> Int] :
        /\ A[0] = 0
        /\ \A i \in 1 .. m : A[i] = A[i - 1] + Occurrences(n, group[groupOrder[i]])
        /\ \A i \in 0 .. m : A[i] = SumFunction(Mentions(n, i))
        /\ A[m] = NetGroupSize(n)
  BY MentionSums
<1>2. \A i \in 1 .. m : /\ Occurrences(n, group[groupOrder[i]]) \in Nat
                        /\ Occurrences(n, group[groupOrder[i]]) = 0 <=> n \notin ToSet(group[groupOrder[i]])
  <2>1. \A i \in 1 .. m : groupOrder[i] \in Gid
    BY DEF GroupsSorted, Bijection, Injection
  <2> QED
    BY <2>1, GroupFacts, OccurrenceFacts
<1>3. q \in [1 .. m -> Nat] /\ \A i \in 1 .. m : q[i] = Occurrences(n, group[groupOrder[i]])
  BY <1>2
<1>4. \A i \in 1 .. m : A[i] = A[i - 1] + q[i]
  BY <1>1, <1>3
<1> HIDE DEF q
<1>5. \A i \in 0 .. m : /\ 0 <= A[i] /\ A[i] <= A[m]
                        /\ A[i] = A[m] <=> \A j \in i + 1 .. m : q[j] = 0
  <2> HIDE DEF m
  <2> QED
    BY <1>0, <1>1, <1>3, <1>4, SumsGrow
<1>6. A[k] = SumFunction(Mentions(n, k)) /\ A[m] = NetGroupSize(n) /\ A[k] \in Int /\ A[m] \in Int
  BY <1>0, <1>1
<1>7. (\A j \in k + 1 .. m : q[j] = 0) <=> \A i \in k + 1 .. GroupNum : n \notin ToSet(group[groupOrder[i]])
  <2>1. \A j \in k + 1 .. m : j \in 1 .. m
    BY <1>0
  <2> QED
    BY <2>1, <1>2, <1>3
<1>8. SumFunction(Mentions(n, k)) \in 0 .. NetGroupSize(n)
  <2>1. A[k] \in 0 .. A[m]
    BY <1>5, <1>6
  <2> QED
    BY <2>1, <1>6
<1>9. k < m => SumFunction(Mentions(n, k + 1)) =
                 SumFunction(Mentions(n, k)) + Occurrences(n, group[groupOrder[k + 1]])
  <2> SUFFICES ASSUME k < m
               PROVE  SumFunction(Mentions(n, k + 1)) =
                        SumFunction(Mentions(n, k)) + Occurrences(n, group[groupOrder[k + 1]])
    OBVIOUS
  <2>1. k + 1 \in 1 .. m /\ k + 1 \in 0 .. m /\ (k + 1) - 1 = k
    BY <1>0
  <2>2. A[k + 1] = A[k] + Occurrences(n, group[groupOrder[k + 1]])
    BY <1>1, <2>1
  <2> QED
    BY <1>1, <1>6, <2>1, <2>2
<1>10. SumFunction(Mentions(n, 0)) = 0
  <2>1. 0 \in 0 .. m
    BY <1>0
  <2> QED
    BY <1>1, <2>1
<1> QED
  BY <1>5, <1>6, <1>7, <1>8, <1>9, <1>10

-----------------------------------------------------------------------------
(* Which nets a group finishes.                                            *)

\* The last group of a net is the last one of the order that mentions it.
LEMMA LastGroupInOrder ==
  ASSUME group \in Groups, GroupsSorted, NEW n \in Net, NEW k \in 1 .. GroupNum,
         n \in ToSet(group[groupOrder[k]]),
         \A i \in k + 1 .. GroupNum : n \notin ToSet(group[groupOrder[i]])
  PROVE  LastGroup(n) = groupOrder[k]
<1> DEFINE IsLast(g) == /\ n \in ToSet(group[g])
                        /\ \A h \in Gid : n \in ToSet(group[h]) => h = g \/ GroupBefore(h, g)
<1>1. /\ \A i \in 1 .. GroupNum : groupOrder[i] \in Gid
      /\ \A g \in Gid : \E i \in 1 .. GroupNum : groupOrder[i] = g
      /\ \A i, j \in 1 .. GroupNum : i < j => GroupBefore(groupOrder[i], groupOrder[j])
  BY DEF GroupsSorted, Bijection, Injection, Surjection
<1>2. IsLast(groupOrder[k])
  <2> SUFFICES ASSUME NEW h \in Gid, n \in ToSet(group[h])
               PROVE  h = groupOrder[k] \/ GroupBefore(h, groupOrder[k])
    OBVIOUS
  <2>1. PICK i \in 1 .. GroupNum : groupOrder[i] = h
    BY <1>1
  <2>2. i \notin k + 1 .. GroupNum
    BY <2>1
  <2>3. GroupNum \in Nat
    BY OrderAssumption
  <2>4. i = k \/ i < k
    BY <2>2, <2>3
  <2> QED
    BY <1>1, <2>1, <2>4
<1>3. \A g \in Gid : IsLast(g) => g = groupOrder[k]
  <2> SUFFICES ASSUME NEW g \in Gid, IsLast(g), g # groupOrder[k] PROVE FALSE
    OBVIOUS
  <2>1. GroupBefore(groupOrder[k], g) /\ GroupBefore(g, groupOrder[k])
    BY <1>1, <1>2
  <2> QED
    BY <1>1, <2>1, GroupOrderTotal
<1>4. LastGroup(n) = CHOOSE g \in Gid : IsLast(g)
  BY DEF LastGroup
<1> HIDE DEF IsLast
<1> QED
  BY <1>1, <1>2, <1>3, <1>4

\* A grouped net has its last group somewhere in the order; it is settled after it.
LEMMA LastMention ==
  ASSUME group \in Groups, GroupsSorted, NEW n \in Grouped
  PROVE  \E k \in 1 .. GroupNum :
           /\ n \in ToSet(group[groupOrder[k]])
           /\ \A i \in k + 1 .. GroupNum : n \notin ToSet(group[groupOrder[i]])
           /\ LastGroup(n) = groupOrder[k]
<1> DEFINE S == {i \in 1 .. GroupNum : n \in ToSet(group[groupOrder[i]])}
           k == Max(S)
<1>0. GroupNum \in Nat
  BY OrderAssumption
<1>1. n \in Net /\ S # {}
  <2>1. PICK g \in Gid : n \in ToSet(group[g])
    BY DEF Grouped
  <2>2. group[g] \in Seq(Net)
    BY GroupFacts
  <2>3. PICK i \in 1 .. GroupNum : groupOrder[i] = g
    BY DEF GroupsSorted, Bijection, Surjection
  <2>4. n \in Net
    <3>1. PICK i2 \in DOMAIN group[g] : group[g][i2] = n
      BY <2>1 DEF ToSet
    <3> QED
      BY <2>2, <3>1
  <2> QED
    BY <2>1, <2>3, <2>4
<1>2. k \in S /\ \A i \in S : i <= k
  <2>1. S \in SUBSET (1 .. GroupNum)
    OBVIOUS
  <2> HIDE DEF S
  <2> QED
    BY <1>0, <1>1, <2>1, MaxOfIndices
<1>3. k \in 1 .. GroupNum /\ n \in ToSet(group[groupOrder[k]])
  BY <1>2
<1> HIDE DEF k
<1>4. \A i \in k + 1 .. GroupNum : n \notin ToSet(group[groupOrder[i]])
  <2> SUFFICES ASSUME NEW i \in k + 1 .. GroupNum, n \in ToSet(group[groupOrder[i]]) PROVE FALSE
    OBVIOUS
  <2>1. i \in 1 .. GroupNum /\ i > k /\ k \in Int
    BY <1>0, <1>3
  <2>2. i \in S
    BY <2>1
  <2> QED
    BY <1>2, <2>1, <2>2
<1>5. LastGroup(n) = groupOrder[k]
  BY <1>1, <1>3, <1>4, LastGroupInOrder
<1> QED
  BY <1>3, <1>4, <1>5

\* Nothing is settled before the first group, everything after the last one.
LEMMA SettledEnds ==
  ASSUME group \in Groups, GroupsSorted
  PROVE  Settled(1) = {} /\ Settled(GroupNum + 1) = Grouped
<1>0. GroupNum \in Nat
  BY OrderAssumption
<1>1. Settled(1) = {}
  <2> SUFFICES ASSUME NEW n \in Settled(1) PROVE FALSE
    OBVIOUS
  <2>1. n \in Grouped
    BY DEF Settled
  <2> QED
    BY <2>1, LastMention DEF Settled
<1>2. ~ \E i : i \in GroupNum + 1 .. GroupNum
  BY <1>0
<1>3. Settled(GroupNum + 1) = Grouped
  BY <1>2 DEF Settled
<1> QED
  BY <1>1, <1>3

\* All grouped nets are nets, finitely many.
LEMMA GroupedNets ==
  ASSUME group \in Groups
  PROVE  /\ Grouped \subseteq Net /\ IsFiniteSet(Grouped)
         /\ \A g \in Gid : ToSet(group[g]) \subseteq Grouped
         /\ \A k : Settled(k) \subseteq Grouped /\ IsFiniteSet(Settled(k))
<1>1. \A g \in Gid : ToSet(group[g]) \subseteq Net
  <2> TAKE g \in Gid
  <2>1. group[g] \in Seq(Net)
    BY GroupFacts
  <2> QED
    BY <2>1 DEF ToSet
<1>2. Grouped \subseteq Net /\ IsFiniteSet(Net)
  BY <1>1, OrderAssumption DEF Grouped
<1>3. IsFiniteSet(Grouped)
  BY <1>2, FS_Subset
<1>4. \A k : Settled(k) \subseteq Grouped
  BY DEF Settled
<1>5. \A k : IsFiniteSet(Settled(k))
  BY <1>3, <1>4, FS_Subset
<1> QED
  BY <1>2, <1>3, <1>4, <1>5 DEF Grouped

\* A group finishes the nets it mentions last: they are settled then and were not
\* before, and their last group is this one.
LEMMA FinishedFacts ==
  ASSUME group \in Groups, GroupsSorted, Counting, idx <= GroupNum
  PROVE  LET U == FinishedNets(groupOrder[idx])
         IN  /\ Settled(idx + 1) = Settled(idx) \cup U
             /\ Settled(idx) \cap U = {}
             /\ \A n \in U : LastGroup(n) = groupOrder[idx]
             /\ \A n \in Settled(idx) : \E i \in 1 .. idx - 1 : LastGroup(n) = groupOrder[i]
<1> DEFINE g == groupOrder[idx]
           Later(n, k) == \E i \in k .. GroupNum : n \in ToSet(group[groupOrder[i]])
           U == {n \in ToSet(group[g]) : ~Later(n, idx + 1)}
<1>0. /\ GroupNum \in Nat /\ idx \in 1 .. GroupNum /\ idx - 1 \in 0 .. GroupNum /\ idx \in 0 .. GroupNum
      /\ (idx - 1) + 1 = idx
  BY OrderAssumption DEF Counting
<1>1. g \in Gid
  BY <1>0 DEF GroupsSorted, Bijection, Injection
<1>2. \A n \in ToSet(group[g]) : n \in Net /\ n \in Grouped
  BY <1>1, GroupedNets
<1>3. FinishedNets(g) = U
  <2> SUFFICES ASSUME NEW n \in ToSet(group[g])
               PROVE  Counted(g)[n] = NetGroupSize(n) <=> ~Later(n, idx + 1)
    BY DEF FinishedNets
  <2>1. n \in Net
    BY <1>2
  <2>2. Counted(g)[n] = SumFunction(Mentions(n, idx - 1)) + Occurrences(n, group[g])
    BY <2>1 DEF Counted, Counting
  <2>3. SumFunction(Mentions(n, idx - 1)) + Occurrences(n, group[g]) = SumFunction(Mentions(n, idx))
    BY <1>0, <2>1, CountedOut
  <2>4. SumFunction(Mentions(n, idx)) = NetGroupSize(n) <=> ~Later(n, idx + 1)
    BY <1>0, <2>1, CountedOut
  <2> QED
    BY <2>2, <2>3, <2>4
<1>4. \A n \in Grouped : Later(n, idx) <=> Later(n, idx + 1) \/ n \in ToSet(group[g])
  <2> TAKE n \in Grouped
  <2>1. \A i \in idx .. GroupNum : i = idx \/ i \in idx + 1 .. GroupNum
    BY <1>0
  <2>2. idx \in idx .. GroupNum /\ \A i \in idx + 1 .. GroupNum : i \in idx .. GroupNum
    BY <1>0
  <2> QED
    BY <2>1, <2>2
<1>5. \A k : Settled(k) = {n \in Grouped : ~Later(n, k)}
  BY DEF Settled
<1>6. \A n \in U : LastGroup(n) = g
  <2> TAKE n \in U
  <2> QED
    BY <1>0, <1>2, LastGroupInOrder
<1>7. ASSUME NEW n \in Settled(idx) PROVE \E i \in 1 .. idx - 1 : LastGroup(n) = groupOrder[i]
  <2>1. n \in Grouped /\ ~Later(n, idx)
    BY <1>5
  <2>2. PICK k \in 1 .. GroupNum : n \in ToSet(group[groupOrder[k]]) /\ LastGroup(n) = groupOrder[k]
    BY <2>1, LastMention
  <2>3. k \notin idx .. GroupNum
    BY <2>1, <2>2
  <2>4. k \in 1 .. idx - 1
    BY <1>0, <2>3
  <2> QED
    BY <2>2, <2>4
<1> HIDE DEF Later
<1>8. Settled(idx + 1) = Settled(idx) \cup U /\ Settled(idx) \cap U = {}
  BY <1>2, <1>4, <1>5
<1> QED
  BY <1>3, <1>6, <1>7, <1>8

\* One list after the other: what the first settles need not wait for the second.
LEMMA EnumeratesBoth ==
  ASSUME NEW S, IsFiniteSet(S), NEW T, IsFiniteSet(T), S \cap T = {},
         NEW s, NEW t, Enumerates(s, S), Enumerates(t, T),
         \A x \in S : \A y \in T : ~Precedes(y, x)
  PROVE  Enumerates(s \o t, S \cup T)
<1> DEFINE m == Cardinality(S)
           n == Cardinality(T)
           r == s \o t
<1>1. m \in Nat /\ n \in Nat /\ Cardinality(S \cup T) = m + n
  <2>1. m \in Nat /\ n \in Nat
    BY FS_CardinalityType
  <2>2. Cardinality(S \cup T) = m + n - Cardinality(S \cap T)
    BY FS_Union
  <2>3. Cardinality(S \cap T) = 0
    BY FS_EmptySet
  <2> QED
    BY <2>1, <2>2, <2>3
<1>2. /\ s \in [1 .. m -> S] /\ t \in [1 .. n -> T]
      /\ \A i, j \in 1 .. m : s[i] = s[j] => i = j
      /\ \A i, j \in 1 .. n : t[i] = t[j] => i = j
      /\ \A x \in S : \E i \in 1 .. m : s[i] = x
      /\ \A x \in T : \E i \in 1 .. n : t[i] = x
      /\ \A i, j \in 1 .. m : i < j => ~Precedes(s[j], s[i])
      /\ \A i, j \in 1 .. n : i < j => ~Precedes(t[j], t[i])
  BY DEF Enumerates, Bijection, Injection, Surjection, IsInjective
<1> HIDE DEF m, n
<1>3. Len(s) = m /\ Len(t) = n /\ s \in Seq(S) /\ t \in Seq(T)
  BY <1>1, <1>2
<1>4. /\ DOMAIN r = 1 .. m + n
      /\ \A i \in 1 .. m : r[i] = s[i]
      /\ \A i \in m + 1 .. m + n : r[i] = t[i - m]
  BY <1>1, <1>3
<1> HIDE DEF r
<1>5. \A i \in 1 .. m + n : \/ i \in 1 .. m /\ r[i] = s[i] /\ r[i] \in S
                            \/ i \in m + 1 .. m + n /\ i - m \in 1 .. n /\ r[i] = t[i - m] /\ r[i] \in T
  <2> TAKE i \in 1 .. m + n
  <2>1. CASE i \in 1 .. m
    <3>1. r[i] = s[i] /\ s[i] \in S
      BY <1>2, <1>4, <2>1
    <3> QED
      BY <2>1, <3>1
  <2>2. CASE i \notin 1 .. m
    <3>1. i \in m + 1 .. m + n /\ i - m \in 1 .. n
      BY <1>1, <2>2
    <3> QED
      BY <1>2, <1>4, <3>1
  <2> QED
    BY <2>1, <2>2
<1>6. r = [i \in 1 .. m + n |-> r[i]]
  <2>1. s \in Seq(S \cup T) /\ t \in Seq(S \cup T)
    BY <1>3
  <2>2. r \in Seq(S \cup T)
    BY <2>1, ConcatProperties DEF r
  <2>3. r \in [1 .. Len(r) -> S \cup T]
    BY <2>2, LenProperties
  <2>4. r = [i \in DOMAIN r |-> r[i]]
    BY <2>3
  <2> QED
    BY <1>4, <2>4
<1>7. r \in [1 .. m + n -> S \cup T]
  BY <1>5, <1>6
<1>8. ASSUME NEW i \in 1 .. m + n, NEW j \in 1 .. m + n, i < j
      PROVE  r[i] # r[j] /\ ~Precedes(r[j], r[i])
  <2>1. CASE i \in 1 .. m /\ r[i] = s[i] /\ r[i] \in S /\ j \in 1 .. m /\ r[j] = s[j]
    BY <1>2, <1>8, <2>1, <1>1
  <2>2. CASE i \in 1 .. m /\ r[i] = s[i] /\ r[i] \in S /\ r[j] \in T
    BY <2>2
  <2>3. CASE i \in m + 1 .. m + n /\ j \in 1 .. m
    BY <1>1, <1>8, <2>3
  <2>4. CASE i - m \in 1 .. n /\ r[i] = t[i - m] /\ j - m \in 1 .. n /\ r[j] = t[j - m]
    <3>1. i - m < j - m /\ i - m # j - m
      BY <1>1, <1>8
    <3> QED
      BY <1>2, <2>4, <3>1
  <2> QED
    BY <1>5, <2>1, <2>2, <2>3, <2>4
<1>9. \A i, j \in 1 .. m + n : r[i] = r[j] => i = j
  <2> SUFFICES ASSUME NEW i \in 1 .. m + n, NEW j \in 1 .. m + n, r[i] = r[j], i # j PROVE FALSE
    OBVIOUS
  <2>1. i < j \/ j < i
    BY <1>1
  <2> QED
    BY <1>8, <2>1
<1>10. \A x \in S \cup T : \E i \in 1 .. m + n : r[i] = x
  <2>1. \A x \in S : \E i \in 1 .. m + n : r[i] = x
    <3> TAKE x \in S
    <3>1. PICK i \in 1 .. m : s[i] = x
      BY <1>2
    <3>2. i \in 1 .. m + n
      BY <1>1
    <3> QED
      BY <1>4, <3>1, <3>2
  <2>2. \A x \in T : \E i \in 1 .. m + n : r[i] = x
    <3> TAKE x \in T
    <3>1. PICK i \in 1 .. n : t[i] = x
      BY <1>2
    <3>2. m + i \in m + 1 .. m + n /\ m + i \in 1 .. m + n /\ (m + i) - m = i
      BY <1>1
    <3> QED
      BY <1>4, <3>1, <3>2
  <2> QED
    BY <2>1, <2>2
<1>11. r \in Bijection(1 .. m + n, S \cup T)
  BY <1>7, <1>9, <1>10 DEF Bijection, Injection, Surjection, IsInjective
<1> QED
  <2>1. Enumerates(r, S \cup T)
    BY <1>1, <1>8, <1>11 DEF Enumerates
  <2> QED
    BY <2>1 DEF r

\* std::sort by cost alone lists the finished nets of a group as it has to.
LEMMA SortedByCost ==
  ASSUME group \in Groups, NEW g \in Gid, NEW U \in SUBSET Grouped, IsFiniteSet(U),
         \A n \in U : LastGroup(n) = g, NEW s \in ByMstCost(U)
  PROVE  Enumerates(s, U)
<1> DEFINE m == Cardinality(U)
<1>0. m \in Nat
  BY FS_CardinalityType
<1>1. /\ s \in [1 .. m -> U] /\ \A i, j \in 1 .. m : i # j => s[i] # s[j]
      /\ \A i, j \in DOMAIN s : i < j => MstCost[s[i]] <= MstCost[s[j]]
  BY DEF ByMstCost, SetToSeqs
<1>2. s \in Bijection(1 .. m, U)
  <2>1. s \in Injection(1 .. m, U)
    BY <1>1 DEF Injection, IsInjective
  <2>2. IsFiniteSet(1 .. m) /\ Cardinality(1 .. m) = m
    BY <1>0, FS_Interval
  <2>3. s \in Surjection(1 .. m, U)
    <3> HIDE DEF m
    <3> QED
      BY <2>1, <2>2, FS_Injection DEF m
  <2> QED
    BY <2>1, <2>3 DEF Bijection
<1>3. ASSUME NEW i \in 1 .. m, NEW j \in 1 .. m, i < j PROVE ~Precedes(s[j], s[i])
  <2>1. s[i] \in U /\ s[j] \in U /\ i \in DOMAIN s /\ j \in DOMAIN s
    BY <1>1
  <2>2. MstCost[s[i]] <= MstCost[s[j]] /\ MstCost[s[i]] \in Int /\ MstCost[s[j]] \in Int
    BY <1>1, <1>3, <2>1, GroupedNets, OrderAssumption
  <2>3. ~GroupBefore(g, g)
    BY GroupOrderTotal
  <2> QED
    BY <2>1, <2>2, <2>3 DEF Precedes
<1> QED
  BY <1>2, <1>3 DEF Enumerates

-----------------------------------------------------------------------------
(* The steps that make the list.                                           *)

\* Initially nothing is sorted, counted, listed or dealt.
LEMMA InitInv == Init => IInv
BY DEF Init, IInv, NoLanes

\* Where the groups have just been sorted nothing is settled and nothing counted.
SortedFresh == Settled(1) = {} /\ \A n \in Net : SumFunction(Mentions(n, 0)) = 0

LEMMA Fresh == group \in Groups /\ GroupsSorted => SortedFresh
<1>1. 0 \in 0 .. GroupNum
  BY OrderAssumption
<1> QED
  BY <1>1, SettledEnds, CountedOut DEF SortedFresh

\* Sorting the groups settles no net yet.
LEMMA SortNetGroupsInv == IInv /\ SortNetGroups => IInv'
<1> SUFFICES ASSUME IInv, SortNetGroups PROVE IInv'
  OBVIOUS
<1>0. /\ group \in Groups /\ group' = group /\ pc' = "nets" /\ netOrder' = <<>> /\ idx' = 1
      /\ netCounter' = [n \in Net |-> 0] /\ NoLanes' /\ GroupNum \in Nat /\ 1 \in 1 .. GroupNum + 1
  BY OrderAssumption DEF IInv, SortNetGroups, NoLanes
<1>1. GroupsSorted'
  <2>1. groupOrder' \in SortedGroups
    BY DEF SortNetGroups
  <2>2. /\ groupOrder' \in Bijection(1 .. GroupNum, Gid)
        /\ \A i, j \in 1 .. GroupNum : i < j => GroupBefore(groupOrder'[i], groupOrder'[j])
    BY <1>0, <2>1, SortedGroupsFacts
  <2>3. \A g, h : GroupBefore(g, h)' = GroupBefore(g, h)
    BY <1>0 DEF GroupBefore, GroupCost
  <2> QED
    BY <2>2, <2>3 DEF GroupsSorted
<1>2. (group \in Groups /\ GroupsSorted)'
  BY <1>0, <1>1
<1>3. SortedFresh'
  BY <1>2, Fresh, PTL
<1>4. Counting'
  BY <1>0, <1>3 DEF Counting, SortedFresh
<1>5. Enumerates(netOrder, Settled(idx))'
  <2>1. Settled(1)' = {}
    BY <1>3 DEF SortedFresh
  <2>2. Cardinality({}) = 0 /\ ~ \E i : i \in 1 .. 0
    BY FS_EmptySet
  <2>3. <<>> \in Bijection(1 .. 0, {})
    BY <2>2 DEF Bijection, Injection, Surjection, IsInjective
  <2>4. Enumerates(<<>>, {})'
    BY <2>2, <2>3 DEF Enumerates
  <2> QED
    BY <1>0, <2>1, <2>4
<1> QED
  BY <1>0, <1>1, <1>4, <1>5 DEF IInv

\* What only depends on the groups and their order stays with them.
LEMMA GroupsStay ==
  ASSUME group' = group, groupOrder' = groupOrder
  PROVE  /\ Grouped' = Grouped /\ GroupsSorted' = GroupsSorted
         /\ \A k : Settled(k)' = Settled(k)
         /\ \A m, n : Precedes(m, n)' = Precedes(m, n)
         /\ \A n, k : Mentions(n, k)' = Mentions(n, k)
         /\ \A n : NetGroupSize(n)' = NetGroupSize(n)
<1>1. \A g, h : GroupBefore(g, h)' = GroupBefore(g, h)
  BY DEF GroupBefore, GroupCost
<1>2. Grouped' = Grouped
  BY DEF Grouped
<1>3. \A n : LastGroup(n)' = LastGroup(n)
  BY <1>1 DEF LastGroup
<1>4. \A n, k : Mentions(n, k)' = Mentions(n, k)
  BY DEF Mentions
<1>5. \A n : NetGroupSize(n)' = NetGroupSize(n)
  BY DEF NetGroupSize
<1> QED
  BY <1>1, <1>2, <1>3, <1>4, <1>5 DEF GroupsSorted, Settled, Precedes

\* A group appends the nets it finishes to those settled before, none of which
\* has to wait for them.
LEMMA GetIntraGroupNetOrderInv == IInv /\ GetIntraGroupNetOrder => IInv'
<1> SUFFICES ASSUME IInv, GetIntraGroupNetOrder PROVE IInv'
  OBVIOUS
<1> DEFINE g == groupOrder[idx]
           U == FinishedNets(g)
<1>0. /\ group \in Groups /\ GroupsSorted /\ Counting /\ Enumerates(netOrder, Settled(idx)) /\ NoLanes
      /\ group' = group /\ groupOrder' = groupOrder /\ pc = "nets" /\ pc' = pc
      /\ nids' = nids /\ counter' = counter /\ idx' = idx + 1
  BY DEF IInv, GetIntraGroupNetOrder
<1>1. GroupNum \in Nat /\ idx \in 1 .. GroupNum /\ idx + 1 \in 1 .. GroupNum + 1 /\ g \in Gid
  <2>1. Len(groupOrder) = GroupNum /\ GroupNum \in Nat
    BY <1>0, OrderAssumption DEF GroupsSorted, Bijection, Injection
  <2>2. idx <= GroupNum
    BY <2>1 DEF GetIntraGroupNetOrder
  <2>3. idx \in 1 .. GroupNum + 1
    BY <1>0 DEF Counting
  <2>4. idx \in 1 .. GroupNum /\ idx + 1 \in 1 .. GroupNum + 1
    BY <2>1, <2>2, <2>3
  <2> QED
    BY <1>0, <2>1, <2>4 DEF GroupsSorted, Bijection, Injection
<1>2. /\ Settled(idx + 1) = Settled(idx) \cup U /\ Settled(idx) \cap U = {}
      /\ \A n \in U : LastGroup(n) = g
      /\ \A n \in Settled(idx) : \E i \in 1 .. idx - 1 : LastGroup(n) = groupOrder[i]
  BY <1>0, <1>1, FinishedFacts
<1>3. U \in SUBSET Grouped /\ IsFiniteSet(U) /\ IsFiniteSet(Settled(idx))
  <2>1. U \subseteq Settled(idx + 1)
    BY <1>2
  <2>2. Settled(idx + 1) \subseteq Grouped /\ IsFiniteSet(Settled(idx + 1)) /\ IsFiniteSet(Settled(idx))
    BY <1>0, GroupedNets
  <2>3. IsFiniteSet(U)
    BY <2>1, <2>2, FS_Subset
  <2> QED
    BY <2>1, <2>2, <2>3
<1>4. PICK s \in ByMstCost(U) : netOrder' = netOrder \o s
  BY DEF GetIntraGroupNetOrder
<1>5. Enumerates(s, U)
  BY <1>0, <1>1, <1>2, <1>3, <1>4, SortedByCost
<1>6. \A x \in Settled(idx) : \A y \in U : ~Precedes(y, x)
  <2> SUFFICES ASSUME NEW x \in Settled(idx), NEW y \in U, Precedes(y, x) PROVE FALSE
    OBVIOUS
  <2>1. PICK i \in 1 .. idx - 1 : LastGroup(x) = groupOrder[i]
    BY <1>2
  <2>2. i \in 1 .. GroupNum /\ i < idx /\ groupOrder[i] \in Gid
    BY <1>0, <1>1 DEF GroupsSorted, Bijection, Injection
  <2>3. GroupBefore(groupOrder[i], g)
    BY <1>0, <1>1, <2>2 DEF GroupsSorted
  <2>4. ~GroupBefore(g, groupOrder[i]) /\ g # groupOrder[i]
    BY <1>0, <1>1, <2>2, <2>3, GroupOrderTotal
  <2> QED
    BY <1>2, <2>1, <2>4 DEF Precedes
<1>7. Enumerates(netOrder \o s, Settled(idx + 1))
  <2> HIDE DEF U
  <2>1. Enumerates(netOrder \o s, Settled(idx) \cup U)
    BY <1>0, <1>2, <1>3, <1>5, <1>6, EnumeratesBoth
  <2> QED
    BY <1>2, <2>1
<1>8. Enumerates(netOrder, Settled(idx))'
  <2>1. Settled(idx)' = Settled(idx + 1) /\ \A x, y : Precedes(x, y)' = Precedes(x, y)
    BY <1>0, GroupsStay DEF Settled
  <2> QED
    BY <1>4, <1>7, <2>1 DEF Enumerates
<1>9. Counting'
  <2>1. netCounter' = [n \in Net |-> netCounter[n] + Occurrences(n, group[g])]
    BY DEF GetIntraGroupNetOrder, Counted
  <2>2. \A n \in Net : netCounter[n] = SumFunction(Mentions(n, idx - 1))
    BY <1>0 DEF Counting
  <2>3. idx - 1 \in 0 .. GroupNum /\ idx - 1 < GroupNum /\ (idx - 1) + 1 = idx /\ (idx + 1) - 1 = idx
    BY <1>1
  <2>4. \A n \in Net : SumFunction(Mentions(n, idx)) = SumFunction(Mentions(n, idx - 1)) + Occurrences(n, group[g])
    BY <1>0, <2>3, CountedOut
  <2>5. netCounter' = [n \in Net |-> SumFunction(Mentions(n, idx))]
    BY <2>1, <2>2, <2>4
  <2>6. idx' - 1 = idx
    BY <1>0, <2>3
  <2>7. \A n \in Net : Mentions(n, idx - 1)' = Mentions(n, idx)
    BY <1>0, <2>6 DEF Mentions
  <2>8. \A n \in Net : SumFunction(Mentions(n, idx - 1))' = SumFunction(Mentions(n, idx))
    BY <2>7
  <2>9. netCounter' = [n \in Net |-> SumFunction(Mentions(n, idx - 1))]'
    BY <2>5, <2>8
  <2> QED
    BY <1>0, <1>1, <2>9 DEF Counting
<1>10. GroupsSorted' /\ NoLanes'
  BY <1>0, GroupsStay DEF NoLanes
<1> QED
  BY <1>0, <1>8, <1>9, <1>10 DEF IInv

-----------------------------------------------------------------------------
(* Dealing.                                                                *)

\* The next place of a row, or the first of the next row.
LEMMA NextPlace ==
  ASSUME NEW k \in Nat, NEW w \in Nat \ {0}
  PROVE  IF (k % w) + 1 < w
           THEN (k + 1) \div w = k \div w /\ (k + 1) % w = (k % w) + 1 /\ ((k % w) + 1) % w = (k % w) + 1
           ELSE (k + 1) \div w = (k \div w) + 1 /\ (k + 1) % w = 0 /\ ((k % w) + 1) % w = 0
<1> DEFINE q == k \div w
           r == k % w
           x == w * q
<1>1. q \in Nat /\ r \in 0 .. w - 1 /\ k = x + r
  BY Division
<1>2. x \in Int /\ w * (q + 1) = x + w
  BY <1>1
<1>3. CASE r + 1 < w
  <2>1. k + 1 = w * q + (r + 1) /\ r + 1 \in 0 .. w - 1 /\ k + 1 \in Nat
    <3> HIDE DEF q, r
    <3> QED
      BY <1>1, <1>3
  <2>2. (k + 1) \div w = q /\ (k + 1) % w = r + 1
    <3> HIDE DEF q, r
    <3> QED
      BY <1>1, <2>1, DivisionUnique
  <2>3. (r + 1) % w = r + 1
    BY <1>1, <1>3
  <2> QED
    BY <1>3, <2>2, <2>3
<1>4. CASE ~(r + 1 < w)
  <2>1. r + 1 = w
    <3> HIDE DEF q, r, x
    <3> QED
      BY <1>1, <1>4
  <2>2. k + 1 = w * (q + 1) + 0 /\ 0 \in 0 .. w - 1 /\ k + 1 \in Nat /\ q + 1 \in Nat
    <3> HIDE DEF q, r, x
    <3> QED
      BY <1>1, <1>2, <2>1
  <2>3. (k + 1) \div w = q + 1 /\ (k + 1) % w = 0
    <3> HIDE DEF q, r
    <3> QED
      BY <2>2, DivisionUnique
  <2>4. (r + 1) % w = 0
    <3>1. w = w * 1 + 0 /\ w \in Nat /\ 1 \in Nat /\ 0 \in 0 .. w - 1
      OBVIOUS
    <3>2. w % w = 0
      BY <3>1, DivisionUnique
    <3> HIDE DEF q, r
    <3> QED
      BY <2>1, <3>2
  <2> QED
    BY <1>4, <2>3, <2>4
<1> QED
  BY <1>3, <1>4

\* The list to be dealt has the nets first and the mark at the end.
LEMMA QueuedFacts ==
  ASSUME group \in Groups, Queued
  PROVE  /\ Cardinality(Grouped) \in Nat /\ Len(netOrder) = Cardinality(Grouped) + 1
         /\ \A i \in 1 .. Cardinality(Grouped) : netOrder[i] \in Grouped /\ netOrder[i] \in Net
                                                 /\ netOrder[i] # NoNet
         /\ netOrder[Cardinality(Grouped) + 1] = NoNet
         /\ \A i, j \in 1 .. Cardinality(Grouped) : netOrder[i] = netOrder[j] => i = j
         /\ \A n \in Grouped : \E i \in 1 .. Cardinality(Grouped) : netOrder[i] = n
         /\ \A i, j \in 1 .. Cardinality(Grouped) : i < j => ~Precedes(netOrder[j], netOrder[i])
<1> DEFINE m == Cardinality(Grouped)
<1>0. m \in Nat /\ Grouped \subseteq Net /\ NoNet \notin Net
  BY GroupedNets, FS_CardinalityType, OrderAssumption
<1>1. PICK s \in Bijection(1 .. m, Grouped) : Enumerates(s, Grouped) /\ netOrder = Append(s, NoNet)
  BY DEF Queued
<1>2. /\ s \in [1 .. m -> Grouped] /\ \A i, j \in 1 .. m : s[i] = s[j] => i = j
      /\ \A n \in Grouped : \E i \in 1 .. m : s[i] = n
      /\ \A i, j \in 1 .. m : i < j => ~Precedes(s[j], s[i])
  BY <1>1 DEF Enumerates, Bijection, Injection, Surjection, IsInjective
<1> HIDE DEF m
<1>3. s \in Seq(Net \cup {NoNet}) /\ Len(s) = m
  BY <1>0, <1>2
<1>4. Len(netOrder) = m + 1 /\ netOrder[m + 1] = NoNet /\ \A i \in 1 .. m : netOrder[i] = s[i]
  BY <1>1, <1>3, AppendProperties
<1>5. \A i \in 1 .. m : netOrder[i] \in Grouped /\ netOrder[i] \in Net /\ netOrder[i] # NoNet
  BY <1>0, <1>2, <1>4
<1>6. \A i, j \in 1 .. m : netOrder[i] = netOrder[j] => i = j
  BY <1>2, <1>4
<1>7. \A n \in Grouped : \E i \in 1 .. m : netOrder[i] = n
  BY <1>2, <1>4
<1>8. \A i, j \in 1 .. m : i < j => ~Precedes(netOrder[j], netOrder[i])
  BY <1>2, <1>4
<1> QED
  BY <1>0, <1>4, <1>5, <1>6, <1>7, <1>8 DEF m

\* When all groups are through, all grouped nets are listed and every net has been
\* counted as often as it is mentioned; the lanes are empty.
LEMMA EndNetOrderInv == IInv /\ EndNetOrder => IInv'
<1> SUFFICES ASSUME IInv, EndNetOrder PROVE IInv'
  OBVIOUS
<1>0. /\ group \in Groups /\ GroupsSorted /\ Counting /\ Enumerates(netOrder, Settled(idx)) /\ NoLanes
      /\ group' = group /\ groupOrder' = groupOrder /\ netCounter' = netCounter /\ pc = "nets" /\ pc' = "deal"
      /\ nids' = nids /\ counter' = counter /\ idx' = 1 /\ netOrder' = Append(netOrder, NoNet)
  BY DEF IInv, EndNetOrder, Marked
<1>1. GroupNum \in Nat /\ idx = GroupNum + 1
  <2>1. Len(groupOrder) = GroupNum /\ GroupNum \in Nat
    BY <1>0, OrderAssumption DEF GroupsSorted, Bijection, Injection
  <2>2. idx > GroupNum
    BY <2>1 DEF EndNetOrder
  <2> QED
    BY <1>0, <2>1, <2>2 DEF Counting
<1>2. Enumerates(netOrder, Grouped)
  BY <1>0, <1>1, SettledEnds
<1>3. Queued'
  <2>1. Grouped' = Grouped /\ \A x, y : Precedes(x, y)' = Precedes(x, y)
    BY <1>0, GroupsStay
  <2>2. netOrder \in Bijection(1 .. Cardinality(Grouped), Grouped)
    BY <1>2 DEF Enumerates
  <2>4. \E x \in Bijection(1 .. Cardinality(Grouped'), Grouped') :
          /\ \A i, j \in 1 .. Cardinality(Grouped') : i < j => ~(Precedes(x[j], x[i]))'
          /\ netOrder' = Append(x, NoNet)
    BY <1>0, <1>2, <2>1, <2>2 DEF Enumerates
  <2> QED
    BY <2>4 DEF Queued, Enumerates
<1>4. netCounter' = [n \in Net |-> NetGroupSize(n)]'
  <2>1. \A n \in Net : netCounter[n] = NetGroupSize(n)
    <3> TAKE n \in Net
    <3>1. GroupNum \in 0 .. GroupNum /\ ~ \E i : i \in GroupNum + 1 .. GroupNum
      BY <1>1
    <3>2. SumFunction(Mentions(n, GroupNum)) = NetGroupSize(n)
      BY <1>0, <3>1, CountedOut
    <3>3. idx - 1 = GroupNum
      BY <1>1
    <3> QED
      BY <1>0, <3>2, <3>3 DEF Counting
  <2>2. netCounter' = [n \in Net |-> NetGroupSize(n)]
    BY <1>0, <2>1 DEF Counting
  <2>3. \A n \in Net : NetGroupSize(n)' = NetGroupSize(n)
    BY <1>0, GroupsStay
  <2> QED
    BY <2>2, <2>3
<1>5. LanesEven'
  <2>1. Grouped' = Grouped /\ Cardinality(Grouped) \in Nat
    BY <1>0, GroupsStay, GroupedNets, FS_CardinalityType
  <2>2. NumThread \in Nat \ {0}
    BY OrderAssumption
  <2>3. 0 \div NumThread = 0 /\ 0 % NumThread = 0
    <3>1. 0 = NumThread * 0 + 0 /\ 0 \in 0 .. NumThread - 1
      BY <2>2
    <3> QED
      BY <2>2, <3>1, DivisionUnique
  <2>4. nids' = [t \in Thread |-> <<>>] /\ counter' = 0 /\ counter' \in Thread
    BY <1>0, <2>2 DEF NoLanes, Thread
  <2>5. nids' \in [Thread -> Seq(Net \cup {NoNet})] /\ \A t \in Thread : Len(nids'[t]) = 0
    BY <2>4
  <2>6. Held(nids') = {}
    <3>1. \A t \in Thread : DOMAIN nids'[t] = {}
      BY <2>4
    <3> QED
      BY <3>1 DEF Held
  <2>7. idx' - 1 = 0 /\ idx' \in 1 .. Cardinality(Grouped) + 2 /\ ~(idx' = Cardinality(Grouped) + 2)
    BY <1>0, <2>1
  <2>8. DealtInOrder(nids', netOrder', idx' - 1)
    BY <2>6, <2>7 DEF DealtInOrder
  <2>9. \A t \in Thread : ~(t < 0)
    BY <2>2 DEF Thread
  <2> QED
    BY <2>1, <2>3, <2>4, <2>5, <2>7, <2>8, <2>9 DEF LanesEven
<1>6. GroupsSorted'
  BY <1>0, GroupsStay
<1> QED
  BY <1>0, <1>3, <1>4, <1>5, <1>6 DEF IInv

\* What the steps that deal have in common.
LEMMA DealStep ==
  ASSUME IInv, pc = "deal", UNCHANGED <<group, groupOrder, netCounter, netOrder>>
  PROVE  /\ group \in Groups /\ GroupsSorted /\ Queued /\ LanesEven
         /\ Grouped' = Grouped /\ GroupsSorted' /\ Queued'
         /\ netCounter' = [n \in Net |-> NetGroupSize(n)]'
         /\ Cardinality(Grouped) \in Nat /\ NumThread \in Nat \ {0} /\ Thread = 0 .. NumThread - 1
<1>1. /\ group \in Groups /\ GroupsSorted /\ Queued /\ LanesEven
      /\ netCounter = [n \in Net |-> NetGroupSize(n)]
  BY DEF IInv
<1>2. /\ Grouped' = Grouped /\ GroupsSorted' = GroupsSorted
      /\ \A n : NetGroupSize(n)' = NetGroupSize(n)
      /\ \A x, y : Precedes(x, y)' = Precedes(x, y)
  BY GroupsStay
<1>3. Queued'
  BY <1>1, <1>2 DEF Queued, Enumerates
<1>4. netCounter' = [n \in Net |-> NetGroupSize(n)]'
  BY <1>1, <1>2
<1>5. Cardinality(Grouped) \in Nat
  BY <1>1, GroupedNets, FS_CardinalityType
<1> QED
  BY <1>1, <1>2, <1>3, <1>4, <1>5, OrderAssumption DEF Thread

\* Lanes below c are one row ahead.
Below(lanes, c, row) == \A t \in Thread : Len(lanes[t]) = IF t < c THEN row + 1 ELSE row

\* Net x at the end of lane c.
WithNet(lanes, c, x) == [lanes EXCEPT ![c] = Append(@, x)]

\* The next net gets the first place that is free, row by row and lane by lane.
LEMMA DealtOneMore ==
  ASSUME NEW lanes \in [Thread -> Seq(Net \cup {NoNet})], NEW order, NEW k \in Nat,
         NEW c \in Thread, NEW row \in Nat, NEW x \in Net, order[k + 1] = x,
         Below(lanes, c, row), DealtInOrder(lanes, order, k),
         NEW dealt, dealt = WithNet(lanes, c, x)
  PROVE  /\ dealt \in [Thread -> Seq(Net \cup {NoNet})]
         /\ \A t \in Thread : Len(dealt[t]) = IF t <= c THEN row + 1 ELSE row
         /\ DealtInOrder(dealt, order, k + 1)
<1> DEFINE place == <<c, row + 1>>
<1>0. /\ NumThread \in Nat \ {0} /\ Thread = 0 .. NumThread - 1 /\ Thread \subseteq Int
      /\ c \in Int /\ x # NoNet
  BY OrderAssumption DEF Thread
<1>1. /\ lanes[c] \in Seq(Net \cup {NoNet}) /\ Len(lanes[c]) = row /\ x \in Net \cup {NoNet}
  <2>1. ~(c < c)
    BY <1>0
  <2> QED
    BY <2>1 DEF Below
<1>2. /\ dealt \in [Thread -> Seq(Net \cup {NoNet})]
      /\ \A t \in Thread : t # c => dealt[t] = lanes[t]
      /\ dealt[c] = Append(lanes[c], x)
  <2>1. Append(lanes[c], x) \in Seq(Net \cup {NoNet})
    BY <1>1, AppendProperties
  <2> QED
    BY <2>1 DEF WithNet
<1>3. /\ Len(dealt[c]) = row + 1 /\ DOMAIN dealt[c] = 1 .. row + 1
      /\ DOMAIN lanes[c] = 1 .. row
      /\ \A r \in 1 .. row : dealt[c][r] = lanes[c][r]
      /\ dealt[c][row + 1] = x
  BY <1>1, <1>2, AppendProperties, LenProperties
<1>4. \A t \in Thread : Len(dealt[t]) = IF t <= c THEN row + 1 ELSE row
  <2> TAKE t \in Thread
  <2>1. t \in Int /\ (t # c => Len(dealt[t]) = IF t < c THEN row + 1 ELSE row)
    BY <1>0, <1>2 DEF Below
  <2> QED
    BY <1>0, <1>3, <2>1
<1>5. ASSUME NEW p \in Held(lanes)
      PROVE  p \in Held(dealt) /\ NetAt(dealt, p) = NetAt(lanes, p) /\ Earlier(p, place) /\ p # place
  <2>1. /\ p[1] \in Thread /\ p[2] \in Nat \ {0} /\ p[2] \in DOMAIN lanes[p[1]]
        /\ lanes[p[1]][p[2]] # NoNet /\ p = <<p[1], p[2]>>
    BY DEF Held
  <2>2. p[1] \in Int /\ p[2] \in 1 .. Len(lanes[p[1]])
    BY <1>0, <2>1, LenProperties
  <2>3. Earlier(p, place)
    <3>1. p[2] <= (IF p[1] < c THEN row + 1 ELSE row)
      BY <2>1, <2>2 DEF Below
    <3> QED
      BY <1>0, <2>2, <3>1 DEF Earlier
  <2>4. p # place
    BY <1>0, <2>3 DEF Earlier
  <2>5. p[2] \in DOMAIN dealt[p[1]] /\ dealt[p[1]][p[2]] = lanes[p[1]][p[2]]
    <3>1. CASE p[1] # c
      BY <1>2, <2>1, <3>1
    <3>2. CASE p[1] = c
      <4>1. p[2] \in 1 .. row /\ p[2] \in 1 .. row + 1
        BY <1>1, <2>2, <3>2
      <4> QED
        BY <1>3, <3>2, <4>1
    <3> QED
      BY <3>1, <3>2
  <2> QED
    BY <2>1, <2>3, <2>4, <2>5 DEF Held, NetAt
<1>6. place \in Held(dealt) /\ NetAt(dealt, place) = x
  <2>1. row + 1 \in Nat \ {0} /\ row + 1 \in 1 .. row + 1
    OBVIOUS
  <2>2. place \in Thread \X (Nat \ {0}) /\ place[1] = c /\ place[2] = row + 1
    BY <2>1
  <2> QED
    BY <1>0, <1>3, <2>1, <2>2 DEF Held, NetAt
<1>7. ASSUME NEW p \in Held(dealt), p # place PROVE p \in Held(lanes)
  <2>1. /\ p[1] \in Thread /\ p[2] \in Nat \ {0} /\ p[2] \in DOMAIN dealt[p[1]]
        /\ dealt[p[1]][p[2]] # NoNet /\ p = <<p[1], p[2]>> /\ p \in Thread \X (Nat \ {0})
    BY DEF Held
  <2>2. CASE p[1] # c
    BY <1>2, <2>1, <2>2 DEF Held
  <2>3. CASE p[1] = c
    <3>1. p[2] # row + 1 /\ p[2] \in 1 .. row + 1
      BY <1>3, <1>7, <2>1, <2>3
    <3>2. p[2] \in 1 .. row
      BY <3>1
    <3> QED
      BY <1>3, <2>1, <2>3, <3>2 DEF Held
  <2> QED
    BY <2>2, <2>3
<1>8. \A p \in Held(lanes) : ~Earlier(place, p)
  <2> TAKE p \in Held(lanes)
  <2>1. Earlier(p, place)
    BY <1>5
  <2>2. p[1] \in Int /\ p[2] \in Int /\ place[1] \in Int /\ place[2] \in Int
    BY <1>0 DEF Held
  <2> QED
    BY <2>1, <2>2 DEF Earlier
<1>9. ~Earlier(place, place)
  <2>1. place[1] \in Int /\ place[2] \in Int
    BY <1>0
  <2> QED
    BY <2>1 DEF Earlier
<1> HIDE DEF place
<1>10. k + 1 \in 1 .. k + 1 /\ \A i \in 1 .. k : i \in 1 .. k + 1 /\ i < k + 1
  OBVIOUS
<1>11. \A p \in Held(dealt) : \E i \in 1 .. k + 1 : NetAt(dealt, p) = order[i]
  <2> TAKE p \in Held(dealt)
  <2>1. CASE p = place
    BY <1>6, <1>10, <2>1
  <2>2. CASE p # place
    <3>1. p \in Held(lanes) /\ NetAt(dealt, p) = NetAt(lanes, p)
      BY <1>5, <1>7, <2>2
    <3>2. PICK i \in 1 .. k : NetAt(lanes, p) = order[i]
      BY <3>1 DEF DealtInOrder
    <3> QED
      BY <1>10, <3>1, <3>2
  <2> QED
    BY <2>1, <2>2
<1>12. \A i \in 1 .. k + 1 : \E p \in Held(dealt) : NetAt(dealt, p) = order[i]
  <2> TAKE i \in 1 .. k + 1
  <2>1. i \in 1 .. k \/ i = k + 1
    OBVIOUS
  <2>2. CASE i \in 1 .. k
    <3>1. PICK p \in Held(lanes) : NetAt(lanes, p) = order[i]
      BY <2>2 DEF DealtInOrder
    <3> QED
      BY <1>5, <3>1
  <2>3. CASE i = k + 1
    BY <1>6, <2>3
  <2> QED
    BY <2>1, <2>2, <2>3
<1>13. ASSUME NEW p \in Held(dealt), NEW q \in Held(dealt), Earlier(p, q)
       PROVE  \E i, j \in 1 .. k + 1 :
                i < j /\ NetAt(dealt, p) = order[i] /\ NetAt(dealt, q) = order[j]
  <2>1. CASE p \in Held(lanes) /\ q \in Held(lanes)
    <3>1. PICK i \in 1 .. k, j \in 1 .. k :
            i < j /\ NetAt(lanes, p) = order[i] /\ NetAt(lanes, q) = order[j]
      BY <1>13, <2>1 DEF DealtInOrder
    <3> QED
      BY <1>5, <1>10, <2>1, <3>1
  <2>2. CASE p \in Held(lanes) /\ q = place
    <3>1. PICK i \in 1 .. k : NetAt(lanes, p) = order[i]
      BY <2>2 DEF DealtInOrder
    <3> QED
      BY <1>5, <1>6, <1>10, <2>2, <3>1
  <2>3. CASE p = place
    BY <1>7, <1>8, <1>9, <1>13, <2>3
  <2> QED
    BY <1>7, <2>1, <2>2, <2>3
<1> QED
  BY <1>2, <1>4, <1>11, <1>12, <1>13 DEF DealtInOrder

\* Dealing a net keeps the invariant.
LEMMA DealNetInv == IInv /\ DealNet => IInv'
<1> SUFFICES ASSUME IInv, DealNet PROVE IInv'
  OBVIOUS
<1>0. /\ pc = "deal" /\ pc' = pc /\ UNCHANGED <<group, groupOrder, netCounter, netOrder>>
      /\ nids' = [nids EXCEPT ![counter] = Append(@, netOrder[idx])]
      /\ counter' = (counter + 1) % NumThread /\ idx' = idx + 1
      /\ idx <= Len(netOrder) /\ netOrder[idx] # NoNet
  BY DEF DealNet
<1>1. /\ group \in Groups /\ Queued /\ LanesEven /\ Grouped' = Grouped /\ GroupsSorted' /\ Queued'
      /\ netCounter' = [n \in Net |-> NetGroupSize(n)]'
      /\ NumThread \in Nat \ {0} /\ Thread = 0 .. NumThread - 1
  BY <1>0, DealStep
<1>2. PICK size \in Nat : size = Cardinality(Grouped)
  BY <1>0, DealStep
<1>3. /\ Len(netOrder) = size + 1 /\ netOrder[size + 1] = NoNet
      /\ \A i \in 1 .. size : netOrder[i] \in Net /\ netOrder[i] # NoNet
  BY <1>1, <1>2, QueuedFacts
<1>4. /\ idx \in 1 .. size + 2 /\ counter \in Thread
      /\ nids \in [Thread -> Seq(Net \cup {NoNet})]
  BY <1>1, <1>2 DEF LanesEven
<1>5. idx \in 1 .. size
  BY <1>0, <1>3, <1>4
<1>6. PICK k \in Nat : k = idx - 1
  BY <1>5
<1>7. PICK row : row = k \div NumThread
  OBVIOUS
<1>8. PICK next : next = (k + 1) \div NumThread
  OBVIOUS
<1>9. /\ counter = k % NumThread /\ DealtInOrder(nids, netOrder, k)
      /\ \A t \in Thread : Len(nids[t]) = IF t < counter THEN row + 1 ELSE row
  <2>1. idx <= size + 1
    BY <1>5
  <2> QED
    BY <1>1, <1>2, <1>6, <1>7, <2>1 DEF LanesEven
<1>10. row \in Nat /\ counter \in 0 .. NumThread - 1
  BY <1>1, <1>4, <1>7, Division
<1>11. IF counter + 1 < NumThread THEN next = row /\ (k + 1) % NumThread = counter + 1 /\ counter' = counter + 1
                                 ELSE next = row + 1 /\ (k + 1) % NumThread = 0 /\ counter' = 0
  BY <1>0, <1>1, <1>7, <1>8, <1>9, NextPlace
<1>12. netOrder[idx] \in Net /\ netOrder[k + 1] = netOrder[idx] /\ k + 1 = idx
  BY <1>3, <1>5, <1>6
<1>13. /\ nids' \in [Thread -> Seq(Net \cup {NoNet})]
       /\ \A t \in Thread : Len(nids'[t]) = IF t <= counter THEN row + 1 ELSE row
       /\ DealtInOrder(nids', netOrder, k + 1)
  <2>1. PICK x \in Net : x = netOrder[idx]
    BY <1>12
  <2>2. nids' = WithNet(nids, counter, x) /\ netOrder[k + 1] = x
    BY <1>0, <1>12, <2>1 DEF WithNet
  <2> QED
    <3>1. Below(nids, counter, row)
      BY <1>9 DEF Below
    <3> QED
      BY <1>4, <1>9, <1>10, <2>2, <3>1, DealtOneMore
<1>14. \A t \in Thread : Len(nids'[t]) = IF t < counter' THEN next + 1 ELSE next
  <2> TAKE t \in Thread
  <2>1. t \in 0 .. NumThread - 1 /\ Len(nids'[t]) = IF t <= counter THEN row + 1 ELSE row
    BY <1>1, <1>13
  <2> QED
    BY <1>1, <1>10, <1>11, <2>1
<1>15. LanesEven'
  <2>1. idx' - 1 = k + 1 /\ idx' \in 1 .. size + 2 /\ ~(idx' = size + 2)
    BY <1>0, <1>5, <1>6
  <2>2. counter' = (k + 1) % NumThread /\ counter' \in Thread
    BY <1>1, <1>10, <1>11
  <2>3. size = Cardinality(Grouped') /\ netOrder' = netOrder
    BY <1>0, <1>1, <1>2
  <2> QED
    BY <1>8, <1>13, <1>14, <2>1, <2>2, <2>3 DEF LanesEven
<1> QED
  BY <1>0, <1>1, <1>15 DEF IInv

\* The mark at the end of lane c and of all lanes after it.
WithMarks(lanes, c) == [t \in Thread |-> IF t >= c THEN Append(lanes[t], NoNet) ELSE lanes[t]]

\* Marks fill the row up and leave the nets where they are.
LEMMA MarkedLanes ==
  ASSUME NEW lanes \in [Thread -> Seq(Net \cup {NoNet})], NEW order, NEW k \in Nat,
         NEW c \in Thread, NEW row \in Nat,
         Below(lanes, c, row), DealtInOrder(lanes, order, k),
         NEW marked, marked = WithMarks(lanes, c)
  PROVE  /\ marked \in [Thread -> Seq(Net \cup {NoNet})]
         /\ \A t \in Thread : Len(marked[t]) = row + 1
         /\ Last(marked[NumThread - 1]) = NoNet
         /\ DealtInOrder(marked, order, k)
<1>0. NumThread \in Nat \ {0} /\ Thread = 0 .. NumThread - 1 /\ c \in Int
  BY OrderAssumption DEF Thread
<1>1. ASSUME NEW t \in Thread
      PROVE  /\ marked[t] \in Seq(Net \cup {NoNet}) /\ Len(marked[t]) = row + 1
             /\ DOMAIN lanes[t] \subseteq DOMAIN marked[t]
             /\ \A r \in DOMAIN lanes[t] : marked[t][r] = lanes[t][r]
             /\ \A r \in DOMAIN marked[t] : r \in DOMAIN lanes[t] \/ marked[t][r] = NoNet
             /\ t >= c => marked[t][row + 1] = NoNet
  <2>0. t \in Int /\ lanes[t] \in Seq(Net \cup {NoNet}) /\ NoNet \in Net \cup {NoNet}
    BY <1>0
  <2>1. CASE t >= c
    <3>1. marked[t] = Append(lanes[t], NoNet) /\ Len(lanes[t]) = row
      BY <1>0, <2>0, <2>1 DEF WithMarks, Below
    <3>2. /\ Append(lanes[t], NoNet) \in Seq(Net \cup {NoNet})
          /\ Len(Append(lanes[t], NoNet)) = row + 1
          /\ \A r \in 1 .. row : Append(lanes[t], NoNet)[r] = lanes[t][r]
          /\ Append(lanes[t], NoNet)[row + 1] = NoNet
      BY <2>0, <3>1, AppendProperties
    <3>3. DOMAIN lanes[t] = 1 .. row /\ DOMAIN marked[t] = 1 .. row + 1
      BY <2>0, <3>1, <3>2, LenProperties
    <3>4. \A r \in 1 .. row + 1 : r \in 1 .. row \/ r = row + 1
      OBVIOUS
    <3> QED
      BY <3>1, <3>2, <3>3, <3>4
  <2>2. CASE ~(t >= c)
    <3>1. marked[t] = lanes[t]
      BY <2>2 DEF WithMarks
    <3>2. Len(lanes[t]) = row + 1
      BY <1>0, <2>0, <2>2 DEF Below
    <3> QED
      BY <2>0, <2>2, <3>1, <3>2
  <2> QED
    BY <2>1, <2>2
<1>2. marked \in [Thread -> Seq(Net \cup {NoNet})]
  <2>1. marked = [t \in Thread |-> marked[t]]
    BY DEF WithMarks
  <2> QED
    BY <1>1, <2>1
<1>3. Last(marked[NumThread - 1]) = NoNet
  <2>1. NumThread - 1 \in Thread /\ NumThread - 1 >= c
    BY <1>0
  <2> QED
    BY <1>1, <2>1 DEF Last
<1>4. Held(marked) = Held(lanes)
  <2>1. ASSUME NEW p \in Thread \X (Nat \ {0}) PROVE p \in Held(marked) <=> p \in Held(lanes)
    <3>1. p[1] \in Thread
      OBVIOUS
    <3> QED
      BY <1>1, <3>1 DEF Held
  <2> QED
    BY <2>1 DEF Held
<1>5. \A p \in Held(lanes) : NetAt(marked, p) = NetAt(lanes, p)
  <2> TAKE p \in Held(lanes)
  <2>1. p[1] \in Thread /\ p[2] \in DOMAIN lanes[p[1]]
    BY DEF Held
  <2>2. marked[p[1]][p[2]] = lanes[p[1]][p[2]]
    BY <1>1, <2>1
  <2> QED
    BY <2>2 DEF NetAt
<1>6. DealtInOrder(marked, order, k)
  <2>1. \A p \in Held(marked) : \E i \in 1 .. k : NetAt(marked, p) = order[i]
    <3> TAKE p \in Held(marked)
    <3>1. p \in Held(lanes) /\ NetAt(marked, p) = NetAt(lanes, p)
      BY <1>4, <1>5
    <3>2. PICK i \in 1 .. k : NetAt(lanes, p) = order[i]
      BY <3>1 DEF DealtInOrder
    <3> QED
      BY <3>1, <3>2
  <2>2. \A i \in 1 .. k : \E p \in Held(marked) : NetAt(marked, p) = order[i]
    <3> TAKE i \in 1 .. k
    <3>1. PICK p \in Held(lanes) : NetAt(lanes, p) = order[i]
      BY DEF DealtInOrder
    <3>2. p \in Held(marked) /\ NetAt(marked, p) = order[i]
      BY <1>4, <1>5, <3>1
    <3> QED
      BY <3>2
  <2>3. ASSUME NEW p \in Held(marked), NEW q \in Held(marked), Earlier(p, q)
        PROVE  \E i, j \in 1 .. k :
                 i < j /\ NetAt(marked, p) = order[i] /\ NetAt(marked, q) = order[j]
    <3>1. PICK i \in 1 .. k, j \in 1 .. k :
            i < j /\ NetAt(lanes, p) = order[i] /\ NetAt(lanes, q) = order[j]
      BY <1>4, <2>3 DEF DealtInOrder
    <3> QED
      BY <1>4, <1>5, <3>1
  <2> QED
    BY <2>1, <2>2, <2>3 DEF DealtInOrder
<1> QED
  BY <1>1, <1>2, <1>3, <1>6

\* The mark comes after all nets and fills the last row.
LEMMA PadRowInv == IInv /\ PadRow => IInv'
<1> SUFFICES ASSUME IInv, PadRow PROVE IInv'
  OBVIOUS
<1>0. /\ pc = "deal" /\ pc' = pc /\ UNCHANGED <<group, groupOrder, netCounter, netOrder>>
      /\ nids' = WithMarks(nids, counter)
      /\ counter' = 0 /\ idx' = idx + 1
      /\ idx <= Len(netOrder) /\ netOrder[idx] = NoNet
  BY DEF PadRow, WithMarks
<1>1. /\ group \in Groups /\ Queued /\ LanesEven /\ Grouped' = Grouped /\ GroupsSorted' /\ Queued'
      /\ netCounter' = [n \in Net |-> NetGroupSize(n)]'
      /\ NumThread \in Nat \ {0} /\ Thread = 0 .. NumThread - 1
  BY <1>0, DealStep
<1>2. PICK size \in Nat : size = Cardinality(Grouped)
  BY <1>0, DealStep
<1>3. /\ Len(netOrder) = size + 1
      /\ \A i \in 1 .. size : netOrder[i] # NoNet
  BY <1>1, <1>2, QueuedFacts
<1>4. /\ idx \in 1 .. size + 2 /\ counter \in Thread
      /\ nids \in [Thread -> Seq(Net \cup {NoNet})]
  BY <1>1, <1>2 DEF LanesEven
<1>5. idx = size + 1
  <2>1. ~(idx \in 1 .. size)
    BY <1>0, <1>3
  <2> QED
    BY <1>0, <1>3, <1>4, <2>1
<1>6. PICK row : row = size \div NumThread
  OBVIOUS
<1>7. DealtInOrder(nids, netOrder, size) /\ Below(nids, counter, row)
  <2>1. idx <= size + 1 /\ idx - 1 = size
    BY <1>5
  <2> QED
    BY <1>1, <1>2, <1>6, <2>1 DEF LanesEven, Below
<1>8. row \in Nat
  BY <1>1, <1>6, Division
<1>9. /\ nids' \in [Thread -> Seq(Net \cup {NoNet})]
      /\ \A t \in Thread : Len(nids'[t]) = row + 1
      /\ Last(nids'[NumThread - 1]) = NoNet
      /\ DealtInOrder(nids', netOrder, size)
  BY <1>0, <1>4, <1>7, <1>8, MarkedLanes
<1>10. LanesEven'
  <2>1. idx' \in 1 .. size + 2 /\ ~(idx' <= size + 1)
    BY <1>0, <1>5
  <2>2. counter' \in Thread
    BY <1>0, <1>1
  <2>3. size = Cardinality(Grouped') /\ netOrder' = netOrder
    BY <1>0, <1>1, <1>2
  <2> QED
    BY <1>6, <1>9, <2>1, <2>2, <2>3 DEF LanesEven
<1> QED
  BY <1>0, <1>1, <1>10 DEF IInv

\* The loop has gone through the whole list when it ends.
LEMMA EndDealInv == IInv /\ EndDeal => IInv'
<1> SUFFICES ASSUME IInv, EndDeal PROVE IInv'
  OBVIOUS
<1>0. /\ pc = "deal" /\ pc' = "done" /\ idx > Len(netOrder)
      /\ UNCHANGED <<group, groupOrder, netCounter, netOrder>>
      /\ UNCHANGED <<idx, nids, counter>>
  BY DEF EndDeal
<1>1. /\ group \in Groups /\ Queued /\ LanesEven /\ Grouped' = Grouped /\ GroupsSorted' /\ Queued'
      /\ netCounter' = [n \in Net |-> NetGroupSize(n)]'
  BY <1>0, DealStep
<1>2. PICK size \in Nat : size = Cardinality(Grouped)
  BY <1>0, DealStep
<1>3. idx = size + 2
  <2>1. Len(netOrder) = size + 1
    BY <1>1, <1>2, QueuedFacts
  <2>2. idx \in 1 .. size + 2
    BY <1>1, <1>2 DEF LanesEven
  <2> QED
    BY <1>0, <2>1, <2>2
<1>4. LanesEven'
  BY <1>0, <1>1 DEF LanesEven
<1>5. idx' = Cardinality(Grouped)' + 2
  BY <1>0, <1>1, <1>2, <1>3
<1> QED
  BY <1>0, <1>1, <1>4, <1>5 DEF IInv

-----------------------------------------------------------------------------
(* The theorems.                                                           *)

\* The invariant holds in every state: the list has all grouped nets in order, and
\* the lanes have the nets dealt so far, row by row.
THEOREM Invariant == Spec => []IInv
<1>1. Init => IInv
  BY InitInv
<1>2. IInv /\ [Next]_vars => IInv'
  <2> SUFFICES ASSUME IInv, [Next]_vars PROVE IInv'
    OBVIOUS
  <2>1. CASE SortNetGroups
    BY <2>1, SortNetGroupsInv
  <2>2. CASE GetIntraGroupNetOrder
    BY <2>2, GetIntraGroupNetOrderInv
  <2>3. CASE EndNetOrder
    BY <2>3, EndNetOrderInv
  <2>4. CASE DealNet
    BY <2>4, DealNetInv
  <2>5. CASE PadRow
    BY <2>5, PadRowInv
  <2>6. CASE EndDeal
    BY <2>6, EndDealInv
  <2>7. CASE UNCHANGED vars
    <3>1. UNCHANGED <<group, groupOrder, idx, netCounter, netOrder, nids, counter, pc>>
      BY <2>7 DEF vars
    <3>2. /\ Grouped' = Grouped
          /\ \A n : NetGroupSize(n)' = NetGroupSize(n)
          /\ \A x, y : Precedes(x, y)' = Precedes(x, y)
          /\ GroupsSorted' = GroupsSorted
      BY <3>1, GroupsStay
    <3>3. /\ Counting' = Counting /\ NoLanes' = NoLanes /\ LanesEven' = LanesEven
          /\ Queued' = Queued /\ Enumerates(netOrder, Settled(idx))' = Enumerates(netOrder, Settled(idx))
      BY <3>1, <3>2 DEF Counting, NoLanes, LanesEven, Queued, Enumerates, Settled, Mentions
    <3> QED
      BY <3>1, <3>2, <3>3 DEF IInv
  <2> QED
    BY <2>1, <2>2, <2>3, <2>4, <2>5, <2>6, <2>7 DEF Next, Done
<1> QED
  BY <1>1, <1>2, PTL DEF Spec

\* Done, the lanes are full and the places of a net are all places that hold it.
LEMMA DoneFacts ==
  ASSUME IInv, pc = "done"
  PROVE  /\ group \in Groups /\ GroupsSorted /\ Queued
         /\ DealtInOrder(nids, netOrder, Cardinality(Grouped))
         /\ \A t \in Thread : Len(nids[t]) = Cardinality(Grouped) \div NumThread + 1
         /\ Last(nids[NumThread - 1]) = NoNet
         /\ \A n \in Net : \A p : p \in Places(n) <=> p \in Held(nids) /\ NetAt(nids, p) = n
         /\ \A p, q \in Held(nids) : p = q \/ Earlier(p, q) \/ Earlier(q, p)
<1>1. /\ group \in Groups /\ GroupsSorted /\ Queued /\ LanesEven
      /\ idx = Cardinality(Grouped) + 2
  BY DEF IInv
<1>2. PICK size \in Nat : size = Cardinality(Grouped)
  BY <1>1, QueuedFacts
<1>3. /\ DealtInOrder(nids, netOrder, size)
      /\ \A t \in Thread : Len(nids[t]) = size \div NumThread + 1
      /\ Last(nids[NumThread - 1]) = NoNet
      /\ nids \in [Thread -> Seq(Net \cup {NoNet})]
  BY <1>1, <1>2 DEF LanesEven
<1>4. PICK all \in Nat : all = Cardinality(Net) /\ size <= all
  <2>1. Grouped \subseteq Net /\ IsFiniteSet(Net)
    BY <1>1, GroupedNets, OrderAssumption
  <2> QED
    BY <1>2, <2>1, FS_CardinalityType, FS_Subset
<1>5. /\ NumThread \in Nat \ {0} /\ Thread = 0 .. NumThread - 1 /\ NoNet \notin Net
  BY OrderAssumption DEF Thread
<1>6. PICK rows \in Nat : rows = size \div NumThread /\ rows <= size
  <2>1. PICK r \in Nat, l \in Nat : r = size \div NumThread /\ l = NumThread * r /\ l <= size
    <3>1. size \div NumThread \in Nat /\ NumThread * (size \div NumThread) <= size
      BY <1>5, Division
    <3>2. PICK r : r = size \div NumThread
      OBVIOUS
    <3>3. r \in Nat /\ NumThread * r \in Nat /\ NumThread * r <= size
      BY <1>5, <3>1, <3>2
    <3> QED
      BY <3>2, <3>3
  <2>2. r <= l
    <3>1. PICK d \in Nat : NumThread = d + 1
      <4>1. NumThread - 1 \in Nat /\ NumThread = (NumThread - 1) + 1
        BY <1>5
      <4> QED
        BY <4>1
    <3>2. l = d * r + r /\ d * r \in Nat
      BY <2>1, <3>1
    <3> QED
      BY <3>2
  <2> QED
    BY <2>1, <2>2
<1>7. ASSUME NEW t \in Thread PROVE DOMAIN nids[t] \subseteq 1 .. all + 1
  <2>1. nids[t] \in Seq(Net \cup {NoNet}) /\ Len(nids[t]) = rows + 1
    BY <1>3, <1>6
  <2>2. DOMAIN nids[t] = 1 .. rows + 1
    BY <2>1, LenProperties
  <2> QED
    BY <1>4, <1>6, <2>2
<1>8. ASSUME NEW n \in Net, NEW p
      PROVE  p \in Places(n) <=> p \in Held(nids) /\ NetAt(nids, p) = n
  <2>1. Places(n) = {y \in Thread \X (1 .. all + 1) : y[2] \in DOMAIN nids[y[1]] /\ nids[y[1]][y[2]] = n}
    BY <1>4 DEF Places
  <2>2. n # NoNet
    BY <1>5
  <2>3. 1 .. all + 1 \subseteq Nat \ {0}
    OBVIOUS
  <2>4. ASSUME p \in Places(n) PROVE p \in Held(nids) /\ NetAt(nids, p) = n
    BY <2>1, <2>2, <2>3, <2>4 DEF Held, NetAt
  <2>5. ASSUME p \in Held(nids), NetAt(nids, p) = n PROVE p \in Places(n)
    <3>1. p \in Thread \X (Nat \ {0}) /\ p[2] \in DOMAIN nids[p[1]] /\ p[1] \in Thread
      BY <2>5 DEF Held
    <3>2. p[2] \in 1 .. all + 1 /\ p = <<p[1], p[2]>>
      BY <1>7, <3>1
    <3>3. p \in Thread \X (1 .. all + 1)
      BY <3>1, <3>2
    <3> QED
      BY <2>1, <2>5, <3>1, <3>3 DEF NetAt
  <2> QED
    BY <2>4, <2>5
<1>9. \A p, q \in Held(nids) : p = q \/ Earlier(p, q) \/ Earlier(q, p)
  <2> TAKE p, q \in Held(nids)
  <2>1. /\ p = <<p[1], p[2]>> /\ q = <<q[1], q[2]>>
        /\ p[1] \in Int /\ p[2] \in Int /\ q[1] \in Int /\ q[2] \in Int
    BY <1>5 DEF Held
  <2> QED
    BY <2>1 DEF Earlier
<1> QED
  BY <1>1, <1>2, <1>3, <1>8, <1>9

\* No two places hold the same net.
LEMMA HeldOnce ==
  ASSUME IInv, pc = "done", NEW p \in Held(nids), NEW q \in Held(nids),
         NetAt(nids, p) = NetAt(nids, q)
  PROVE  p = q
<1>1. PICK size \in Nat : size = Cardinality(Grouped)
  BY DoneFacts, QueuedFacts
<1>2. /\ DealtInOrder(nids, netOrder, size)
      /\ \A i, j \in 1 .. size : netOrder[i] = netOrder[j] => i = j
      /\ p = q \/ Earlier(p, q) \/ Earlier(q, p)
  BY <1>1, DoneFacts, QueuedFacts
<1>3. ASSUME NEW x \in Held(nids), NEW y \in Held(nids), NetAt(nids, x) = NetAt(nids, y)
      PROVE  ~Earlier(x, y)
  <2> SUFFICES ASSUME Earlier(x, y) PROVE FALSE
    OBVIOUS
  <2>1. PICK i \in 1 .. size, j \in 1 .. size :
          i < j /\ NetAt(nids, x) = netOrder[i] /\ NetAt(nids, y) = netOrder[j]
    BY <1>2 DEF DealtInOrder
  <2>2. i = j
    BY <1>2, <1>3, <2>1
  <2> QED
    BY <2>1, <2>2
<1> QED
  BY <1>2, <1>3

\* A net that some group mentions ends at one place of one lane, any other net at
\* none: what the group router takes for granted of its lanes.
THEOREM DealtOnceHolds == Spec => []DealtOnce
<1>1. IInv => DealtOnce
  <2> SUFFICES ASSUME IInv, pc = "done", NEW n \in Net
               PROVE  Cardinality(Places(n)) = IF n \in Grouped THEN 1 ELSE 0
    BY DEF DealtOnce
  <2>1. PICK size \in Nat : size = Cardinality(Grouped)
    BY DoneFacts, QueuedFacts
  <2>2. /\ DealtInOrder(nids, netOrder, size)
        /\ \A p : p \in Places(n) <=> p \in Held(nids) /\ NetAt(nids, p) = n
    BY <2>1, DoneFacts
  <2>3. /\ \A i \in 1 .. size : netOrder[i] \in Grouped
        /\ n \in Grouped => \E i \in 1 .. size : netOrder[i] = n
    BY <2>1, DoneFacts, QueuedFacts
  <2>4. ASSUME NEW p \in Places(n), NEW q \in Places(n) PROVE p = q
    BY <2>2, HeldOnce
  <2>5. CASE n \in Grouped
    <3>1. PICK p : p \in Places(n)
      BY <2>2, <2>3, <2>5 DEF DealtInOrder
    <3>2. Places(n) = {p}
      BY <2>4, <3>1
    <3> QED
      BY <2>5, <3>2, FS_Singleton
  <2>6. CASE n \notin Grouped
    <3>1. Places(n) = {}
      BY <2>2, <2>3, <2>6 DEF DealtInOrder
    <3> QED
      BY <2>6, <3>1, FS_EmptySet
  <2> QED
    BY <2>5, <2>6
<1> QED
  BY <1>1, Invariant, PTL

\* No net precedes itself.
LEMMA PrecedesIrreflexive ==
  ASSUME group \in Groups, GroupsSorted, NEW n \in Grouped
  PROVE  ~Precedes(n, n)
<1>1. LastGroup(n) \in Gid
  BY LastMention DEF GroupsSorted, Bijection, Injection
<1>2. n \in Net /\ MstCost[n] \in Int
  BY GroupedNets, OrderAssumption
<1> QED
  BY <1>1, <1>2, GroupOrderTotal DEF Precedes

\* No net stands in an earlier place than one whose last group comes before its own,
\* nor than a cheaper net of that group.
THEOREM CheapFirstHolds == Spec => []CheapFirst
<1>1. IInv => CheapFirst
  <2> SUFFICES ASSUME IInv, pc = "done", NEW m \in Grouped, NEW n \in Grouped, Precedes(m, n),
                      NEW p \in Places(m), NEW q \in Places(n)
               PROVE  Earlier(p, q)
    BY DEF CheapFirst, Earlier
  <2>1. PICK size \in Nat : size = Cardinality(Grouped)
    BY DoneFacts, QueuedFacts
  <2>2. m \in Net /\ n \in Net
    BY DoneFacts, GroupedNets
  <2>3. /\ DealtInOrder(nids, netOrder, size)
        /\ p \in Held(nids) /\ NetAt(nids, p) = m
        /\ q \in Held(nids) /\ NetAt(nids, q) = n
        /\ p = q \/ Earlier(p, q) \/ Earlier(q, p)
    BY <2>1, <2>2, DoneFacts
  <2>4. p # q
    <3>1. ~Precedes(m, m)
      BY DoneFacts, PrecedesIrreflexive
    <3> QED
      BY <2>3, <3>1
  <2>5. ~Earlier(q, p)
    <3> SUFFICES ASSUME Earlier(q, p) PROVE FALSE
      OBVIOUS
    <3>1. PICK i \in 1 .. size, j \in 1 .. size : i < j /\ n = netOrder[i] /\ m = netOrder[j]
      BY <2>3 DEF DealtInOrder
    <3>2. ~Precedes(netOrder[j], netOrder[i])
      BY <2>1, <3>1, DoneFacts, QueuedFacts
    <3> QED
      BY <3>1, <3>2
  <2> QED
    BY <2>3, <2>4, <2>5
<1> QED
  BY <1>1, Invariant, PTL

\* A net is mentioned a number of times.
LEMMA SizesAreNumbers ==
  ASSUME group \in Groups, NEW n \in Net
  PROVE  NetGroupSize(n) \in Nat
<1> DEFINE m == GroupNum
           f == [g \in Gid |-> Occurrences(n, group[g])]
           p == [i \in 1 .. m |-> i - 1]
           q == [i \in 1 .. m |-> f[p[i]]]
<1>1. m \in Nat /\ Gid = 0 .. m - 1
  BY OrderAssumption DEF Gid
<1>2. f \in [Gid -> Nat] /\ f \in [Gid -> Int]
  BY GroupFacts, OccurrenceFacts
<1>3. p \in Bijection(1 .. m, Gid)
  <2>1. p \in [1 .. m -> Gid] /\ \A i, j \in 1 .. m : p[i] = p[j] => i = j
    BY <1>1
  <2>2. \A g \in Gid : g + 1 \in 1 .. m /\ p[g + 1] = g
    BY <1>1
  <2> HIDE DEF p
  <2> QED
    BY <2>1, <2>2 DEF Bijection, Injection, Surjection, IsInjective
<1>4. q \in [1 .. m -> Nat]
  <2>1. \A i \in 1 .. m : p[i] \in Gid
    BY <1>1
  <2> HIDE DEF p, f
  <2> QED
    BY <1>2, <2>1
<1>5. NetGroupSize(n) = SumFunction(f) /\ q = [i \in 1 .. m |-> f[p[i]]]
  BY DEF NetGroupSize
<1> HIDE DEF m, f, p, q
<1>6. SumFunction(q) = SumFunction(f)
  BY <1>1, <1>2, <1>3, <1>5, SumEnumerated
<1>7. SumFunction(q) \in Nat
  BY <1>1, <1>4, SumOfNats
<1> QED
  BY <1>5, <1>6, <1>7

\* All lanes end with the same length and the last row is never full, as the loop
\* over the lanes needs; on the way all variables keep their types and no net is
\* counted more often than it is mentioned.
THEOREM LanesRectangularHolds == Spec => []LanesRectangular
<1>1. IInv => TypeOK
  <2> SUFFICES ASSUME IInv PROVE TypeOK
    OBVIOUS
  <2>1. group \in Groups /\ pc \in {"groups", "nets", "deal", "done"}
    BY DEF IInv
  <2>2. PICK size \in Nat, all \in Nat : size = Cardinality(Grouped) /\ all = Cardinality(Net) /\ size <= all
    BY <2>1, GroupedNets, OrderAssumption, FS_CardinalityType, FS_Subset
  <2>3. GroupNum \in Nat \ {0} /\ NumThread \in Nat \ {0} /\ Thread = 0 .. NumThread - 1
    BY OrderAssumption DEF Thread
  <2>4. CASE pc = "groups"
    <3>1. /\ groupOrder = <<>> /\ netOrder = <<>> /\ idx = 1 /\ netCounter = [n \in Net |-> 0]
          /\ nids = [t \in Thread |-> <<>>] /\ counter = 0
      BY <2>4 DEF IInv, NoLanes
    <3>2. \A n \in Net : NetGroupSize(n) \in Nat
      <4> TAKE n \in Net
      <4> QED
        BY <2>1, SizesAreNumbers
    <3>3. \A n \in Net : netCounter[n] \in 0 .. NetGroupSize(n)
      BY <3>1, <3>2
    <3>4. ToSet(groupOrder) = {} /\ ToSet(netOrder) = {} /\ \A t \in Thread : ToSet(nids[t]) = {}
      BY <3>1 DEF ToSet
    <3>5. idx \in 1 .. GroupNum + Cardinality(Net) + 2 /\ counter \in Thread
      BY <2>2, <2>3, <3>1
    <3> QED
      BY <2>1, <3>3, <3>4, <3>5 DEF TypeOK
  <2>5. CASE pc # "groups"
    <3>1. GroupsSorted
      BY <2>5 DEF IInv
    <3>2. ToSet(groupOrder) \subseteq Gid
      BY <3>1 DEF GroupsSorted, Bijection, Injection, ToSet
    <3>3. CASE pc = "nets"
      <4>1. Counting /\ Enumerates(netOrder, Settled(idx)) /\ NoLanes
        BY <3>3 DEF IInv
      <4>2. idx \in 1 .. GroupNum + Cardinality(Net) + 2 /\ idx - 1 \in 0 .. GroupNum
        BY <2>2, <2>3, <4>1 DEF Counting
      <4>3. \A n \in Net : netCounter[n] \in 0 .. NetGroupSize(n)
        BY <2>1, <3>1, <4>1, <4>2, CountedOut DEF Counting
      <4>4. ToSet(netOrder) \subseteq Net
        <5>1. ToSet(netOrder) \subseteq Settled(idx)
          BY <4>1 DEF Enumerates, Bijection, Injection, ToSet
        <5> QED
          BY <2>1, <5>1, GroupedNets
      <4>5. counter \in Thread /\ \A t \in Thread : ToSet(nids[t]) = {}
        BY <2>3, <4>1 DEF NoLanes, ToSet
      <4> QED
        BY <2>1, <3>2, <4>2, <4>3, <4>4, <4>5 DEF TypeOK
    <3>4. CASE pc \in {"deal", "done"}
      <4>1. Queued /\ LanesEven /\ netCounter = [n \in Net |-> NetGroupSize(n)]
        BY <3>4 DEF IInv
      <4>2. idx \in 1 .. GroupNum + Cardinality(Net) + 2
        <5>1. idx \in 1 .. size + 2
          BY <2>2, <4>1 DEF LanesEven
        <5> QED
          BY <2>2, <2>3, <5>1
      <4>3. \A n \in Net : netCounter[n] \in 0 .. NetGroupSize(n)
        <5> TAKE n \in Net
        <5>1. 0 \in 0 .. GroupNum /\ GroupNum \in 0 .. GroupNum
          BY <2>3
        <5>2. SumFunction(Mentions(n, GroupNum)) \in 0 .. NetGroupSize(n)
          BY <2>1, <3>1, <5>1, CountedOut
        <5>3. SumFunction(Mentions(n, GroupNum)) = NetGroupSize(n)
          <6>1. \A i \in GroupNum + 1 .. GroupNum : n \notin ToSet(group[groupOrder[i]])
            BY <2>3
          <6> QED
            BY <2>1, <3>1, <5>1, <6>1, CountedOut
        <5> QED
          BY <4>1, <5>2, <5>3
      <4>4. ToSet(netOrder) \subseteq Net \cup {NoNet}
        <5>1. PICK s \in Bijection(1 .. size, Grouped) : netOrder = Append(s, NoNet)
          BY <2>2, <4>1 DEF Queued
        <5>2. s \in [1 .. size -> Net]
          BY <2>1, <5>1, GroupedNets DEF Bijection, Injection
        <5>3. s \in Seq(Net \cup {NoNet})
          BY <2>2, <5>2
        <5>4. netOrder \in Seq(Net \cup {NoNet})
          BY <5>1, <5>3, AppendProperties
        <5> QED
          BY <5>4 DEF ToSet
      <4>5. counter \in Thread /\ \A t \in Thread : nids[t] \in Seq(Net \cup {NoNet})
        BY <4>1 DEF LanesEven
      <4>6. \A t \in Thread : ToSet(nids[t]) \subseteq Net \cup {NoNet}
        BY <4>5 DEF ToSet
      <4> QED
        BY <2>1, <3>2, <4>2, <4>3, <4>4, <4>5, <4>6 DEF TypeOK
    <3> QED
      BY <2>1, <2>5, <3>3, <3>4
  <2> QED
    BY <2>4, <2>5
<1>2. IInv => LanesRectangular
  <2> SUFFICES ASSUME IInv, pc = "done", NEW t \in Thread
               PROVE  /\ Len(nids[t]) = Cardinality(Grouped) \div NumThread + 1
                      /\ t = NumThread - 1 => Last(nids[t]) = NoNet
    BY <1>1 DEF LanesRectangular
  <2> QED
    BY DoneFacts
<1> QED
  BY <1>2, Invariant, PTL

\* The lanes as GroupRouter has them, rows counted from 0.
RowNum == Cardinality(Grouped) \div NumThread + 1
LanesByRow == [t \in Thread |-> [r \in 0 .. RowNum - 1 |-> nids[t][r + 1]]]

\* GroupRouter!LanesAssumption with these lanes and rows.
ServesGroupRouter ==
  pc = "done" =>
    /\ RowNum \in Nat
    /\ LanesByRow \in [Thread -> [0 .. RowNum - 1 -> Net \cup {NoNet}]]
    /\ \A t, u \in Thread : \A r, q \in 0 .. RowNum - 1 :
         LanesByRow[t][r] # NoNet /\ LanesByRow[t][r] = LanesByRow[u][q] => t = u /\ r = q

\* The lanes dealt satisfy what GroupRouter assumes of the constants Rows and Lanes.
THEOREM LanesAsAssumed == Spec => []ServesGroupRouter
<1>1. IInv => ServesGroupRouter
  <2> SUFFICES ASSUME IInv, pc = "done"
               PROVE  /\ RowNum \in Nat
                      /\ LanesByRow \in [Thread -> [0 .. RowNum - 1 -> Net \cup {NoNet}]]
                      /\ \A t, u \in Thread : \A r, q \in 0 .. RowNum - 1 :
                           LanesByRow[t][r] # NoNet /\ LanesByRow[t][r] = LanesByRow[u][q]
                             => t = u /\ r = q
    BY DEF ServesGroupRouter
  <2>1. NumThread \in Nat \ {0} /\ Cardinality(Grouped) \in Nat
    BY OrderAssumption, DoneFacts, QueuedFacts
  <2>2. PICK rows \in Nat : rows = RowNum
    BY <2>1, Division DEF RowNum
  <2>3. /\ nids \in [Thread -> Seq(Net \cup {NoNet})]
        /\ \A t \in Thread : Len(nids[t]) = rows
    BY <2>2, DoneFacts DEF IInv, LanesEven, RowNum
  <2>4. ASSUME NEW t \in Thread, NEW r \in 0 .. rows - 1
        PROVE  /\ r + 1 \in DOMAIN nids[t] /\ nids[t][r + 1] \in Net \cup {NoNet}
               /\ LanesByRow[t][r] = nids[t][r + 1]
    <3>1. nids[t] \in Seq(Net \cup {NoNet}) /\ Len(nids[t]) = rows /\ r + 1 \in 1 .. rows
      BY <2>3
    <3>2. LanesByRow[t] = [y \in 0 .. rows - 1 |-> nids[t][y + 1]]
      BY <2>2 DEF LanesByRow
    <3> QED
      BY <3>1, <3>2, LenProperties, ElementOfSeq
  <2>5. LanesByRow \in [Thread -> [0 .. rows - 1 -> Net \cup {NoNet}]]
    <3>1. LanesByRow = [t \in Thread |-> [r \in 0 .. rows - 1 |-> nids[t][r + 1]]]
      BY <2>2 DEF LanesByRow
    <3> QED
      BY <2>4, <3>1
  <2>6. ASSUME NEW t \in Thread, NEW u \in Thread, NEW r \in 0 .. rows - 1, NEW q \in 0 .. rows - 1,
               LanesByRow[t][r] # NoNet, LanesByRow[t][r] = LanesByRow[u][q]
        PROVE  t = u /\ r = q
    <3>1. /\ nids[t][r + 1] = nids[u][q + 1] /\ nids[t][r + 1] # NoNet
          /\ r + 1 \in DOMAIN nids[t] /\ q + 1 \in DOMAIN nids[u]
      BY <2>4, <2>6
    <3>2. r + 1 \in Nat \ {0} /\ q + 1 \in Nat \ {0}
      OBVIOUS
    <3>3. <<t, r + 1>> \in Held(nids) /\ <<u, q + 1>> \in Held(nids)
      BY <3>1, <3>2 DEF Held
    <3>4. <<t, r + 1>> = <<u, q + 1>>
      BY <3>1, <3>3, HeldOnce DEF NetAt
    <3> QED
      BY <3>4
  <2> QED
    BY <2>2, <2>5, <2>6
<1> QED
  BY <1>1, Invariant, PTL
=============================================================================
