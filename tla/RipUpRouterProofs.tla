-------------------------- MODULE RipUpRouterProofs --------------------------
(***************************************************************************)
(* Proofs about the rip-up router, for every graph, every set of nets and  *)
(* groups and every number of rounds.                                      *)
(***************************************************************************)
EXTENDS RipUpRouter, SetFacts, SequenceTheorems

-----------------------------------------------------------------------------
(* The inductive invariant.                                                *)

\* The candidates of a round are nets, each of them once.
CandidatesDistinct ==
  /\ candidates \in Seq(Net)
  /\ \A i, j \in 1 .. Len(candidates) : i # j => candidates[i] # candidates[j]

\* Only the first of parallel edges ever gets a weight, in the graph and in the
\* copy; the copy of a round follows the table.
WeightsBounded ==
  /\ weight \in [Edge -> Int] /\ copy \in [Edge -> Int]
  /\ \A e \in Edge : e # BoostEdge(e) => weight[e] = Unset

\* The flags and the sizes agree with the trees, as TablesAgree says it.
FlagsAgree ==
  \A e \in Edge : /\ passing[e] = Users(e) \ RippedUp
                  /\ pssTreeSizes[e] = Cardinality(passing[e])

\* A round that has begun is one of those the option asks for.
RoundOpen == pc # "pick" => round < RipUpCount

IInv == TablesAgree /\ RoundOpen /\ CandidatesDistinct /\ WeightsBounded /\ WeightsFollowTable

-----------------------------------------------------------------------------
(* The graph's look-ups.                                                   *)

\* Of the edges between two FPGAs graphMgr finds the last and boost::edge the
\* first; both are edges between them.
LEMMA LookUps ==
  ASSUME NEW e \in Edge
  PROVE  /\ NamedEdge(e) \in Edge /\ NamedEdge(e) = Max(Alike(e))
         /\ Ends(NamedEdge(e)) = Ends(e)
         /\ BoostEdge(e) \in Edge /\ Ends(BoostEdge(e)) = Ends(e)
<1>1. e \in Alike(e) /\ Alike(e) \subseteq Edge /\ \A d \in Alike(e) : Ends(d) = Ends(e)
  BY DEF Alike
<1>2. NamedEdge(e) = Max(Alike(e))
  BY <1>1 DEF NamedEdge, EdgeId, Alike, Ends
<1>3. Cardinality(Edge) \in Nat /\ Edge = 0 .. Cardinality(Edge) - 1
  BY GraphAssumption, FS_CardinalityType
<1>4. Max(Alike(e)) \in Alike(e)
  <2>1. Cardinality(Edge) - 1 \in Nat
    BY <1>3
  <2> QED
    BY <1>1, <1>3, <2>1, MaxOfInterval
<1>5. BoostEdge(e) \in Alike(e)
  <2>1. Alike(e) \in SUBSET Nat
    BY <1>1, <1>3
  <2> QED
    BY <1>1, <2>1, MinOfNats DEF BoostEdge
<1> QED
  BY <1>1, <1>2, <1>4, <1>5

\* A tree of the heuristic consists of edges a router can name.
LEMMA SteinerTreeEdges ==
  ASSUME NEW n \in Net, NEW P \in SteinerTrees[n]
  PROVE  P \in SUBSET Named /\ P \in SUBSET Edge
BY DEF SteinerTrees, Named

\* The flags of an edge are finitely many: what clearing one and setting one does
\* to their number.
LEMMA CountOneMore ==
  ASSUME NEW S \in SUBSET Net, NEW n \in Net
  PROVE  /\ Cardinality(S) \in 0 .. Cardinality(Net)
         /\ n \in S => Cardinality(S) >= 1 /\ Cardinality(S \ {n}) = Cardinality(S) - 1
         /\ n \notin S => Cardinality(S \cup {n}) = Cardinality(S) + 1
<1>1. IsFiniteSet(Net) /\ Cardinality(Net) \in Nat
  BY RipUpAssumption, FS_CardinalityType
<1>2. IsFiniteSet(S) /\ Cardinality(S) \in Nat /\ Cardinality(S) <= Cardinality(Net)
  BY <1>1, FS_Subset, FS_CardinalityType
<1>3. n \in S => Cardinality(S \ {n}) = Cardinality(S) - 1
  BY <1>2, FS_RemoveElement
<1>4. Cardinality(S \ {n}) \in Nat
  BY <1>2, FS_RemoveElement, FS_CardinalityType
<1>5. n \notin S => Cardinality(S \cup {n}) = Cardinality(S) + 1
  BY <1>2, FS_AddElement
<1> QED
  BY <1>1, <1>2, <1>3, <1>4, <1>5

\* What pickNets chooses: the nets of a group, each of them once.
LEMMA PickedNets ==
  ASSUME NEW nets \in Seq(Net), NEW s \in PickOrders(nets)
  PROVE  /\ s \in Seq(Net)
         /\ \A i, j \in 1 .. Len(s) : i # j => s[i] # s[j]
<1>1. ToSet(nets) \subseteq Net /\ IsFiniteSet(ToSet(nets))
  BY RipUpAssumption, FS_Subset DEF ToSet
<1>2. Cardinality(ToSet(nets)) \in Nat
  BY <1>1, FS_CardinalityType
<1>3. s \in [1 .. Cardinality(ToSet(nets)) -> ToSet(nets)]
  BY DEF PickOrders, SetToSeqs
<1>4. s \in Seq(ToSet(nets)) /\ Len(s) = Cardinality(ToSet(nets))
  BY <1>2, <1>3, IsASeq, LenProperties
<1>5. \A i, j \in 1 .. Cardinality(ToSet(nets)) : i # j => s[i] # s[j]
  BY DEF PickOrders, SetToSeqs
<1>6. s \in Seq(Net)
  BY <1>1, <1>4, SeqMonotonic
<1> QED
  BY <1>4, <1>5, <1>6

\* The group pickNets takes is one of the file.
LEMMA ImportantGroup == MostImportant # NoGroup => MostImportant \in Gid
<1> DEFINE top == {g \in Gid : /\ GroupImportance(g) > 0
                               /\ \A h \in Gid : GroupImportance(h) <= GroupImportance(g)}
<1>1. top \in SUBSET Nat /\ top \subseteq Gid
  BY RipUpAssumption
<1>2. MostImportant = IF top = {} THEN NoGroup ELSE Min(top)
  BY DEF MostImportant
<1> HIDE DEF top
<1> QED
  BY <1>1, <1>2, MinOfNats

\* Once flags and sizes agree with the trees, no assertion on them can fail: the
\* candidate to be ripped up next still has all its flags, the candidate to be
\* routed next has none.
LEMMA TablesFromFlags == TypeOK /\ CandidatesDistinct /\ FlagsAgree => TablesAgree
<1> SUFFICES ASSUME TypeOK, CandidatesDistinct, FlagsAgree, idx <= Len(candidates)
             PROVE  AssertionsHold
  BY DEF TablesAgree, FlagsAgree, AssertionsHold
<1> DEFINE n == candidates[idx]
<1>1. Len(candidates) \in Nat /\ idx \in 1 .. Len(candidates)
  BY LenProperties DEF TypeOK, CandidatesDistinct
<1>2. n \in Net
  BY <1>1, ElementOfSeq DEF CandidatesDistinct
<1>3. ASSUME pc = "ripup", NEW e \in tree[n]
      PROVE  n \in passing[e] /\ pssTreeSizes[e] >= 1
  <2>1. e \in Edge
    BY <1>2 DEF TypeOK, Named
  <2>2. n \notin RippedUp
    <3>1. RippedUp = {candidates[i] : i \in 1 .. idx - 1}
      BY <1>3 DEF RippedUp
    <3> QED
      BY <3>1, <1>1 DEF CandidatesDistinct
  <2>3. n \in passing[e]
    BY <1>2, <2>1, <2>2 DEF FlagsAgree, Users
  <2>4. passing[e] \in SUBSET Net /\ pssTreeSizes[e] = Cardinality(passing[e])
    BY <2>1 DEF TypeOK, FlagsAgree
  <2> QED
    BY <1>2, <2>3, <2>4, CountOneMore
<1>4. ASSUME pc = "route", NEW e \in Edge
      PROVE  n \notin passing[e]
  <2>1. RippedUp = {candidates[i] : i \in idx .. Len(candidates)}
    BY <1>4 DEF RippedUp
  <2>2. n \in RippedUp
    BY <2>1, <1>1
  <2> QED
    BY <2>2 DEF FlagsAgree
<1> QED
  BY <1>3, <1>4 DEF AssertionsHold

-----------------------------------------------------------------------------
(* One lemma per action: the invariant after it.                           *)

\* After the group router the tables agree and no weight is entered yet.
LEMMA InitInv == Init => IInv
<1> SUFFICES ASSUME Init PROVE IInv
  OBVIOUS
<1>1. /\ tree \in [Net -> {{}} \cup UNION {SteinerTrees[n] : n \in Net}]
      /\ \A n \in Net : tree[n] \in {{}} \cup SteinerTrees[n]
  BY DEF Init
<1>2. tree \in [Net -> SUBSET Named]
  BY <1>1, SteinerTreeEdges
<1>3. \A e \in Edge : Users(e) \in SUBSET Net
  BY DEF Users
<1>4. /\ passing \in [Edge -> SUBSET Net]
      /\ pssTreeSizes \in [Edge -> 0 .. Cardinality(Net)]
      /\ \A e \in Edge : passing[e] = Users(e) /\ pssTreeSizes[e] = Cardinality(passing[e])
  <2>1. \A e \in Edge : Cardinality(Users(e)) \in 0 .. Cardinality(Net)
    <3>1. CASE Net = {}
      BY <3>1, <1>3, FS_EmptySet
    <3>2. CASE Net # {}
      BY <3>2, <1>3, CountOneMore
    <3> QED
      BY <3>1, <3>2
  <2>2. passing = [e \in Edge |-> Users(e)]
    BY DEF Init
  <2>3. pssTreeSizes = [e \in Edge |-> Cardinality(Users(e))]
    BY DEF Init
  <2> QED
    BY <2>1, <2>2, <2>3, <1>3
<1>5. pc = "pick" /\ candidates = <<>> /\ idx = 1 /\ round = 0 /\ Len(candidates) = 0
  BY EmptySeq DEF Init
<1>6. TypeOK
  BY <1>2, <1>4, <1>5, RipUpAssumption DEF TypeOK, Init
<1>7. TablesAgree
  BY <1>4, <1>5, <1>6 DEF TablesAgree, AssertionsHold, RippedUp
<1>8. CandidatesDistinct
  BY <1>5, EmptySeq DEF CandidatesDistinct
<1>9. RoundOpen /\ WeightsBounded /\ WeightsFollowTable
  BY <1>5 DEF RoundOpen, WeightsBounded, WeightsFollowTable, Init, DefaultGraph, Unset
<1> QED
  BY <1>7, <1>8, <1>9 DEF IInv

\* pickNets only fills the list of candidates.
LEMMA PickNetsInv == IInv /\ PickNets => IInv'
<1> SUFFICES ASSUME IInv, PickNets PROVE IInv'
  OBVIOUS
<1>1. PICK g \in Gid : candidates' \in PickOrders(Group[g])
  BY ImportantGroup DEF PickNets
<1>2. CandidatesDistinct'
  BY <1>1, PickedNets, RipUpAssumption DEF CandidatesDistinct
<1>3. /\ pc = "pick" /\ pc' = "ripup" /\ idx' = 1 /\ Len(candidates') \in Nat
      /\ UNCHANGED <<tree, passing, pssTreeSizes, edgeWeight, weight, copy, round>>
  BY <1>2, LenProperties DEF PickNets, CandidatesDistinct
<1>4. RippedUp = {} /\ RippedUp' = {}
  BY <1>3 DEF RippedUp
<1>5. TypeOK'
  BY <1>3 DEF IInv, TablesAgree, TypeOK
<1>6. FlagsAgree'
  BY <1>3, <1>4 DEF IInv, TablesAgree, FlagsAgree, Users
<1>7. TablesAgree'
  BY <1>2, <1>5, <1>6, TablesFromFlags, PTL
<1>8. (RoundOpen /\ WeightsBounded /\ WeightsFollowTable)'
  BY <1>3 DEF PickNets, IInv, RoundOpen, WeightsBounded, WeightsFollowTable, BoostEdge, Alike
<1> QED
  BY <1>2, <1>7, <1>8 DEF IInv

\* ripup() takes the flags of one more candidate off its tree, and counts down.
LEMMA RipUpNetInv == IInv /\ RipUpNet => IInv'
<1> SUFFICES ASSUME IInv, RipUpNet PROVE IInv'
  OBVIOUS
<1> DEFINE n == candidates[idx]
<1>1. /\ pc = "ripup" /\ idx <= Len(candidates) /\ idx' = idx + 1
      /\ passing' = Cleared(tree[n], n) /\ pssTreeSizes' = SizesLess(tree[n])
      /\ UNCHANGED <<tree, edgeWeight, weight, copy, candidates, round, pc>>
  BY DEF RipUpNet
<1>2. TypeOK /\ CandidatesDistinct /\ FlagsAgree /\ AssertionsHold
  BY DEF IInv, TablesAgree, FlagsAgree
<1>3. Len(candidates) \in Nat /\ idx \in 1 .. Len(candidates)
  BY <1>1, <1>2, LenProperties DEF TypeOK, CandidatesDistinct
<1>4. n \in Net
  BY <1>2, <1>3, ElementOfSeq DEF CandidatesDistinct
<1>5. RippedUp' = RippedUp \cup {n}
  <2>1. RippedUp = {candidates[i] : i \in 1 .. idx - 1}
    BY <1>1 DEF RippedUp
  <2>2. RippedUp' = {candidates[i] : i \in 1 .. (idx + 1) - 1}
    BY <1>1 DEF RippedUp
  <2> QED
    BY <2>1, <2>2, <1>3
<1>6. ASSUME NEW e \in Edge
      PROVE  /\ passing'[e] = passing[e] \ {n} /\ passing'[e] \in SUBSET Net
             /\ pssTreeSizes'[e] = Cardinality(passing'[e])
  <2>1. passing[e] \in SUBSET Net /\ pssTreeSizes[e] = Cardinality(passing[e])
    BY <1>2 DEF TypeOK, FlagsAgree
  <2>2. CASE e \in tree[n]
    <3>1. n \in passing[e]
      BY <1>1, <1>2, <2>2 DEF AssertionsHold
    <3>2. passing'[e] = passing[e] \ {n} /\ pssTreeSizes'[e] = pssTreeSizes[e] - 1
      BY <1>1, <2>2 DEF Cleared, SizesLess
    <3> QED
      BY <1>4, <2>1, <3>1, <3>2, CountOneMore
  <2>3. CASE e \notin tree[n]
    <3>1. n \notin passing[e]
      BY <1>2, <2>3 DEF FlagsAgree, Users
    <3>2. passing'[e] = passing[e] /\ pssTreeSizes'[e] = pssTreeSizes[e]
      BY <1>1, <2>3 DEF Cleared, SizesLess
    <3> QED
      BY <2>1, <3>1, <3>2
  <2> QED
    BY <2>2, <2>3
<1>7. FlagsAgree'
  BY <1>1, <1>2, <1>5, <1>6 DEF FlagsAgree, Users
<1>8. TypeOK'
  <2>1. passing' \in [Edge -> SUBSET Net]
    BY <1>1, <1>6 DEF Cleared
  <2>2. pssTreeSizes' \in [Edge -> 0 .. Cardinality(Net)]
    <3>1. \A e \in Edge : pssTreeSizes'[e] \in 0 .. Cardinality(Net)
      BY <1>4, <1>6, CountOneMore
    <3> QED
      BY <1>1, <3>1 DEF SizesLess
  <2>3. idx' \in 1 .. Len(candidates) + 1
    BY <1>1, <1>3
  <2> QED
    BY <1>1, <1>2, <2>1, <2>2, <2>3 DEF TypeOK
<1>9. CandidatesDistinct' /\ (RoundOpen /\ WeightsBounded /\ WeightsFollowTable)'
  BY <1>1, <1>2 DEF IInv, RoundOpen, CandidatesDistinct, WeightsBounded, WeightsFollowTable, BoostEdge, Alike
<1> QED
  BY <1>7, <1>8, <1>9, TablesFromFlags, PTL DEF IInv

\* route() enters the table into the graph, where the last of parallel edges is
\* entered last, and copies the graph.
LEMMA EndRipUpInv == IInv /\ EndRipUp => IInv'
<1> SUFFICES ASSUME IInv, EndRipUp PROVE IInv'
  OBVIOUS
<1>1. /\ pc = "ripup" /\ pc' = "route" /\ idx > Len(candidates) /\ idx' = 1
      /\ weight' = Entered(edgeWeight) /\ copy' = weight'
      /\ UNCHANGED <<tree, passing, pssTreeSizes, edgeWeight, candidates, round>>
  BY DEF EndRipUp
<1>2. TypeOK /\ CandidatesDistinct /\ FlagsAgree /\ WeightsBounded
  BY DEF IInv, TablesAgree, FlagsAgree
<1>3. Len(candidates) \in Nat /\ idx = Len(candidates) + 1
  BY <1>1, <1>2, LenProperties DEF TypeOK, CandidatesDistinct
<1>4. RippedUp' = RippedUp
  <2>1. RippedUp = {candidates[i] : i \in 1 .. idx - 1}
    BY <1>1 DEF RippedUp
  <2>2. RippedUp' = {candidates[i] : i \in 1 .. Len(candidates)}
    BY <1>1 DEF RippedUp
  <2> QED
    BY <2>1, <2>2, <1>3
<1>5. TypeOK'
  BY <1>1, <1>2, <1>3 DEF TypeOK
<1>6. CandidatesDistinct' /\ FlagsAgree' /\ RoundOpen'
  BY <1>1, <1>2, <1>4 DEF IInv, RoundOpen, CandidatesDistinct, FlagsAgree, Users
<1>7. ASSUME NEW e \in Edge
      PROVE  weight'[e] = IF e = BoostEdge(e) THEN edgeWeight[NamedEdge(e)] ELSE Unset
  BY <1>1, <1>2, LookUps DEF Entered, WeightsBounded
<1>8. WeightsBounded'
  <2>1. weight' \in [Edge -> Int]
    <3>1. \A e \in Edge : weight'[e] \in Int
      BY <1>2, <1>7, LookUps DEF TypeOK, Unset
    <3> QED
      BY <1>1, <3>1 DEF Entered
  <2> QED
    BY <1>1, <1>7, <2>1 DEF WeightsBounded, BoostEdge, Alike
<1>9. WeightsFollowTable'
  BY <1>1, <1>7 DEF WeightsFollowTable, BoostEdge, Alike, NamedEdge
<1> QED
  BY <1>5, <1>6, <1>8, <1>9, TablesFromFlags, PTL DEF IInv

\* route() hands the next candidate a tree, sets its flags on it, counts up and
\* raises the weights of its edges.
LEMMA RouteNetInv == IInv /\ RouteNet => IInv'
<1> SUFFICES ASSUME IInv, RouteNet PROVE IInv'
  OBVIOUS
<1> DEFINE n == candidates[idx]
<1>1. PICK P \in SteinerTrees[n] :
        /\ tree' = [tree EXCEPT ![n] = P]
        /\ passing' = [e \in Edge |-> IF e \in P THEN passing[e] \cup {n} ELSE passing[e]]
        /\ pssTreeSizes' = [e \in Edge |-> IF e \in P THEN pssTreeSizes[e] + 1 ELSE pssTreeSizes[e]]
        /\ edgeWeight' = [e \in Edge |-> IF e \in P THEN edgeWeight[e] + 1 ELSE edgeWeight[e]]
        /\ copy' = Raised(edgeWeight', P)
  BY DEF RouteNet
<1>2. /\ pc = "route" /\ idx <= Len(candidates) /\ idx' = idx + 1
      /\ UNCHANGED <<weight, candidates, round, pc>>
  BY DEF RouteNet
<1>3. TypeOK /\ CandidatesDistinct /\ FlagsAgree /\ AssertionsHold /\ WeightsBounded /\ WeightsFollowTable
  BY DEF IInv, TablesAgree, FlagsAgree
<1>4. Len(candidates) \in Nat /\ idx \in 1 .. Len(candidates)
  <2>1. Len(candidates) \in Nat
    BY <1>3, LenProperties DEF CandidatesDistinct
  <2>2. idx \in 1 .. Len(candidates) + 1
    BY <1>3 DEF TypeOK
  <2> QED
    BY <1>2, <2>1, <2>2
<1>5. n \in Net
  BY <1>3, <1>4, ElementOfSeq DEF CandidatesDistinct
<1>6. P \in SUBSET Named /\ P \in SUBSET Edge
  BY <1>1, <1>5, SteinerTreeEdges
<1>7. RippedUp' = RippedUp \ {n}
  <2>1. RippedUp = {candidates[i] : i \in idx .. Len(candidates)}
    BY <1>2 DEF RippedUp
  <2>2. RippedUp' = {candidates[i] : i \in idx + 1 .. Len(candidates)}
    BY <1>2 DEF RippedUp
  <2>3. \A i \in idx + 1 .. Len(candidates) : candidates[i] # n
    BY <1>3, <1>4 DEF CandidatesDistinct
  <2>4. \A i \in idx .. Len(candidates) : i = idx \/ i \in idx + 1 .. Len(candidates)
    BY <1>4
  <2>5. idx + 1 .. Len(candidates) \subseteq idx .. Len(candidates)
    BY <1>4
  <2> HIDE DEF n
  <2> QED
    BY <2>1, <2>2, <2>3, <2>4, <2>5 DEF n
<1>8. ASSUME NEW e \in Edge
      PROVE  /\ passing'[e] = (Users(e) \ RippedUp)'
             /\ passing'[e] \in SUBSET Net
             /\ pssTreeSizes'[e] = Cardinality(passing'[e])
  <2>1. /\ passing[e] \in SUBSET Net /\ pssTreeSizes[e] = Cardinality(passing[e])
        /\ passing[e] = Users(e) \ RippedUp
    BY <1>3 DEF TypeOK, FlagsAgree
  <2>2. n \notin passing[e]
    BY <1>2, <1>3 DEF AssertionsHold
  <2>3. Users(e)' = IF e \in P THEN Users(e) \cup {n} ELSE Users(e) \ {n}
    BY <1>1, <1>3, <1>5 DEF Users, TypeOK
  <2>4. CASE e \in P
    <3>1. passing'[e] = passing[e] \cup {n} /\ pssTreeSizes'[e] = pssTreeSizes[e] + 1
      BY <1>1, <2>4
    <3> QED
      BY <1>5, <1>7, <2>1, <2>2, <2>3, <2>4, <3>1, CountOneMore
  <2>5. CASE e \notin P
    <3>1. passing'[e] = passing[e] /\ pssTreeSizes'[e] = pssTreeSizes[e]
      BY <1>1, <2>5
    <3> QED
      BY <1>7, <2>1, <2>2, <2>3, <2>5, <3>1
  <2> QED
    BY <2>4, <2>5
<1>9. FlagsAgree'
  BY <1>8 DEF FlagsAgree
<1>10. TypeOK'
  <2>1. tree' \in [Net -> SUBSET Named]
    BY <1>1, <1>3, <1>6 DEF TypeOK
  <2>2. passing' \in [Edge -> SUBSET Net]
    BY <1>1, <1>8
  <2>3. pssTreeSizes' \in [Edge -> 0 .. Cardinality(Net)]
    <3>1. \A e \in Edge : pssTreeSizes'[e] \in 0 .. Cardinality(Net)
      BY <1>5, <1>8, CountOneMore
    <3> QED
      BY <1>1, <3>1
  <2>4. edgeWeight' \in [Edge -> Nat]
    BY <1>1, <1>3 DEF TypeOK
  <2>5. idx' \in 1 .. Len(candidates) + 1
    BY <1>2, <1>4
  <2> QED
    BY <1>2, <1>3, <2>1, <2>2, <2>3, <2>4, <2>5 DEF TypeOK
<1>11. CandidatesDistinct' /\ RoundOpen'
  BY <1>2, <1>3 DEF IInv, RoundOpen, CandidatesDistinct
<1>12. ASSUME NEW e \in Edge
       PROVE  copy'[e] = IF e = BoostEdge(e) THEN edgeWeight'[NamedEdge(e)] ELSE Unset
  <2>1. copy[e] = IF e = BoostEdge(e) THEN edgeWeight[NamedEdge(e)] ELSE Unset
    BY <1>2, <1>3 DEF WeightsFollowTable
  <2>2. copy'[e] = IF e = BoostEdge(e) /\ NamedEdge(e) \in P THEN edgeWeight'[NamedEdge(e)] ELSE copy[e]
    BY <1>1 DEF Raised
  <2>3. NamedEdge(e) \notin P => edgeWeight'[NamedEdge(e)] = edgeWeight[NamedEdge(e)]
    BY <1>1, LookUps
  <2> QED
    BY <2>1, <2>2, <2>3
<1>13. WeightsFollowTable'
  BY <1>12 DEF WeightsFollowTable, BoostEdge, Alike, NamedEdge
<1>14. WeightsBounded'
  <2>1. ASSUME NEW e \in Edge
        PROVE  copy'[e] \in Int
    <3>1. NamedEdge(e) \in Edge
      BY LookUps
    <3>2. edgeWeight'[NamedEdge(e)] \in Nat
      BY <3>1, <1>10 DEF TypeOK
    <3> QED
      BY <1>12, <3>2 DEF Unset
  <2>2. copy' \in [Edge -> Int]
    BY <1>1, <2>1 DEF Raised
  <2> QED
    BY <1>2, <1>3, <2>2 DEF WeightsBounded, BoostEdge, Alike
<1> QED
  BY <1>9, <1>10, <1>11, <1>13, <1>14, TablesFromFlags, PTL DEF IInv

\* The end of a round leaves the tables as they are; the copy is gone.
LEMMA EndRoundInv == IInv /\ EndRound => IInv'
<1> SUFFICES ASSUME IInv, EndRound PROVE IInv'
  OBVIOUS
<1>1. /\ pc = "route" /\ pc' = "pick" /\ idx > Len(candidates) /\ idx' = 1
      /\ candidates' = <<>> /\ Len(candidates') = 0 /\ round' = round + 1
      /\ UNCHANGED <<tree, passing, pssTreeSizes, edgeWeight, weight, copy>>
  BY EmptySeq DEF EndRound
<1>2. TypeOK /\ CandidatesDistinct /\ FlagsAgree /\ WeightsBounded /\ RoundOpen
  BY DEF IInv, TablesAgree, FlagsAgree
<1>3. Len(candidates) \in Nat /\ idx = Len(candidates) + 1
  <2>1. candidates \in Seq(Net)
    BY <1>2 DEF CandidatesDistinct
  <2>2. Len(candidates) \in Nat
    BY <2>1, LenProperties
  <2>3. idx \in 1 .. Len(candidates) + 1 /\ idx > Len(candidates)
    BY <1>1, <1>2 DEF TypeOK
  <2> QED
    BY <2>2, <2>3
<1>4. RippedUp = {} /\ RippedUp' = {}
  <2>1. RippedUp = {candidates[i] : i \in idx .. Len(candidates)}
    BY <1>1 DEF RippedUp
  <2>2. idx .. Len(candidates) = {}
    BY <1>3
  <2> QED
    BY <1>1, <2>1, <2>2 DEF RippedUp
<1>5. TypeOK'
  BY <1>1, <1>2, RipUpAssumption DEF TypeOK, RoundOpen
<1>6. FlagsAgree'
  BY <1>1, <1>2, <1>4 DEF FlagsAgree, Users
<1>7. CandidatesDistinct'
  BY <1>1, EmptySeq DEF CandidatesDistinct
<1>8. (RoundOpen /\ WeightsBounded /\ WeightsFollowTable)'
  BY <1>1, <1>2 DEF RoundOpen, WeightsBounded, WeightsFollowTable, BoostEdge, Alike
<1> QED
  BY <1>5, <1>6, <1>7, <1>8, TablesFromFlags, PTL DEF IInv

-----------------------------------------------------------------------------
(* The theorems.                                                           *)

\* The invariant holds in every state of every execution.
THEOREM Invariant == Spec => []IInv
<1>1. IInv /\ [Next]_vars => IInv'
  <2> SUFFICES ASSUME IInv, [Next]_vars PROVE IInv'
    OBVIOUS
  <2>1. CASE Stop \/ UNCHANGED vars
    <3>1. UNCHANGED vars
      BY <2>1 DEF Stop
    <3>2. TypeOK' /\ RoundOpen' /\ CandidatesDistinct'
      BY <3>1 DEF vars, IInv, TablesAgree, TypeOK, RoundOpen, CandidatesDistinct
    <3>3. RippedUp' = RippedUp
      BY <3>1 DEF vars, RippedUp
    <3>4. FlagsAgree'
      BY <3>1, <3>3 DEF vars, IInv, TablesAgree, FlagsAgree, Users
    <3>5. WeightsBounded' /\ WeightsFollowTable'
      BY <3>1 DEF vars, IInv, WeightsBounded, WeightsFollowTable, BoostEdge, Alike, NamedEdge
    <3> QED
      BY <3>2, <3>4, <3>5, TablesFromFlags, PTL DEF IInv
  <2> QED
    BY <2>1, PickNetsInv, RipUpNetInv, EndRipUpInv, RouteNetInv, EndRoundInv DEF Next
<1> QED
  BY <1>1, InitInv, PTL DEF Spec

\* topologyMgr's trees, flags and sizes agree through every rip-up, whichever
\* trees the heuristic returns, and none of db.cpp's assertions on them fails.
THEOREM TablesStayTogether == Spec => []TablesAgree
BY Invariant, PTL DEF IInv

\* Whenever the heuristic runs, the weights it sees are those of the table on the
\* first of parallel edges, and nothing on the others.
THEOREM HeuristicSeesTable == Spec => []WeightsFollowTable
BY Invariant, PTL DEF IInv

\* A step changes tree and flags of no net outside the round's group.
THEOREM GroupOnly == Spec => OthersUntouched
<1>1. IInv /\ [Next]_vars =>
        [\A n \in Net : n \notin ToSet(candidates) =>
           /\ tree'[n] = tree[n]
           /\ \A e \in Edge : n \in passing'[e] <=> n \in passing[e]]_vars
  <2> SUFFICES ASSUME IInv, Next, NEW n \in Net, n \notin ToSet(candidates)
               PROVE  /\ tree'[n] = tree[n]
                      /\ \A e \in Edge : n \in passing'[e] <=> n \in passing[e]
    OBVIOUS
  <2>1. TypeOK /\ CandidatesDistinct
    BY DEF IInv, TablesAgree
  <2>2. \A i \in 1 .. Len(candidates) : candidates[i] # n
    BY <2>1, LenProperties DEF ToSet, CandidatesDistinct
  <2>3. Len(candidates) \in Nat /\ (idx <= Len(candidates) => idx \in 1 .. Len(candidates))
    BY <2>1, LenProperties DEF TypeOK, CandidatesDistinct
  <2>4. CASE RipUpNet
    BY <2>2, <2>3, <2>4 DEF RipUpNet, Cleared
  <2>5. CASE RouteNet
    BY <2>1, <2>2, <2>3, <2>5 DEF RouteNet, TypeOK
  <2>6. CASE PickNets \/ EndRipUp \/ EndRound \/ Stop
    BY <2>6 DEF PickNets, EndRipUp, EndRound, Stop, vars
  <2> QED
    BY <2>4, <2>5, <2>6 DEF Next
<1> QED
  BY <1>1, Invariant, PTL DEF Spec, OthersUntouched
=============================================================================
