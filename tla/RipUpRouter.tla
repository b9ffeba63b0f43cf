---------------------------- MODULE RipUpRouter ----------------------------
(***************************************************************************)
(* RipUpRouter::run over the tables of topologyMgr.  Every round takes the *)
(* group whose trees cross the most crowded edges, clears the passing      *)
(* flags of its nets, and gives each of them a new Steiner tree under edge *)
(* weights that grow with every tree handed out.                           *)
(*                                                                         *)
(* The Steiner heuristic is the external library PAAL; here it may return  *)
(* any tree that joins the terminals and has no edge to spare.             *)
(***************************************************************************)
EXTENDS BoostGraph

CONSTANTS
  Net,            \* net ids
  TerminalsOf,    \* TerminalsOf[n]: source and targets of net n
  TargetSize,     \* TargetSize[n]: targets of net n, counted as often as the file lists them
  Group,          \* Group[g]: the nets of group g in file order
  RipUpCount      \* OptionMgr::RipUpCount

Gid == DOMAIN Group

ASSUME RipUpAssumption ==
  /\ Connected
  /\ \A n \in Net : TerminalsOf[n] # {} /\ TerminalsOf[n] \subseteq Fpga
  /\ \A n \in Net : TargetSize[n] \in Nat /\ TargetSize[n] >= Cardinality(TerminalsOf[n]) - 1
  /\ IsFiniteSet(Net) /\ Gid \subseteq Nat
  /\ \A g \in Gid : Group[g] \in Seq(Net)
  /\ RipUpCount \in Nat

VARIABLES
  tree,           \* topologyMgr::_topologies, as edge sets
  passing,        \* nets with the flag _passingTrees[e][n].first set
  pssTreeSizes,   \* _pssTreeSizes
  edgeWeight,     \* what _edgeWeight[e] gained since the constructor
  candidates,     \* _candidates
  idx,            \* loop variable i of ripup() and of route()
  round,          \* loop variable of run()
  pc

vars == <<tree, passing, pssTreeSizes, edgeWeight, weight, copy, candidates, idx, round, pc>>

Joins(P, n) == \A s \in TerminalsOf[n] : TerminalsOf[n] \subseteq Reached(P, s)

SteinerTrees == [n \in Net |->
  {P \in SUBSET Named : Joins(P, n) /\ \A e \in P : ~Joins(P \ {e}, n)}]

Users(e) == {n \in Net : e \in tree[n]}

Grouped == UNION {ToSet(Group[g]) : g \in Gid}

\* After the group router: nets of no group, or of a lane that had no thread, have no
\* tree.  Without a tree in any group there is no group to pick.
Init ==
  /\ tree \in {t \in [Net -> {{}} \cup UNION {SteinerTrees[n] : n \in Net}] :
                 /\ \A n \in Grouped : t[n] \in {{}} \cup SteinerTrees[n]
                 /\ \A n \in Net \ Grouped : t[n] = {}
                 /\ \E n \in Grouped : t[n] # {}}
  /\ passing = [e \in Edge |-> Users(e)]
  /\ pssTreeSizes = [e \in Edge |-> Cardinality(Users(e))]
  /\ edgeWeight = [e \in Edge |-> 0]
  /\ weight = DefaultGraph /\ copy = weight
  /\ candidates = <<>>
  /\ idx = 1
  /\ round = 0
  /\ pc = "pick"

-----------------------------------------------------------------------------
(* pickNets()                                                              *)

NetImportance(n) == MapThenSumSet(LAMBDA e : pssTreeSizes[e], tree[n])

\* A net that a group lists twice counts twice.
GroupImportance(g) ==
  FoldLeft(LAMBDA sum, n : sum + NetImportance(n), 0, Group[g])

\* The first group of maximal importance; there is none when every sum is 0.
NoGroup == -1
MostImportant ==
  LET top == {g \in Gid : /\ GroupImportance(g) > 0
                          /\ \A h \in Gid : GroupImportance(h) <= GroupImportance(g)}
  IN  IF top = {} THEN NoGroup ELSE Min(top)

\* Without isPicked a net listed twice is picked twice (for mutation only).
PickOrdersRepeated(nets) == {nets}

\* isPicked keeps one copy of every net; std::sort may order equal sizes at will.
PickOrders(nets) ==
  {s \in SetToSeqs(ToSet(nets)) :
     \A i, j \in DOMAIN s : i < j => TargetSize[s[i]] <= TargetSize[s[j]]}

\* With NoGroup the code would read net group -1: that step is not defined here,
\* so that a run in which it can happen ends in a deadlock.
PickNets ==
  /\ pc = "pick"
  /\ round < RipUpCount
  /\ MostImportant # NoGroup
  /\ candidates' \in PickOrders(Group[MostImportant])
  /\ idx' = 1
  /\ pc' = "ripup"
  /\ UNCHANGED <<tree, passing, pssTreeSizes, edgeWeight, weight, copy, round>>

-----------------------------------------------------------------------------
(* ripup(): delete_passing_tree on every edge of a candidate's tree.       *)

\* delete_passing_tree: the size of every edge of P is counted down.
SizesLess(P) ==
  [e \in Edge |-> IF e \in P THEN pssTreeSizes[e] - 1 ELSE pssTreeSizes[e]]

\* The flags of all nets are cleared (for mutation only).
AllCleared(P, n) == [e \in Edge |-> IF e \in P THEN {} ELSE passing[e]]

\* delete_passing_tree: net n loses its flag on every edge of P.
Cleared(P, n) == [e \in Edge |-> IF e \in P THEN passing[e] \ {n} ELSE passing[e]]

RipUpNet ==
  /\ pc = "ripup"
  /\ idx <= Len(candidates)
  /\ LET n == candidates[idx]
     IN  passing' = Cleared(tree[n], n) /\ pssTreeSizes' = SizesLess(tree[n])
  /\ idx' = idx + 1
  /\ UNCHANGED <<tree, edgeWeight, weight, copy, candidates, round, pc>>

\* route() begins: the weights are entered into the graph, which is copied.
EndRipUp ==
  /\ pc = "ripup"
  /\ idx > Len(candidates)
  /\ weight' = Entered(edgeWeight)
  /\ copy' = weight'
  /\ idx' = 1
  /\ pc' = "route"
  /\ UNCHANGED <<tree, passing, pssTreeSizes, edgeWeight, candidates, round>>

-----------------------------------------------------------------------------
(* route(): a new tree for a candidate, set_tree and add_tree_to_edge.     *)

RouteNet ==
  /\ pc = "route"
  /\ idx <= Len(candidates)
  /\ LET n == candidates[idx]
     IN  \E P \in SteinerTrees[n] :
           /\ tree' = [tree EXCEPT ![n] = P]
           /\ passing' = [e \in Edge |-> IF e \in P THEN passing[e] \cup {n} ELSE passing[e]]
           /\ pssTreeSizes' =
                [e \in Edge |-> IF e \in P THEN pssTreeSizes[e] + 1 ELSE pssTreeSizes[e]]
           /\ edgeWeight' =
                [e \in Edge |-> IF e \in P THEN edgeWeight[e] + 1 ELSE edgeWeight[e]]
           /\ copy' = Raised(edgeWeight', P)
  /\ idx' = idx + 1
  /\ UNCHANGED <<weight, candidates, round, pc>>

EndRound ==
  /\ pc = "route"
  /\ idx > Len(candidates)
  /\ candidates' = <<>>
  /\ idx' = 1
  /\ round' = round + 1
  /\ pc' = "pick"
  /\ UNCHANGED <<tree, passing, pssTreeSizes, edgeWeight, weight, copy>>

RunDone == pc = "pick" /\ round = RipUpCount

Stop == RunDone /\ UNCHANGED vars

Next == PickNets \/ RipUpNet \/ EndRipUp \/ RouteNet \/ EndRound \/ Stop

Spec == Init /\ [][Next]_vars

-----------------------------------------------------------------------------
(* Properties.                                                             *)

\* Candidates ripped up and not routed again yet.
RippedUp ==
  CASE pc = "ripup" -> {candidates[i] : i \in 1 .. idx - 1}
    [] pc = "route" -> {candidates[i] : i \in idx .. Len(candidates)}
    [] OTHER -> {}

\* Types; the size counters stay between zero and the number of nets.
TypeOK ==
  /\ tree \in [Net -> SUBSET Named]
  /\ passing \in [Edge -> SUBSET Net]
  /\ pssTreeSizes \in [Edge -> 0 .. Cardinality(Net)]
  /\ edgeWeight \in [Edge -> Nat]
  /\ idx \in 1 .. Len(candidates) + 1
  /\ round \in 0 .. RipUpCount
  /\ pc \in {"pick", "ripup", "route"}

\* The assertions of db.cpp: a flag about to be cleared is set and its counter
\* positive; a flag about to be set (whatever tree comes back) is clear.
AssertionsHold ==
  idx <= Len(candidates) =>
    LET n == candidates[idx]
    IN  /\ pc = "ripup" => \A e \in tree[n] : n \in passing[e] /\ pssTreeSizes[e] >= 1
        /\ pc = "route" => \A e \in Edge : n \notin passing[e]

\* The three tables of topologyMgr have their types and agree at every point of
\* the rip-up: a flag is set exactly on the edges of the trees of the nets that
\* are not ripped up at the moment, and the size of an edge counts its flags.  No
\* assertion on them fails.
TablesAgree ==
  /\ TypeOK
  /\ AssertionsHold
  /\ \A e \in Edge :
       /\ passing[e] = Users(e) \ RippedUp
       /\ pssTreeSizes[e] = Cardinality(passing[e])

\* Only nets of the group chosen for the round get another tree, and the flags
\* of all others stay where they are.
OthersUntouched ==
  [][ \A n \in Net : n \notin ToSet(candidates) =>
        /\ tree'[n] = tree[n]
        /\ \A e \in Edge : n \in passing'[e] <=> n \in passing[e] ]_vars

\* Whenever the heuristic is asked for a tree, the edge that boost::edge finds
\* has the weight kept for the edge that get_edge_id finds, also after a round on
\* a copy that was thrown away.  The other parallel edges stay free for ever: the
\* weights never follow the trees the heuristic lays on them.
WeightsFollowTable ==
  pc = "route" => \A e \in Edge :
    copy[e] = IF e = BoostEdge(e) THEN edgeWeight[NamedEdge(e)] ELSE Unset
=============================================================================
