------------------------------ MODULE NetOrder ------------------------------
(***************************************************************************)
(* How groupRouter::route prepares its lanes: sort the net groups by the   *)
(* cost of their spanning trees, list every net with the last of its       *)
(* groups, and deal the list round-robin to the nParallel lanes nids_t.    *)
(* The parallel region of GroupRouter indexes all lanes up to the length   *)
(* of the first one, without a check.                                      *)
(***************************************************************************)
EXTENDS Lists

CONSTANTS
  Net,         \* net ids
  NoNet,       \* the value -1
  GroupNum,    \* number of net groups
  Groups,      \* possible inputs: functions from group ids to lists of nets
  MstCost,     \* MSTdb.getMSTCost
  NumThread    \* nParallel

Gid    == 0 .. GroupNum - 1
Thread == 0 .. NumThread - 1

\* NumThread = 0 would make the code divide by zero (nids_t.size()).
ASSUME OrderAssumption ==
  /\ IsFiniteSet(Net)
  /\ NoNet \notin Net
  /\ GroupNum \in Nat \ {0}
  /\ Groups \subseteq [Gid -> Seq(Net)]
  /\ MstCost \in [Net -> Int]
  /\ NumThread \in Nat \ {0}

VARIABLES
  group,        \* the nets of each group, in file order
  groupOrder,   \* _groupOrder (the ids)
  idx,          \* loop variable of getNetOrder, then of getParallelNetOrder
  netCounter,   \* how often each net was met so far
  netOrder,     \* _netOrder
  nids,         \* nids_t
  counter,      \* the lane that is dealt to next
  pc

vars == <<group, groupOrder, idx, netCounter, netOrder, nids, counter, pc>>

Init ==
  /\ group \in Groups
  /\ groupOrder = <<>>
  /\ idx = 1
  /\ netCounter = [n \in Net |-> 0]
  /\ netOrder = <<>>
  /\ nids = [t \in Thread |-> <<>>]
  /\ counter = 0
  /\ pc = "groups"

-----------------------------------------------------------------------------
(* sortNetGroups()                                                         *)

GroupCost(g) == SumFunction([i \in DOMAIN group[g] |-> MstCost[group[g][i]]])

\* The pairs (cost, id) in ascending order.
GroupBefore(g, h) == GroupCost(g) < GroupCost(h) \/ (GroupCost(g) = GroupCost(h) /\ g < h)

\* The groups stay in the order of their ids (for mutation only).
SortedById == {[i \in 1 .. GroupNum |-> i - 1]}

SortedGroups == Sorted([i \in 1 .. GroupNum |-> i - 1], GroupBefore)

SortNetGroups ==
  /\ pc = "groups"
  /\ groupOrder' \in SortedGroups
  /\ pc' = "nets"
  /\ UNCHANGED <<group, idx, netCounter, netOrder, nids, counter>>

-----------------------------------------------------------------------------
(* getNetOrder()                                                           *)

Occurrences(n, s) == Cardinality({i \in DOMAIN s : s[i] = n})

\* get_netgroup_size: add_net registers a group once for every mention.
NetGroupSize(n) == SumFunction([g \in Gid |-> Occurrences(n, group[g])])

Counted(g) == [n \in Net |-> netCounter[n] + Occurrences(n, group[g])]

\* Takes a net with the first group it is met in, and every later one (for mutation only).
FinishedAlways(g) == ToSet(group[g])

\* The nets of g that no later group mentions.
FinishedNets(g) == {n \in ToSet(group[g]) : Counted(g)[n] = NetGroupSize(n)}

\* std::sort by cost alone leaves nets of equal cost in any order.
ByMstCost(nets) ==
  {s \in SetToSeqs(nets) : \A i, j \in DOMAIN s : i < j => MstCost[s[i]] <= MstCost[s[j]]}

GetIntraGroupNetOrder ==
  /\ pc = "nets"
  /\ idx <= Len(groupOrder)
  /\ netCounter' = Counted(groupOrder[idx])
  /\ \E s \in ByMstCost(FinishedNets(groupOrder[idx])) : netOrder' = netOrder \o s
  /\ idx' = idx + 1
  /\ UNCHANGED <<group, groupOrder, nids, counter, pc>>

\* The final -1 is forgotten (for mutation only).
Unmarked == netOrder

Marked == Append(netOrder, NoNet)

EndNetOrder ==
  /\ pc = "nets"
  /\ idx > Len(groupOrder)
  /\ netOrder' = Marked
  /\ idx' = 1
  /\ pc' = "deal"
  /\ UNCHANGED <<group, groupOrder, netCounter, nids, counter>>

-----------------------------------------------------------------------------
(* getParallelNetOrder()                                                   *)

DealNet ==
  /\ pc = "deal"
  /\ idx <= Len(netOrder)
  /\ netOrder[idx] # NoNet
  /\ nids' = [nids EXCEPT ![counter] = Append(@, netOrder[idx])]
  /\ counter' = (counter + 1) % NumThread
  /\ idx' = idx + 1
  /\ UNCHANGED <<group, groupOrder, netCounter, netOrder, pc>>

\* The mark fills the row up; a fresh row is filled altogether.
PadRow ==
  /\ pc = "deal"
  /\ idx <= Len(netOrder)
  /\ netOrder[idx] = NoNet
  /\ nids' = [t \in Thread |-> IF t >= counter THEN Append(nids[t], NoNet) ELSE nids[t]]
  /\ counter' = 0
  /\ idx' = idx + 1
  /\ UNCHANGED <<group, groupOrder, netCounter, netOrder, pc>>

EndDeal ==
  /\ pc = "deal"
  /\ idx > Len(netOrder)
  /\ pc' = "done"
  /\ UNCHANGED <<group, groupOrder, idx, netCounter, netOrder, nids, counter>>

Done == pc = "done" /\ UNCHANGED vars

Next ==
  \/ SortNetGroups
  \/ GetIntraGroupNetOrder \/ EndNetOrder
  \/ DealNet \/ PadRow \/ EndDeal
  \/ Done

Spec == Init /\ [][Next]_vars

-----------------------------------------------------------------------------
(* Properties.                                                             *)

\* Nets that some group mentions: the only ones the group router will route.
Grouped == UNION {ToSet(group[g]) : g \in Gid}

Places(n) == {p \in Thread \X (1 .. Cardinality(Net) + 1) :
                p[2] \in DOMAIN nids[p[1]] /\ nids[p[1]][p[2]] = n}

\* Types; the lane dealt to next exists, and no net is counted more often than
\* it is mentioned.
TypeOK ==
  /\ group \in Groups
  /\ ToSet(groupOrder) \subseteq Gid
  /\ idx \in 1 .. GroupNum + Cardinality(Net) + 2
  /\ \A n \in Net : netCounter[n] \in 0 .. NetGroupSize(n)
  /\ ToSet(netOrder) \subseteq Net \cup {NoNet}
  /\ \A t \in Thread : ToSet(nids[t]) \subseteq Net \cup {NoNet}
  /\ counter \in Thread
  /\ pc \in {"groups", "nets", "deal", "done"}

\* Every net of some group ends at exactly one place of one lane, and a net of
\* no group at none: what GroupRouter!LanesAssumption takes for granted.
DealtOnce ==
  pc = "done" => \A n \in Net : Cardinality(Places(n)) = IF n \in Grouped THEN 1 ELSE 0

\* All lanes end with the same length, so that the parallel region may index
\* each of them up to the length of the first; the last row is never full.  On the
\* way all variables keep their types.
LanesRectangular ==
  /\ TypeOK
  /\ pc = "done" => \A t \in Thread :
       /\ Len(nids[t]) = Cardinality(Grouped) \div NumThread + 1
       /\ t = NumThread - 1 => Last(nids[t]) = NoNet

\* Cheap groups first: a net is never routed in an earlier row than another
\* whose last group comes before its own, nor than a cheaper net of that group.
LastGroup(n) ==
  CHOOSE g \in Gid : /\ n \in ToSet(group[g])
                     /\ \A h \in Gid : n \in ToSet(group[h]) => h = g \/ GroupBefore(h, g)
Precedes(m, n) ==
  \/ GroupBefore(LastGroup(m), LastGroup(n))
  \/ LastGroup(m) = LastGroup(n) /\ MstCost[m] < MstCost[n]
CheapFirst ==
  pc = "done" => \A m, n \in Grouped : Precedes(m, n) =>
    \A p \in Places(m), q \in Places(n) :
      p[2] < q[2] \/ (p[2] = q[2] /\ p[1] < q[1])
=============================================================================
