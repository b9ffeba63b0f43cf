---------------------------- MODULE TerminalTree ----------------------------
(***************************************************************************)
(* What AstarRouter promises: the terminals of a net are joined one after  *)
(* the other, each by a cheapest path to the tree built so far.  Queues,   *)
(* labels and the order in which nodes are explored do not appear here.    *)
(***************************************************************************)
EXTENDS FpgaGraph

VARIABLES
  c1,       \* cost of every edge
  fpgas,    \* the terminals, in the order in which they are joined
  pos,      \* fpgas[1 .. pos] are joined (once pos > 1)
  tree,     \* edges of the tree
  joined    \* FPGAs on the tree

treeVars == <<c1, fpgas, pos, tree, joined>>

PathCost(P) == MapThenSumSet(LAMBDA e : c1[e], P)

\* Costs are positive, so a cheapest edge set that joins s to T is a path.
CheapestPaths(s, T) ==
  LET ways  == {P \in SUBSET Named : Reached(P, s) \cap T # {}}
      least == Min({PathCost(P) : P \in ways})
  IN  {P \in ways : PathCost(P) = least}

Init ==
  /\ pos = 1
  /\ tree = {}
  /\ joined = {}

\* s joins the tree; the first terminal joins the second.
Attach(s, T) ==
  \E P \in CheapestPaths(s, T) :
    /\ tree' = tree \cup P
    /\ joined' = joined \cup Reached(P, s)

JoinNext ==
  /\ pos < Len(fpgas)
  /\ pos' = pos + 1
  /\ LET a == fpgas[pos]
         b == fpgas[pos + 1]
     IN  IF joined = {} THEN Attach(a, {b})
         ELSE IF b \notin joined THEN Attach(b, joined)
         ELSE UNCHANGED <<tree, joined>>
  /\ UNCHANGED <<c1, fpgas>>

Spec == Init /\ [][JoinNext]_treeVars
=============================================================================
