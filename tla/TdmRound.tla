------------------------------ MODULE TdmRound ------------------------------
(***************************************************************************)
(* LR::takeCeiling and LR::round for the trees of one edge: the TDM ratios *)
(* are raised to even integers and then lowered again as far as the edge   *)
(* allows, nets of the worst groups first.  The edges are legalised in     *)
(* parallel but share nothing.                                             *)
(*                                                                         *)
(* Arithmetic is exact here.  Reciprocals are counted in units of 1/Scale. *)
(* margin = 1 - TOL - sum of 1/tdm throughout (every update of margin is   *)
(* the difference of the reciprocals), and TOL is too small to tell two    *)
(* different sums apart but excludes equality: margin > 0 iff sum < 1.     *)
(***************************************************************************)
EXTENDS Lists

CONSTANTS
  MaxShare,    \* bound of the model: the largest share of a net
  MaxSize,     \* bound of the model: the largest number of trees on the edge
  Prio,        \* values of maxGroupTDM
  MaxTdm,      \* largest TDM ratio of these bounds
  Scale        \* a multiple of every even number up to MaxTdm

\* TOL = 10^-6 can neither hide a nonzero margin nor move a floor() but at an integer.
ASSUME ScaleAssumption ==
  /\ {MaxShare, MaxSize, MaxTdm, Scale} \subseteq Nat \ {0} /\ MaxTdm % 2 = 0
  /\ Prio \subseteq Nat \ {0}
  /\ \A t \in 2 .. MaxTdm : t % 2 = 0 => Scale % t = 0
  /\ MaxShare * MaxSize <= MaxTdm
  /\ MaxTdm * MaxTdm * Scale < 1000000

VARIABLES
  share,          \* _patterns before the ceiling: net i has 1/tdm = share[i]/total
  pst,            \* ordered_pst: [prio, tdm] of each net on the edge
  virtualSize,    \* nets the loop may lower
  n,              \* number of leading nets that are lowered together
  k,              \* position of the incremental refinement
  pc

vars == <<share, pst, virtualSize, n, k, pc>>

\* The patterns of LR share an edge out completely: their reciprocals add up to 1.
Init ==
  /\ \E size \in 1 .. MaxSize :
       /\ share \in [1 .. size -> 1 .. MaxShare]
       /\ \E p \in [1 .. size -> Prio] : pst = [i \in 1 .. size |-> [prio |-> p[i], tdm |-> 0]]
  /\ virtualSize = 0
  /\ n = 1
  /\ k = 1
  /\ pc = "ceil"

-----------------------------------------------------------------------------
\* std::ceil of a/b, and one more when that is odd.
EvenCeil(a, b) ==
  LET c == (a + b - 1) \div b IN c + (c % 2)

TakeCeiling ==
  /\ pc = "ceil"
  /\ pst' = [i \in DOMAIN pst |-> [pst[i] EXCEPT !.tdm = EvenCeil(SumFunction(share), share[i])]]
  /\ pc' = "check"
  /\ UNCHANGED <<share, virtualSize, n, k>>

\* The sum of the reciprocals in units of 1/Scale.
CheckSum(s) == SumFunction([i \in DOMAIN s |-> Scale \div s[i].tdm])

\* What the edge still has to give, up to TOL.
Margin == Scale - CheckSum(pst)

ReturnFull ==
  /\ pc = "check"
  /\ Margin <= 0
  /\ pc' = "done"
  /\ UNCHANGED <<share, pst, virtualSize, n, k>>

\* Smaller TDM first within a group (for mutation only).
BeforeAscending(x, y) == x.prio > y.prio \/ (x.prio = y.prio /\ x.tdm < y.tdm)

\* cmp: the net of the worse group first, then the greater TDM.
Before(x, y) == x.prio > y.prio \/ (x.prio = y.prio /\ x.tdm > y.tdm)

\* diff < 0.0023: the second group is close to the first.
CloseSecond(s) == (s[1].prio - s[2].prio) * 10000 < 23 * s[2].prio

Threshold(s) == IF Len(s) > 1 /\ CloseSecond(s) THEN s[2].prio ELSE s[1].prio

\* One more than the code has (for mutation only).
VirtualSizePlusOne(s) ==
  Min({Len(s)} \cup {i \in 1 .. Len(s) : i > 1 /\ s[i].prio < Threshold(s)})

\* Length of the prefix of nets at the rounding threshold or above.
VirtualSize(s) ==
  Min({Len(s)} \cup {i \in 1 .. Len(s) - 1 : s[i + 1].prio < Threshold(s)})

SortByPriority ==
  /\ pc = "check"
  /\ Margin > 0
  /\ pst' \in Sorted(pst, Before)
  /\ virtualSize' = VirtualSize(pst')
  /\ pc' = "loop"
  /\ UNCHANGED <<share, n, k>>

-----------------------------------------------------------------------------
(* while ( margin > 0 )                                                    *)

ReturnAtTwo ==
  /\ pc = "loop"
  /\ Margin > 0
  /\ pst[1].tdm = 2
  /\ pc' = "done"
  /\ UNCHANGED <<share, pst, virtualSize, n, k>>

\* n stays where it is (for mutation only).
LevelSizeStuck == n

\* n moves on over the nets that are level with the first.
LevelSize ==
  Min({m \in n .. virtualSize : m = virtualSize \/ pst[m + 1].tdm # pst[1].tdm})

\* decrement = Numerator / Denominator would use the margin up.
Numerator   == pst[1].tdm * pst[1].tdm * Margin
Denominator == LevelSize * Scale + pst[1].tdm * Margin

\* decrement > x_star: the leading nets come down to the next one, or up to it
\* when the first net stands below the second (x_star is negative then).
ReachesNext ==
  /\ LevelSize < virtualSize
  /\ Numerator > (pst[1].tdm - pst[LevelSize + 1].tdm) * Denominator

LevelWithNext ==
  /\ pc = "loop"
  /\ Margin > 0
  /\ pst[1].tdm # 2
  /\ ReachesNext
  /\ n' = LevelSize
  /\ pst' = [i \in DOMAIN pst |->
               IF i <= LevelSize THEN [pst[i] EXCEPT !.tdm = pst[LevelSize + 1].tdm] ELSE pst[i]]
  /\ UNCHANGED <<share, virtualSize, k, pc>>

\* An odd decrement made even upwards (for mutation only).
EvenDecrementUp == LET f == (Numerator - 1) \div Denominator IN f + (f % 2)

\* floor(decrement) made even.  TOL keeps the quotient strictly below itself.
EvenDecrement == LET f == (Numerator - 1) \div Denominator IN f - (f % 2)

\* The last pass of the loop; a decrement of 0 leaves it as well.
LowerLevel ==
  /\ pc = "loop"
  /\ Margin > 0
  /\ pst[1].tdm # 2
  /\ ~ReachesNext
  /\ n' = LevelSize
  /\ pst' = [i \in DOMAIN pst |->
               IF i <= LevelSize THEN [pst[i] EXCEPT !.tdm = @ - EvenDecrement] ELSE pst[i]]
  /\ pc' = "refine"
  /\ UNCHANGED <<share, virtualSize, k>>

-----------------------------------------------------------------------------
(* Incremental refinement.                                                 *)

LoweredAt(i) == [pst EXCEPT ![i].tdm = @ - 2]

\* newtdm = 0 makes the sum infinite, so that the loop breaks.
CanLower(i) == pst[i].tdm > 2 /\ CheckSum(LoweredAt(i)) < Scale

RefineNext ==
  /\ pc = "refine"
  /\ pst[1].tdm # 2 \/ k > 1
  /\ k <= Len(pst)
  /\ CanLower(k)
  /\ pst' = LoweredAt(k)
  /\ k' = k + 1
  /\ UNCHANGED <<share, virtualSize, n, pc>>

EndRefine ==
  /\ pc = "refine"
  /\ \/ k = 1 /\ pst[1].tdm = 2
     \/ k > Len(pst)
     \/ k <= Len(pst) /\ ~CanLower(k)
  /\ pc' = "done"
  /\ UNCHANGED <<share, pst, virtualSize, n, k>>

Done == pc = "done" /\ UNCHANGED vars

Next ==
  \/ TakeCeiling \/ ReturnFull \/ SortByPriority
  \/ ReturnAtTwo \/ LevelWithNext \/ LowerLevel
  \/ RefineNext \/ EndRefine
  \/ Done

\* One TBB task legalises the edge from start to end.
Spec == Init /\ [][Next]_vars /\ WF_vars(Next)

-----------------------------------------------------------------------------
(* Properties.                                                             *)

\* Types; a ratio is an even number from 2 to MaxTdm once it is ceiled.
TypeOK ==
  /\ pc \in {"ceil", "check", "loop", "refine", "done"}
  /\ n \in 1 .. Len(pst)
  /\ k \in 1 .. Len(pst) + 1
  /\ virtualSize \in 0 .. Len(pst)
  /\ \A i \in DOMAIN pst :
       /\ pst[i].prio \in Prio
       /\ pc # "ceil" => pst[i].tdm \in 2 .. MaxTdm /\ pst[i].tdm % 2 = 0

\* The constraint of the problem: the reciprocals of the TDM ratios on an edge
\* never add up to more than 1, at no point of the legalisation; and the loop
\* never runs out of margin by itself.  Ratios stay even and at least 2.
RatioConstraint ==
  /\ TypeOK
  /\ pc # "ceil" => CheckSum(pst) <= Scale
  /\ pc \in {"loop", "refine"} => CheckSum(pst) < Scale

\* The legaliser lowers ratios.  The only net it ever raises is the first, and
\* only when the threshold was lowered to a second group and that net, alone in
\* the worst group, had the smaller ratio.
LeaderBelowClose(i) == i = 1 /\ n = 1 /\ pst[1].prio > pst[2].prio /\ CloseSecond(pst)
OnlyLeaderRises ==
  [][ (pc \in {"loop", "refine"}) =>
        \A i \in DOMAIN pst : pst'[i].tdm > pst[i].tdm => LeaderBelowClose(i) ]_vars

\* A net outside the worst group, and outside the second worst when that is
\* close to it, keeps its ratio until the refinement.
MayBeLowered(i) ==
  \/ pst[i].prio = pst[1].prio
  \/ CloseSecond(pst) /\ pst[i].prio = pst[2].prio
LowPriorityLast ==
  [][ pc = "loop" => \A i \in DOMAIN pst : MayBeLowered(i) \/ pst'[i] = pst[i] ]_vars

\* Legalisation of an edge ends.
EventuallyDone == <>(pc = "done")

\* LR.cpp:295 explains the early return of the loop: "the max tdm on the edge
\* is 2, which means that there is no space left for improvement".
ReturnMeansNoSpace ==
  [][ pc = "loop" /\ pc' = "done" => \A i \in DOMAIN pst : ~CanLower(i) ]_vars
=============================================================================
