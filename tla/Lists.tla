-------------------------------- MODULE Lists --------------------------------
(***************************************************************************)
(* The orders std::sort may leave a list in, and the order of the ids.     *)
(***************************************************************************)
EXTENDS Integers, SequencesExt

\* std::sort(first, last, before): elements that are not before one another may end
\* up either way round.
Sorted(s, before(_, _)) ==
  {[i \in DOMAIN s |-> s[p[i]]] :
     p \in {q \in Injection(DOMAIN s, DOMAIN s) :
              \A i, j \in DOMAIN s : i < j => ~before(s[q[j]], s[q[i]])}}

\* The position of a number in a set of numbers.
Rank(S, x) == Cardinality({y \in S : y <= x})

\* The numbers of a set in ascending order.
Ascending(S) == [i \in 1 .. Cardinality(S) |-> CHOOSE x \in S : Rank(S, x) = i]
=============================================================================
