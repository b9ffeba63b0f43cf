----------------------------- MODULE MCNetOrder -----------------------------
(***************************************************************************)
(* NetOrder on up to four nets: every way to fill two groups with one or   *)
(* two mentions, beside a fixed third group that all nets may overlap.     *)
(***************************************************************************)
EXTENDS NetOrder, TLC

CONSTANTS n1, n2, n3, n4

MCGroups ==
  LET lists == {s \in BoundedSeq(Net, 2) : s # <<>>}
      third == {<<n1, n2, n1>>, <<n3, n4>>, <<n2, n3, n4, n1>>}
  IN  {f \in [Gid -> lists \cup third] : f[0] \in lists /\ f[1] \in lists /\ f[2] \in third}

\* n2 and n3 tie, so that std::sort has a choice.
MCMstCost == (n1 :> 1) @@ (n2 :> 2) @@ (n3 :> 2) @@ (n4 :> 4)
=============================================================================
