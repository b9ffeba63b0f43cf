------------------------------ MODULE Pipeline ------------------------------
(***************************************************************************)
(* main(): the options, the phases of mgr::Run in batch mode, and the mode *)
(* that takes the trees from a topology file.  The program keeps nothing   *)
(* between two runs but its output file, which a later run may read as its *)
(* topology file.  A run can be killed at any time, get fewer threads than *)
(* it asks for, and leave a part of its file only.                         *)
(*                                                                         *)
(* The phases themselves are detailed in modules of their own: here the    *)
(* routers give each net they serve any tree it could have, and the        *)
(* assigners give every tree on an edge any even ratio, or stop as         *)
(* LrOptimizer and TdmHeuristic say they do.                               *)
(***************************************************************************)
EXTENDS Lists

CONSTANTS
  NetNum,        \* nets 1 .. NetNum in the order of the file
  Edge,
  Inputs,        \* [group: net sequences, trees: edge sets a net can have, targets: numbers]
  CommandLines,  \* [help, input, output, topology, thread, method, refine, release, ripUp],
                 \* given: edge numbers of the nets in the file named, if it is another one,
                 \* limit: the threads the system delivers at most
  Listings,      \* what can be read for a net behind the end of a cut file
  Ratios,        \* even ratios in use
  MaxRuns        \* bound of the model: how often the program is started

Net == 1 .. NetNum
MAXTHREAD == 8

ASSUME PipelineAssumption ==
  /\ NetNum \in Nat \ {0} /\ IsFiniteSet(Edge)
  /\ \A r \in Ratios : r \in Nat /\ r >= 2 /\ r % 2 = 0
  /\ \A in \in Inputs : in.group \in Seq(Seq(Net))
  /\ \A in \in Inputs : \A n \in Net : in.trees[n] \subseteq SUBSET Edge /\ in.trees[n] # {}
  /\ \A c \in CommandLines : /\ c.output \in {"None", "writable", "locked"} /\ c.thread \in Int
                             /\ c.topology \in {"None", "missing", "written", "given"}
                             /\ c.given \in [Net -> Seq(Int)] /\ c.limit \in Nat \ {0}
  /\ Listings \subseteq Seq(Int)

VARIABLES
  input,         \* the input file
  outFile,       \* the output file: its whole nets, each with its lines <<edge, ratio>>
  cmd,           \* the command line of this run
  tree,          \* _topologies
  passing,       \* nets with the flag set on an edge
  ratio,         \* ratios in _passingTrees
  groupTDMs,     \* mgr::_group_TDMs
  round,         \* rounds of rip-up done
  runs,          \* programs started
  written,       \* the trees of the run that wrote outFile; empty if there is no such file
  fullTeam,      \* that run had all the threads it asked for
  pc

tables == <<tree, passing, ratio, groupTDMs, round>>
disk == <<outFile, written, fullTeam>>
vars == <<input, disk, cmd, tables, runs, pc>>

Gid == DOMAIN input.group
Grouped == UNION {ToSet(input.group[g]) : g \in Gid}

\* The program has left main(), or was stopped, by an assertion, by something undefined,
\* or by either of them because LR lost a multiplier to underflow.
Ended == {"exit", "failed", "aborted", "undefined", "underflow"}

EmptyTables ==
  /\ tree' = [n \in Net |-> <<>>]
  /\ passing' = [e \in Edge |-> {}]
  /\ ratio' = [e \in Edge |-> [n \in Net |-> 0]]
  /\ groupTDMs' = <<>>
  /\ round' = 0

Init ==
  /\ input \in Inputs
  /\ outFile = <<>> /\ written = <<>> /\ fullTeam = FALSE
  /\ cmd \in CommandLines
  /\ tree = [n \in Net |-> <<>>]
  /\ passing = [e \in Edge |-> {}]
  /\ ratio = [e \in Edge |-> [n \in Net |-> 0]]
  /\ groupTDMs = <<>> /\ round = 0
  /\ runs = 1
  /\ pc = "parse"

\* The same program again, on the same input file; if it still runs, it is killed.
Restart ==
  /\ runs < MaxRuns
  /\ runs' = runs + 1
  /\ cmd' \in CommandLines
  /\ EmptyTables
  /\ pc' = "parse"
  /\ UNCHANGED <<input, disk>>

-----------------------------------------------------------------------------
\* The upper bound alone (for mutation only).
CappedThreadNum == Min({MAXTHREAD, cmd.thread})

\* OptionMgr::ThreadNum: bounded from above only, but forced by --release.
ThreadNum == IF cmd.release THEN 8 ELSE Min({MAXTHREAD, cmd.thread})
TDMrefinement == cmd.release \/ cmd.refine

\* main() returns 0 when the options are refused.
ParseArguments ==
  /\ pc = "parse"
  /\ pc' = IF cmd.help \/ cmd.input = "None" \/ cmd.output = "None" THEN "exit" ELSE "read"
  /\ UNCHANGED <<input, disk, cmd, tables, runs>>

AfterRead == IF cmd.topology = "None" THEN "route" ELSE "topology"

ReadInfile ==
  /\ pc = "read"
  /\ pc' = IF cmd.input = "missing" THEN "failed" ELSE AfterRead
  /\ UNCHANGED <<input, disk, cmd, tables, runs>>

\* add_tree_to_edge for the nets of N once the trees are t.
FlagsFor(t, N, flags) == [e \in Edge |-> flags[e] \cup {n \in N : e \in ToSet(t[n])}]

\* Trees for the nets of N from `allowed', the edges in any order.
NewTrees(N, allowed) ==
  {t \in [Net -> UNION {SetToSeqs(P) : P \in UNION {allowed[n] : n \in N}} \cup Range(tree)] :
     \A n \in Net : IF n \in N THEN \E P \in allowed[n] : t[n] \in SetToSeqs(P) ELSE t[n] = tree[n]}

\* The ratio is taken for the edge (for mutation only).
ReadLinesSecond(lines) == [i \in DOMAIN lines |-> lines[i][2]]

\* Of a line of the topology file the first number counts.
ReadLines(lines) == [i \in DOMAIN lines |-> lines[i][1]]

\* The file named is the output file, and there is one.
OutFileNamed == cmd.topology = "written" /\ written # <<>>

\* What read_topology finds, net by net: in a cut file anything behind its whole nets.
TreesInFile ==
  CASE OutFileNamed ->
         {t \in [Net -> Listings \cup {ReadLines(outFile[n]) : n \in DOMAIN outFile}] :
            \A n \in DOMAIN outFile : t[n] = ReadLines(outFile[n])}
    [] cmd.topology = "given" -> {cmd.given}
    [] OTHER -> {tree}        \* it cannot be opened, which goes unnoticed

\* No table has a row for such an edge.  (Neither is there an edge number in an empty
\* line, for which str2ints has no room.)
NamesForeignEdge(t) == \E n \in Net : \E e \in ToSet(t[n]) : e \notin Edge
NamesEdgeTwice(t) == \E n \in Net : ~IsInjective(t[n])

\* add_tree_to_edge asserts that no edge comes twice.
ReadTopology ==
  /\ pc = "topology"
  /\ \E t \in TreesInFile :
       \/ NamesForeignEdge(t) /\ pc' = "undefined" /\ UNCHANGED <<tree, passing>>
       \/ NamesEdgeTwice(t) /\ pc' = "aborted" /\ UNCHANGED <<tree, passing>>
       \/ /\ ~NamesForeignEdge(t) /\ ~NamesEdgeTwice(t)
          /\ tree' = t
          /\ passing' = FlagsFor(t, Net, passing)
          /\ pc' = "assign"
  /\ UNCHANGED <<input, disk, cmd, ratio, groupTDMs, round, runs>>

-----------------------------------------------------------------------------
\* The nets dealt to lanes that have a thread: how many, in whatever order they are dealt.
Served ==
  LET dealt == {i \in 0 .. Cardinality(Grouped) - 1 : i % ThreadNum < cmd.limit}
  IN  {N \in SUBSET Grouped : Cardinality(N) = Cardinality(dealt)}

\* mgr::Run.  MST asserts that a net has a target, getParallelNetOrder divides
\* by the number of lanes; nets of no group, or dealt to a lane without a thread, are
\* not routed.
GroupRoute ==
  /\ pc = "route"
  /\ IF \E n \in Net : input.targets[n] = 0
       THEN pc' = "aborted" /\ UNCHANGED <<tree, passing>>
       ELSE IF ThreadNum < 1 THEN pc' = "undefined" /\ UNCHANGED <<tree, passing>>
       ELSE /\ \E N \in Served : tree' \in NewTrees(N, input.trees)
            /\ passing' = FlagsFor(tree', Net, passing)
            /\ pc' = "ripup"
  /\ UNCHANGED <<input, disk, cmd, ratio, groupTDMs, round, runs>>

HasImportance(g) == \E n \in ToSet(input.group[g]) : tree[n] # <<>>

\* delete_passing_tree for the old trees of the nets of N.
Cleared(N) == [e \in Edge |-> {n \in passing[e] : n \notin N \/ e \notin ToSet(tree[n])}]

\* The new trees are not entered (for mutation only).
ReroutedFlagsOld(t, N) == Cleared(N)

ReroutedFlags(t, N) == FlagsFor(t, N, Cleared(N))

\* One round: the nets of a group get new trees.  Without a group of positive
\* importance the group index is -1.
RipUpReroute ==
  /\ pc = "ripup" /\ round < cmd.ripUp
  /\ round' = round + 1
  /\ \/ /\ \A g \in Gid : ~HasImportance(g)
        /\ pc' = "undefined" /\ UNCHANGED <<tree, passing>>
     \/ \E g \in Gid :
          /\ HasImportance(g)
          /\ tree' \in NewTrees(ToSet(input.group[g]), input.trees)
          /\ passing' = ReroutedFlags(tree', ToSet(input.group[g]))
          /\ pc' = pc
  /\ UNCHANGED <<input, disk, cmd, ratio, groupTDMs, runs>>

RoutingDone ==
  /\ pc = "ripup" /\ round >= cmd.ripUp
  /\ pc' = "assign"
  /\ UNCHANGED <<input, disk, cmd, tables, runs>>

-----------------------------------------------------------------------------
HasTree(n) == tree[n] # <<>>
Unpriced(n) == ~\E g \in Gid : n \in ToSet(input.group[g]) /\ HasImportance(g)

\* Group g mentions every net at least as often as any other group does.
Mentions(g, n) == Cardinality({i \in DOMAIN input.group[g] : input.group[g][i] = n})
Dominant(g) == \A h \in Gid, n \in Net : Mentions(h, n) <= Mentions(g, n)

\* A net has no group whose multiplier is sure to stay.
MayLoseWeight == \E n \in Net : \A g \in Gid : n \in ToSet(input.group[g]) => ~Dominant(g)

\* LR: the assertion on _lambdaT for a net without a group, at once, or with groups of
\* empty trees, after a step, or when multipliers have vanished.  NaNs let it pass when
\* all trees are empty.
LrOutcomes ==
  IF \/ Grouped # Net
     \/ (\E n \in Net : Unpriced(n)) /\ (\E n \in Net : HasTree(n))
  THEN {"aborted"}
  ELSE {"report"} \cup {o \in {"underflow"} : MayLoseWeight /\ \E n \in Net : HasTree(n)}

\* Heuristic: a flagged net without a group has weight 0, _group_TDMs[2] is read.
HeuristicOutcomes ==
  IF (\E n \in Net : HasTree(n) /\ Unpriced(n)) \/ (TDMrefinement /\ Len(input.group) < 3)
  THEN {"undefined"} ELSE {"report"}

AssignOutcomes == CASE cmd.method = 1 -> LrOutcomes
                    [] cmd.method = 0 -> HeuristicOutcomes
                    [] OTHER -> {"aborted"}

\* apply(): by the flags, not by the trees.
AssignTDM ==
  /\ pc = "assign"
  /\ pc' \in AssignOutcomes
  /\ IF pc' # "report" THEN UNCHANGED ratio
     ELSE \E r \in [{p \in Edge \X Net : p[2] \in passing[p[1]]} -> Ratios] :
            ratio' = [e \in Edge |-> [n \in Net |->
                       IF n \in passing[e] THEN r[<<e, n>>] ELSE ratio[e][n]]]
  /\ UNCHANGED <<input, disk, cmd, tree, passing, groupTDMs, round, runs>>

-----------------------------------------------------------------------------
CalcTDM(n) == SumFunction([i \in DOMAIN tree[n] |-> ratio[tree[n][i]][n]])

\* A net counts once in a group (for mutation only).
GroupTDMOnce(g) == MapThenSumSet(CalcTDM, ToSet(input.group[g]))

GroupTDM(g) == SumFunction([i \in DOMAIN input.group[g] |-> CalcTDM(input.group[g][i])])

\* print_group_info reads three groups from either end; CalcTDM asserts the flags.
ReportResult ==
  /\ pc = "report"
  /\ IF cmd.release THEN groupTDMs' = <<>> /\ pc' = "output"
     ELSE IF \E n \in Net : \E e \in ToSet(tree[n]) : n \notin passing[e]
       THEN groupTDMs' = <<>> /\ pc' = "aborted"
     ELSE /\ groupTDMs' \in Sorted([g \in Gid |-> <<g, GroupTDM(g)>>], LAMBDA x, y : x[2] > y[2])
          /\ pc' = IF Len(input.group) < 3 THEN "undefined" ELSE "output"
  /\ UNCHANGED <<input, disk, cmd, tree, passing, ratio, round, runs>>

Lines(n) == [i \in DOMAIN tree[n] |-> <<tree[n][i], ratio[tree[n][i]][n]>>]

\* A file that cannot be opened, or filled, is not noticed; a topology run writes none.
OutputResult ==
  /\ pc = "output"
  /\ IF cmd.topology = "None" /\ cmd.output = "writable"
       THEN /\ \E whole \in 0 .. NetNum : outFile' = [n \in 1 .. whole |-> Lines(n)]
            /\ written' = tree /\ fullTeam' = (cmd.limit >= ThreadNum)
       ELSE UNCHANGED disk
  /\ pc' = "exit"
  /\ UNCHANGED <<input, cmd, tables, runs>>

Finished == pc \in Ended /\ runs = MaxRuns /\ UNCHANGED vars

Next ==
  \/ Restart \/ ParseArguments \/ ReadInfile \/ ReadTopology
  \/ GroupRoute \/ RipUpReroute \/ RoutingDone \/ AssignTDM
  \/ ReportResult \/ OutputResult \/ Finished

Spec == Init /\ [][Next]_vars

-----------------------------------------------------------------------------
\* What the program takes for granted: a known method, three groups (one, when
\* nothing is reported and LR assigns), every net in a group, with a target,
\* between different FPGAs, a thread unless --release sets their number, topology files
\* without foreign or repeated edges, and output files that are whole.  LR needs a tree
\* for every net, and the router thereby all its threads.
Preconditions ==
  /\ cmd.method \in {0, 1}
  /\ Len(input.group) >= 3 \/ (cmd.release /\ cmd.method = 1 /\ input.group # <<>>)
  /\ Grouped = Net
  /\ \A n \in Net : {} \notin input.trees[n]
  /\ cmd.topology = "None" =>
       /\ \A n \in Net : input.targets[n] > 0
       /\ cmd.release \/ cmd.thread >= 1
       /\ cmd.method = 1 => cmd.limit >= ThreadNum
  /\ cmd.topology = "given" =>
       /\ ~NamesForeignEdge(cmd.given) /\ ~NamesEdgeTwice(cmd.given)
       /\ cmd.method = 1 => \A n \in Net : cmd.given[n] # <<>>
  /\ OutFileNamed =>
       /\ DOMAIN outFile = Net
       /\ cmd.method = 1 => \A n \in Net : outFile[n] # <<>>

\* No assertion fails and nothing undefined is met on inputs and options within
\* these preconditions, in either mode, after a rip-up as before, and also
\* when the topology file cannot be opened, but in LR by underflow; and that
\* only if the groups are such that a net has none that mentions all nets as
\* often as any group does.
StopsOutsidePreconditions ==
  /\ pc \in {"aborted", "undefined"} => ~Preconditions
  /\ pc = "underflow" => cmd.method = 1 /\ MayLoseWeight

\* A run that reads the file an earlier run wrote continues with the very trees
\* that run had, edge by edge in their order, of all nets the file holds if it
\* was cut, and with flags that agree.
ReadsBackTrees == pc = "assign" /\ OutFileNamed =>
  /\ \A n \in DOMAIN outFile : tree[n] = written[n]
  /\ \A e \in Edge : passing[e] = {n \in Net : e \in ToSet(tree[n])}

InFile(n) == SumFunction([i \in DOMAIN outFile[n] |-> outFile[n][i][2]])

\* The report and the file of a run agree if the file is whole: a group's TDM is the sum over its
\* mentions of the ratios in the lines of the net, the largest group first.
ReportMatchesFile ==
  pc = "exit" /\ groupTDMs # <<>> /\ cmd.topology = "None" /\ cmd.output = "writable"
      /\ DOMAIN outFile = Net =>
    /\ \A i \in DOMAIN groupTDMs :
         LET nets == input.group[groupTDMs[i][1]]
         IN  groupTDMs[i][2] = SumFunction([k \in DOMAIN nets |-> InFile(nets[k])])
    /\ \A i, j \in DOMAIN groupTDMs : i < j => groupTDMs[i][2] >= groupTDMs[j][2]

\* Every line of the file has a ratio that was assigned, although the lines go
\* by the trees and the assigners by the flags; every grouped net between
\* different FPGAs has a line in what there is of the file, if the run that wrote
\* it had its threads.
EveryLinePriced == written # <<>> => \A n \in DOMAIN outFile :
  /\ \A i \in DOMAIN outFile[n] : outFile[n][i][2] \in Ratios
  /\ fullTeam /\ n \in Grouped /\ {} \notin input.trees[n] => outFile[n] # <<>>
=============================================================================
