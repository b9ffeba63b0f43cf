---------------------------- MODULE PipelineProofs ----------------------------
(***************************************************************************)
(* Proofs about the pipeline, for every input within PipelineAssumption,   *)
(* every set of command lines and every number of runs in a row.           *)
(***************************************************************************)
EXTENDS Pipeline, SetFacts, SequenceTheorems

-----------------------------------------------------------------------------
(* The inductive invariant.                                                *)

TypeOK ==
  /\ input \in Inputs /\ cmd \in CommandLines
  /\ tree \in [Net -> Seq(Edge)] /\ \A n \in Net : IsInjective(tree[n])

\* The flags of every edge are those of the trees, whoever made them.
FlagsAgree == passing = [e \in Edge |-> {n \in Net : e \in ToSet(tree[n])}]

NoTrees == \A n \in Net : tree[n] = <<>>

\* A run either routes or reads the topology file, and has no trees before.
ModeKept ==
  /\ pc \in {"route", "ripup"} => cmd.topology = "None"
  /\ pc = "topology" => cmd.topology # "None"
  /\ pc \in {"parse", "read", "topology", "route"} => NoTrees

\* A grouped net between different FPGAs keeps some tree once it has been routed, with
\* all threads; with fewer, not all nets are without one.
RoutedTrees ==
  pc \in {"ripup", "assign", "report", "output"} /\ cmd.topology = "None" =>
    /\ cmd.limit >= ThreadNum => \A n \in Grouped : {} \notin input.trees[n] => tree[n] # <<>>
    /\ Grouped # {} /\ (\A n \in Grouped : {} \notin input.trees[n]) =>
         \E n \in Grouped : tree[n] # <<>>

\* A topology file that cannot be opened leaves no trees; the one written before leaves
\* those of the run that wrote it as far as it goes, another one leaves its own.
TreesRead == pc = "assign" =>
  /\ cmd.topology = "missing" \/ (cmd.topology = "written" /\ ~OutFileNamed) => NoTrees
  /\ OutFileNamed => \A n \in DOMAIN outFile : tree[n] = written[n]
  /\ cmd.topology = "given" => tree = cmd.given

\* After the assignment every flag has a ratio.
FlagsPriced ==
  pc \in {"report", "output"} => \A e \in Edge : \A n \in passing[e] : ratio[e][n] \in Ratios

\* The file shows the trees of the run that wrote it, edge by edge, priced.
FileOfTrees == written # <<>> =>
  /\ written \in [Net -> Seq(Edge)] /\ \A n \in Net : IsInjective(written[n])
  /\ DOMAIN outFile \subseteq Net
  /\ \A n \in DOMAIN outFile :
       /\ outFile[n] = [i \in DOMAIN written[n] |-> outFile[n][i]]
       /\ \A i \in DOMAIN written[n] : /\ outFile[n][i][1] = written[n][i]
                                       /\ outFile[n][i][2] \in Ratios
  /\ fullTeam => \A n \in Grouped : {} \notin input.trees[n] => written[n] # <<>>

IInv ==
  /\ TypeOK /\ FlagsAgree /\ ModeKept /\ RoutedTrees /\ TreesRead
  /\ FlagsPriced /\ FileOfTrees /\ StopsOutsidePreconditions

-----------------------------------------------------------------------------
(* What the handlers make of trees and flags.                              *)

\* The members of a group are nets.
LEMMA GroupedNets ==
  ASSUME input \in Inputs
  PROVE  /\ Grouped \subseteq Net /\ Len(input.group) \in Nat
         /\ \A g \in Gid : ToSet(input.group[g]) \subseteq Net
         /\ \A n \in Net : input.trees[n] \subseteq SUBSET Edge
<1>1. input.group \in Seq(Seq(Net)) /\ \A n \in Net : input.trees[n] \subseteq SUBSET Edge
  BY PipelineAssumption
<1>2. Len(input.group) \in Nat /\ \A g \in Gid : input.group[g] \in Seq(Net)
  BY <1>1, LenProperties, ElementOfSeq DEF Gid
<1>3. ASSUME NEW g \in Gid PROVE ToSet(input.group[g]) \subseteq Net
  BY <1>2, ElementOfSeq, LenProperties DEF ToSet
<1> QED
  BY <1>1, <1>2, <1>3 DEF Grouped

\* The smaller of two numbers is one of them.
LEMMA MinOfTwo ==
  ASSUME NEW a \in Int, NEW b \in Int
  PROVE  Min({a, b}) \in {a, b}
<1>1. \E x \in {a, b} : \A y \in {a, b} : x <= y
  BY a <= b \/ b <= a
<1> QED
  BY <1>1 DEF Min

\* The number of lanes is an integer, and positive if --release or --thread says so.
LEMMA ThreadNumFacts ==
  ASSUME cmd \in CommandLines
  PROVE  /\ cmd.limit \in Nat \ {0} /\ cmd.thread \in Int /\ ThreadNum \in Int
         /\ cmd.release \/ cmd.thread >= 1 => ThreadNum >= 1
<1>1. cmd.limit \in Nat \ {0} /\ cmd.thread \in Int
  BY PipelineAssumption
<1>2. Min({MAXTHREAD, cmd.thread}) \in {MAXTHREAD, cmd.thread} /\ MAXTHREAD = 8
  BY <1>1, MinOfTwo DEF MAXTHREAD
<1> QED
  BY <1>1, <1>2 DEF ThreadNum

\* What the program takes for granted depends on input, disk and command line alone.
LEMMA PreconditionsKept ==
  ASSUME UNCHANGED <<input, disk, cmd>>
  PROVE  /\ Preconditions' = Preconditions /\ MayLoseWeight' = MayLoseWeight
         /\ Grouped' = Grouped /\ ThreadNum' = ThreadNum
         /\ (OutFileNamed' <=> OutFileNamed)
<1>1. UNCHANGED <<input, outFile, written, fullTeam, cmd>>
  BY DEF disk
<1>2. Gid' = Gid /\ Grouped' = Grouped /\ ThreadNum' = ThreadNum
  BY <1>1 DEF Gid, Grouped, ThreadNum
<1>3. OutFileNamed' <=> OutFileNamed
  BY <1>1 DEF OutFileNamed
<1>4. \A g : Dominant(g)' = Dominant(g)
  BY <1>1, <1>2 DEF Dominant, Mentions
<1>5. MayLoseWeight' = MayLoseWeight
  BY <1>1, <1>2, <1>4 DEF MayLoseWeight
<1>6. NamesForeignEdge(cmd.given)' = NamesForeignEdge(cmd.given)
      /\ NamesEdgeTwice(cmd.given)' = NamesEdgeTwice(cmd.given)
  BY <1>1 DEF NamesForeignEdge, NamesEdgeTwice
<1>7. Preconditions' = Preconditions
  BY <1>1, <1>2, <1>3, <1>6 DEF Preconditions
<1> QED
  BY <1>2, <1>3, <1>5, <1>7

\* The file shows what it showed before.
LEMMA FileKept ==
  ASSUME FileOfTrees, UNCHANGED <<input, disk>>
  PROVE  FileOfTrees'
<1>1. UNCHANGED <<input, outFile, written, fullTeam>>
  BY DEF disk
<1>2. Grouped' = Grouped
  BY <1>1 DEF Grouped, Gid
<1> QED
  BY <1>1, <1>2 DEF FileOfTrees

\* New trees: those of the nets asked for are among the allowed ones, no edge twice, and
\* empty only if that is allowed; the others stay.
LEMMA NewTreesFacts ==
  ASSUME tree \in [Net -> Seq(Edge)], \A n \in Net : IsInjective(tree[n]),
         NEW N \in SUBSET Net, NEW allowed,
         \A n \in N : allowed[n] \subseteq SUBSET Edge,
         NEW t \in NewTrees(N, allowed)
  PROVE  /\ t \in [Net -> Seq(Edge)] /\ \A n \in Net : IsInjective(t[n])
         /\ \A n \in Net \ N : t[n] = tree[n]
         /\ \A n \in N : {} \notin allowed[n] => t[n] # <<>>
<1>1. /\ t \in [Net -> UNION {SetToSeqs(P) : P \in UNION {allowed[n] : n \in N}} \cup Range(tree)]
      /\ \A n \in N : \E P \in allowed[n] : t[n] \in SetToSeqs(P)
      /\ \A n \in Net \ N : t[n] = tree[n]
  BY DEF NewTrees
<1>2. ASSUME NEW n \in N
      PROVE  t[n] \in Seq(Edge) /\ IsInjective(t[n]) /\ ({} \notin allowed[n] => t[n] # <<>>)
  <2>1. PICK P \in allowed[n] : t[n] \in SetToSeqs(P)
    BY <1>1
  <2>2. P \subseteq Edge /\ IsFiniteSet(P)
    BY PipelineAssumption, FS_Subset
  <2>3. Cardinality(P) \in Nat /\ (Cardinality(P) = 0 <=> P = {})
    BY <2>2, FS_CardinalityType, FS_EmptySet
  <2>4. t[n] \in [1 .. Cardinality(P) -> P]
    BY <2>1 DEF SetToSeqs
  <2>5. t[n] \in Seq(P) /\ Len(t[n]) = Cardinality(P)
    <3> DEFINE k == Cardinality(P)
               s == t[n]
    <3>1. k \in Nat /\ s \in [1 .. k -> P]
      BY <2>3, <2>4
    <3> HIDE DEF k, s
    <3>2. s \in Seq(P) /\ Len(s) = k
      BY <3>1, IsASeq, LenProperties
    <3> QED
      BY <3>2 DEF k, s
  <2>6. t[n] \in Seq(Edge)
    BY <2>2, <2>5, SeqMonotonic
  <2>7. {} \notin allowed[n] => t[n] # <<>>
    BY <2>3, <2>5, EmptySeq
  <2>8. IsInjective(t[n])
    <3> DEFINE D == 1 .. Cardinality(P)
               s == t[n]
    <3>1. s \in [D -> P] /\ \A i, j \in D : i # j => s[i] # s[j]
      BY <2>1 DEF SetToSeqs
    <3> HIDE DEF D, s
    <3>2. IsInjective(s)
      BY <3>1 DEF IsInjective
    <3> QED
      BY <3>2 DEF s
  <2> QED
    BY <2>6, <2>7, <2>8
<1>3. \A n \in Net : t[n] \in Seq(Edge) /\ IsInjective(t[n])
  BY <1>1, <1>2
<1> QED
  BY <1>1, <1>2, <1>3

\* add_tree_to_edge after delete_passing_tree keeps flags and trees together.
LEMMA ReroutedAgree ==
  ASSUME FlagsAgree, NEW N \in SUBSET Net, NEW t,
         \A n \in Net \ N : t[n] = tree[n]
  PROVE  ReroutedFlags(t, N) = [e \in Edge |-> {n \in Net : e \in ToSet(t[n])}]
<1>1. ASSUME NEW e \in Edge
      PROVE  Cleared(N)[e] \cup {n \in N : e \in ToSet(t[n])} = {n \in Net : e \in ToSet(t[n])}
  BY DEF Cleared, FlagsAgree
<1> HIDE DEF FlagsAgree
<1> QED
  BY <1>1, Zenon DEF ReroutedFlags, FlagsFor

\* So does add_tree_to_edge alone where there were no trees.
LEMMA FirstFlagsAgree ==
  ASSUME FlagsAgree, NoTrees, NEW N \in SUBSET Net, NEW t,
         \A n \in Net \ N : t[n] = tree[n]
  PROVE  FlagsFor(t, N, passing) = [e \in Edge |-> {n \in Net : e \in ToSet(t[n])}]
<1>1. \A e \in Edge : passing[e] = {}
  BY EmptySeq DEF FlagsAgree, NoTrees, ToSet
<1>2. \A n \in Net \ N : ToSet(t[n]) = {}
  BY EmptySeq DEF NoTrees, ToSet
<1>3. ASSUME NEW e \in Edge
      PROVE  passing[e] \cup {n \in N : e \in ToSet(t[n])} = {n \in Net : e \in ToSet(t[n])}
  BY <1>1, <1>2
<1> QED
  BY <1>3, Zenon DEF FlagsFor

\* What is read of a file named, and written before, are the lines of its whole nets.
LEMMA WrittenRead ==
  ASSUME OutFileNamed
  PROVE  TreesInFile = {t \in [Net -> Listings \cup {ReadLines(outFile[n]) : n \in DOMAIN outFile}] :
                          \A n \in DOMAIN outFile : t[n] = ReadLines(outFile[n])}
<1>1. cmd.topology # "given"
  BY DEF OutFileNamed
<1> QED
  BY <1>1, Zenon DEF TreesInFile

\* The nets that the output file holds are read as they were written.
LEMMA ReadBackNets ==
  ASSUME IInv, OutFileNamed, NEW t \in TreesInFile, NEW n \in DOMAIN outFile
  PROVE  n \in Net /\ t[n] = written[n]
<1>1. t[n] = ReadLines(outFile[n])
  BY WrittenRead
<1>2. n \in Net /\ written[n] \in Seq(Edge) /\ DOMAIN outFile[n] = DOMAIN written[n]
      /\ \A i \in DOMAIN written[n] : outFile[n][i][1] = written[n][i]
  BY DEF IInv, FileOfTrees, OutFileNamed
<1>3. written[n] = [i \in DOMAIN written[n] |-> written[n][i]]
  BY <1>2, LenProperties
<1>4. ReadLines(outFile[n]) = [i \in DOMAIN written[n] |-> outFile[n][i][1]]
  BY <1>2 DEF ReadLines
<1> QED
  BY <1>1, <1>2, <1>3, <1>4, Zenon

\* The trees read have the shape of trees if no foreign edge is among them, and are
\* those of the file named.
LEMMA ReadTrees ==
  ASSUME IInv, cmd.topology # "None", NEW t \in TreesInFile, NoTrees
  PROVE  /\ ~NamesForeignEdge(t) => t \in [Net -> Seq(Edge)]
         /\ cmd.topology = "missing" \/ (cmd.topology = "written" /\ ~OutFileNamed) => t = tree
         /\ OutFileNamed => \A n \in DOMAIN outFile : t[n] = written[n]
         /\ cmd.topology = "given" => t = cmd.given
<1>1. cmd \in CommandLines /\ cmd.topology \in {"None", "missing", "written", "given"}
      /\ cmd.given \in [Net -> Seq(Int)] /\ Listings \subseteq Seq(Int)
  BY PipelineAssumption DEF IInv, TypeOK
<1>2. ASSUME t \in [Net -> Seq(Int)], ~NamesForeignEdge(t) PROVE t \in [Net -> Seq(Edge)]
  <2>1. ASSUME NEW n \in Net PROVE t[n] \in Seq(Edge)
    <3> DEFINE u == t[n]
    <3>1. u \in Seq(Int) /\ \A e \in ToSet(u) : e \in Edge
      BY <1>2 DEF NamesForeignEdge
    <3> HIDE DEF u
    <3>2. Len(u) \in Nat /\ u \in [1 .. Len(u) -> Int] /\ DOMAIN u = 1 .. Len(u)
      BY <3>1, LenProperties
    <3>3. \A i \in 1 .. Len(u) : u[i] \in Edge
      BY <3>1, <3>2 DEF ToSet
    <3>4. u \in [1 .. Len(u) -> Edge]
      BY <3>2, <3>3
    <3>5. u \in Seq(Edge)
      BY <3>2, <3>4, IsASeq
    <3> QED
      BY <3>5 DEF u
  <2> QED
    BY <1>2, <2>1
<1>3. CASE OutFileNamed
  <2>1. cmd.topology = "written"
    BY <1>3 DEF OutFileNamed
  <2>2. \A n \in DOMAIN outFile : n \in Net /\ t[n] = written[n]
    BY <1>3, ReadBackNets
  <2>3. \A n \in Net : n \in DOMAIN outFile => t[n] \in Seq(Edge)
    BY <1>3, <2>2 DEF IInv, FileOfTrees, OutFileNamed
  <2>4. t \in [Net -> Listings \cup {ReadLines(outFile[n]) : n \in DOMAIN outFile}]
    BY <1>3, WrittenRead
  <2>5. ASSUME NEW n \in Net, ~NamesForeignEdge(t) PROVE t[n] \in Seq(Edge)
    <3> DEFINE u == t[n]
    <3>1. \A e \in ToSet(u) : e \in Edge
      BY <2>5 DEF NamesForeignEdge
    <3>2. CASE u \in Seq(Int)
      <4> HIDE DEF u
      <4>1. Len(u) \in Nat /\ u \in [1 .. Len(u) -> Int] /\ DOMAIN u = 1 .. Len(u)
        BY <3>2, LenProperties
      <4>2. \A i \in 1 .. Len(u) : u[i] \in Edge
        BY <3>1, <4>1 DEF ToSet
      <4>3. u \in [1 .. Len(u) -> Edge]
        BY <4>1, <4>2
      <4>4. u \in Seq(Edge)
        BY <4>1, <4>3, IsASeq
      <4> QED
        BY <4>4 DEF u
    <3>3. CASE \E m \in DOMAIN outFile : u = ReadLines(outFile[m])
      <4>1. PICK m \in DOMAIN outFile : u = ReadLines(outFile[m])
        BY <3>3
      <4>2. t[m] = ReadLines(outFile[m])
        BY <1>3, WrittenRead
      <4>3. t[m] \in Seq(Edge)
        BY <2>2, <2>3
      <4> QED
        BY <4>1, <4>2, <4>3
    <3>4. u \in Seq(Int) \/ \E m \in DOMAIN outFile : u = ReadLines(outFile[m])
      BY <1>1, <2>4
    <3> QED
      BY <3>2, <3>3, <3>4
  <2>6. ~NamesForeignEdge(t) => t \in [Net -> Seq(Edge)]
    BY <2>4, <2>5
  <2> QED
    BY <1>3, <2>1, <2>2, <2>6
<1>4. CASE cmd.topology = "given"
  <2>1. t = cmd.given /\ ~OutFileNamed
    BY <1>4 DEF TreesInFile, OutFileNamed
  <2> QED
    BY <1>1, <1>2, <1>4, <2>1
<1>5. CASE ~OutFileNamed /\ cmd.topology # "given"
  <2>1. t = tree
    BY <1>5 DEF TreesInFile
  <2> QED
    BY <1>5, <2>1 DEF IInv, TypeOK
<1> QED
  BY <1>3, <1>4, <1>5

-----------------------------------------------------------------------------
(* Nothing undefined within the preconditions.                             *)

\* Within the preconditions no topology file is read that names an edge twice, or one
\* there is not.
LEMMA FilesWellFormed ==
  ASSUME IInv, NoTrees, cmd.topology # "None", NEW t \in TreesInFile, Preconditions
  PROVE  ~NamesForeignEdge(t) /\ ~NamesEdgeTwice(t)
<1>1. CASE cmd.topology = "given"
  <2>1. t = cmd.given
    BY <1>1 DEF TreesInFile, OutFileNamed
  <2> QED
    BY <1>1, <2>1 DEF Preconditions
<1>2. CASE OutFileNamed
  <2>1. DOMAIN outFile = Net
    BY <1>2 DEF Preconditions
  <2>2. \A n \in Net : t[n] = written[n]
    BY <1>2, <2>1, ReadBackNets
  <2>3. \A n \in Net : written[n] \in Seq(Edge) /\ IsInjective(written[n])
    BY <1>2 DEF IInv, FileOfTrees, OutFileNamed
  <2>4. \A n \in Net : ToSet(written[n]) \subseteq Edge
    BY <2>3, ElementOfSeq, LenProperties DEF ToSet
  <2> QED
    BY <2>2, <2>3, <2>4 DEF NamesForeignEdge, NamesEdgeTwice
<1>3. CASE ~OutFileNamed /\ cmd.topology # "given"
  <2>1. t = tree
    BY <1>3 DEF TreesInFile
  <2>2. \A n \in Net : tree[n] = <<>> /\ IsInjective(tree[n])
    BY DEF NoTrees, IInv, TypeOK
  <2>3. ToSet(<<>>) = {}
    BY EmptySeq DEF ToSet
  <2> QED
    BY <2>1, <2>2, <2>3 DEF NamesForeignEdge, NamesEdgeTwice
<1> QED
  BY <1>1, <1>2, <1>3

\* Within the preconditions, LR has a tree for every net, unless the topology file
\* could not be opened: then it has none at all.
LEMMA TreesWithinPreconditions ==
  ASSUME IInv, Preconditions, pc = "assign", cmd.method = 1
  PROVE  (\A n \in Net : HasTree(n)) \/ NoTrees
<1>1. CASE cmd.topology = "None"
  BY <1>1 DEF IInv, Preconditions, RoutedTrees, HasTree
<1>2. CASE cmd.topology = "given"
  BY <1>2 DEF IInv, TreesRead, Preconditions, HasTree
<1>3. CASE OutFileNamed
  <2>1. ASSUME NEW n \in Net PROVE HasTree(n)
    <3>1. n \in DOMAIN outFile /\ outFile[n] # <<>>
      BY <1>3 DEF Preconditions
    <3>2. tree[n] = written[n] /\ outFile[n] = [i \in DOMAIN written[n] |-> outFile[n][i]]
      BY <1>3, <3>1 DEF IInv, TreesRead, FileOfTrees, OutFileNamed
    <3>3. tree[n] = <<>> => DOMAIN written[n] = {}
      BY <3>2
    <3>4. outFile[n] = [i \in {} |-> outFile[n][i]] => outFile[n] = <<>>
      OBVIOUS
    <3>5. tree[n] = <<>> => outFile[n] = [i \in {} |-> outFile[n][i]]
      BY <3>2, <3>3, Zenon
    <3> QED
      BY <3>1, <3>4, <3>5 DEF HasTree
  <2> QED
    BY <2>1
<1>4. CASE cmd.topology = "missing" \/ (cmd.topology = "written" /\ ~OutFileNamed)
  BY <1>4 DEF IInv, TreesRead
<1> QED
  BY <1>1, <1>2, <1>3, <1>4, PipelineAssumption DEF IInv, TypeOK, OutFileNamed

\* A net with a tree has a group of positive importance, if it has one at all.
LEMMA Priced ==
  ASSUME Grouped = Net, NEW n \in Net, HasTree(n)
  PROVE  ~Unpriced(n)
BY DEF Grouped, HasTree, Unpriced, HasImportance

\* Neither assigner stops the program within the preconditions, but LR by underflow.
LEMMA AssignersGoOn ==
  ASSUME IInv, Preconditions, pc = "assign"
  PROVE  AssignOutcomes \subseteq {"report", "underflow"}
<1>1. Grouped = Net /\ cmd.method \in {0, 1}
  BY DEF Preconditions
<1>2. CASE cmd.method = 1
  <2>1. (\A n \in Net : HasTree(n)) \/ (\A n \in Net : ~HasTree(n))
    BY <1>2, TreesWithinPreconditions DEF NoTrees, HasTree
  <2>2. ~ ((\E n \in Net : Unpriced(n)) /\ (\E n \in Net : HasTree(n)))
    BY <1>1, <2>1, Priced
  <2>3. LrOutcomes \subseteq {"report", "underflow"}
    BY <1>1, <2>2 DEF LrOutcomes
  <2> QED
    BY <1>2, <2>3 DEF AssignOutcomes
<1>3. CASE cmd.method = 0
  <2>1. ~ \E n \in Net : HasTree(n) /\ Unpriced(n)
    BY <1>1, Priced
  <2>2. ~ (Len(input.group) < 3)
    BY <1>3, GroupedNets DEF Preconditions, IInv, TypeOK
  <2>3. HeuristicOutcomes = {"report"}
    BY <2>1, <2>2 DEF HeuristicOutcomes
  <2> QED
    BY <1>3, <2>3 DEF AssignOutcomes
<1> QED
  BY <1>1, <1>2, <1>3

-----------------------------------------------------------------------------
(* Every step keeps the invariant.                                         *)

\* A fresh start, with any input, options and disk, satisfies the invariant.
LEMMA InitInv == Init => IInv
<1> SUFFICES ASSUME Init PROVE IInv
  OBVIOUS
<1>1. <<>> \in Seq(Edge) /\ ToSet(<<>>) = {}
  BY EmptySeq DEF ToSet
<1>2. TypeOK /\ NoTrees
  BY <1>1 DEF Init, TypeOK, NoTrees, IsInjective
<1>3. FlagsAgree
  BY <1>1 DEF Init, FlagsAgree
<1> QED
  BY <1>2, <1>3 DEF Init, IInv, ModeKept, RoutedTrees, TreesRead, FlagsPriced, FileOfTrees,
                    StopsOutsidePreconditions

\* Starting again with another command line, on the disk the last run left, keeps it.
LEMMA RestartInv == IInv /\ Restart => IInv'
<1> SUFFICES ASSUME IInv, Restart PROVE IInv'
  OBVIOUS
<1> USE DEF Restart, EmptyTables
<1>1. <<>> \in Seq(Edge) /\ ToSet(<<>>) = {}
  BY EmptySeq DEF ToSet
<1>2. TypeOK' /\ NoTrees'
  BY <1>1 DEF IInv, TypeOK, NoTrees, IsInjective
<1>3. FlagsAgree'
  BY <1>1 DEF FlagsAgree
<1>4. FileOfTrees'
  BY FileKept DEF IInv
<1> QED
  BY <1>2, <1>3, <1>4 DEF IInv, ModeKept, RoutedTrees, TreesRead, FlagsPriced,
                          StopsOutsidePreconditions

\* The steps that only move on: options, input file, end of the rip-up.
LEMMA MoveOnInv == IInv /\ (ParseArguments \/ ReadInfile \/ RoutingDone) => IInv'
<1> SUFFICES ASSUME IInv, ParseArguments \/ ReadInfile \/ RoutingDone PROVE IInv'
  OBVIOUS
<1>1. UNCHANGED <<input, disk, cmd, tree, passing, ratio>>
  BY DEF ParseArguments, ReadInfile, RoutingDone, tables
<1>2. \/ pc = "parse" /\ pc' \in {"exit", "read"}
      \/ pc = "read" /\ pc' \in {"failed", AfterRead}
      \/ pc = "ripup" /\ pc' = "assign"
  BY DEF ParseArguments, ReadInfile, RoutingDone
<1>3. TypeOK' /\ FlagsAgree' /\ FileOfTrees'
  BY <1>1, FileKept DEF IInv, TypeOK, FlagsAgree
<1>4. ModeKept'
  BY <1>1, <1>2 DEF IInv, ModeKept, NoTrees, AfterRead
<1>5. RoutedTrees'
  BY <1>1, <1>2, PreconditionsKept DEF IInv, RoutedTrees, AfterRead
<1>6. TreesRead' /\ FlagsPriced' /\ StopsOutsidePreconditions'
  <2>1. pc' \in {"exit", "read", "failed", "route", "topology", "assign"}
    BY <1>2 DEF AfterRead
  <2>2. pc' = "assign" => cmd.topology = "None"
    BY <1>2 DEF IInv, ModeKept, AfterRead
  <2> QED
    BY <1>1, <2>1, <2>2 DEF TreesRead, FlagsPriced, StopsOutsidePreconditions, OutFileNamed
<1> QED
  BY <1>3, <1>4, <1>5, <1>6 DEF IInv

\* Reading the topology file line by line keeps it: flags are set with the tree they are of.
LEMMA ReadTopologyInv == IInv /\ ReadTopology => IInv'
<1> SUFFICES ASSUME IInv, ReadTopology PROVE IInv'
  OBVIOUS
<1>1. NoTrees /\ cmd.topology # "None" /\ pc = "topology"
  BY DEF ReadTopology, IInv, ModeKept
<1>2. UNCHANGED <<input, disk, cmd, ratio>>
  BY DEF ReadTopology
<1>3. FileOfTrees' /\ (OutFileNamed' <=> OutFileNamed)
  BY <1>2, FileKept, PreconditionsKept DEF IInv
<1>4. ASSUME NEW t \in TreesInFile, NamesForeignEdge(t) \/ NamesEdgeTwice(t),
             pc' \in {"undefined", "aborted"}, UNCHANGED <<tree, passing>>
      PROVE  IInv'
  <2>1. ~Preconditions'
    BY <1>1, <1>2, <1>4, FilesWellFormed, PreconditionsKept
  <2>2. TypeOK' /\ FlagsAgree'
    BY <1>2, <1>4 DEF IInv, TypeOK, FlagsAgree
  <2> QED
    BY <1>3, <1>4, <2>1, <2>2 DEF IInv, ModeKept, RoutedTrees, TreesRead, FlagsPriced,
                                  StopsOutsidePreconditions
<1>5. ASSUME NEW t \in TreesInFile, ~NamesForeignEdge(t), ~NamesEdgeTwice(t),
             tree' = t, passing' = FlagsFor(t, Net, passing), pc' = "assign"
      PROVE  IInv'
  <2>1. /\ t \in [Net -> Seq(Edge)]
        /\ cmd.topology = "missing" \/ (cmd.topology = "written" /\ ~OutFileNamed) => t = tree
        /\ OutFileNamed => \A n \in DOMAIN outFile : t[n] = written[n]
        /\ cmd.topology = "given" => t = cmd.given
    BY <1>1, <1>5, ReadTrees
  <2>2. TypeOK'
    BY <1>2, <1>5, <2>1 DEF IInv, TypeOK, NamesEdgeTwice
  <2>3. FlagsAgree'
    <3>1. FlagsFor(t, Net, passing) = [e \in Edge |-> {n \in Net : e \in ToSet(t[n])}]
      BY <1>1, FirstFlagsAgree DEF IInv
    <3> QED
      BY <1>5, <3>1 DEF FlagsAgree
  <2>4. TreesRead'
    BY <1>1, <1>2, <1>3, <1>5, <2>1 DEF TreesRead, NoTrees, disk
  <2> QED
    BY <1>1, <1>2, <1>3, <1>5, <2>2, <2>3, <2>4 DEF IInv, ModeKept, RoutedTrees, FlagsPriced,
                                                    StopsOutsidePreconditions
<1> QED
  BY <1>4, <1>5 DEF ReadTopology

\* With a thread for each lane every grouped net is served; with at least one thread some
\* net is.
LEMMA ServedFacts ==
  ASSUME IInv, ThreadNum >= 1, NEW N \in Served
  PROVE  /\ N \subseteq Grouped
         /\ cmd.limit >= ThreadNum => N = Grouped
         /\ Grouped # {} => N # {}
<1> DEFINE k == Cardinality(Grouped)
           T == ThreadNum
           dealt == {i \in 0 .. k - 1 : i % T < cmd.limit}
<1>1. N \subseteq Grouped /\ Cardinality(N) = Cardinality(dealt)
  BY DEF Served
<1>2. IsFiniteSet(Grouped) /\ k \in Nat /\ (k = 0 <=> Grouped = {})
  <2>1. IsFiniteSet(Net) /\ Grouped \subseteq Net
    <3>1. IsFiniteSet(Net)
      <4>1. 1 \in Int /\ NetNum \in Int
        BY PipelineAssumption
      <4> QED
        BY <4>1, FS_Interval DEF Net
    <3>2. Grouped \subseteq Net
      BY GroupedNets DEF IInv, TypeOK
    <3> QED
      BY <3>1, <3>2
  <2> QED
    BY <2>1, FS_Subset, FS_CardinalityType, FS_EmptySet
<1>3. cmd.limit \in Nat \ {0} /\ cmd.thread \in Int
  BY PipelineAssumption DEF IInv, TypeOK
<1>4. T \in Nat \ {0}
  BY ThreadNumFacts DEF IInv, TypeOK
<1>5. IsFiniteSet(N)
  BY <1>1, <1>2, FS_Subset
<1> HIDE DEF k, T
<1>6. IsFiniteSet(0 .. k - 1) /\ Cardinality(0 .. k - 1) = k /\ IsFiniteSet(dealt)
  <2>1. IsFiniteSet(0 .. k - 1) /\ Cardinality(0 .. k - 1) = k
    <3>1. 0 \in Int /\ k - 1 \in Int
      BY <1>2
    <3>2. IsFiniteSet(0 .. k - 1)
          /\ Cardinality(0 .. k - 1) = IF 0 > k - 1 THEN 0 ELSE k - 1 - 0 + 1
      BY <3>1, FS_Interval
    <3> QED
      BY <1>2, <3>2
  <2>2. dealt \subseteq 0 .. k - 1
    OBVIOUS
  <2> QED
    BY <2>1, <2>2, FS_Subset
<1>7. ASSUME cmd.limit >= T PROVE N = Grouped
  <2>1. \A i \in 0 .. k - 1 : i % T < cmd.limit
    BY <1>2, <1>3, <1>4, <1>7
  <2>2. dealt = 0 .. k - 1
    BY <2>1
  <2>3. Cardinality(N) = Cardinality(Grouped)
    BY <1>1, <1>6, <2>2 DEF k
  <2> QED
    BY <1>1, <1>2, <2>3, FS_Subset
<1>8. ASSUME Grouped # {} PROVE N # {}
  <2>1. 0 \in dealt
    BY <1>2, <1>3, <1>4, <1>8
  <2>2. Cardinality(dealt) # 0
    BY <1>6, <2>1, FS_EmptySet
  <2> QED
    BY <1>1, <1>5, <2>2, FS_EmptySet
<1> QED
  BY <1>1, <1>7, <1>8 DEF T

\* The group router gives trees to grouped nets, with their flags, or stops the program.
LEMMA GroupRouteInv == IInv /\ GroupRoute => IInv'
<1> SUFFICES ASSUME IInv, GroupRoute PROVE IInv'
  OBVIOUS
<1>1. cmd.topology = "None" /\ NoTrees /\ pc = "route"
  BY DEF GroupRoute, IInv, ModeKept
<1>2. UNCHANGED <<input, disk, cmd, ratio>>
  BY DEF GroupRoute
<1>3. FileOfTrees'
  BY <1>2, FileKept DEF IInv
<1>4. CASE pc' \in {"aborted", "undefined"}
  <2>1. UNCHANGED <<tree, passing>>
    BY <1>4 DEF GroupRoute
  <2>2. ~Preconditions
    <3>1. (\E n \in Net : input.targets[n] = 0) \/ ThreadNum < 1
      BY <1>4 DEF GroupRoute
    <3>2. CASE \E n \in Net : input.targets[n] = 0
      BY <1>1, <3>2 DEF Preconditions
    <3>3. CASE ThreadNum < 1 /\ Preconditions
      <4>1. cmd.release \/ cmd.thread >= 1
        BY <1>1, <3>3 DEF Preconditions
      <4> QED
        BY <3>3, <4>1, ThreadNumFacts DEF IInv, TypeOK
    <3> QED
      BY <3>1, <3>2, <3>3
  <2>3. TypeOK' /\ FlagsAgree' /\ ~Preconditions'
    BY <1>2, <2>1, <2>2, PreconditionsKept DEF IInv, TypeOK, FlagsAgree
  <2> QED
    BY <1>3, <1>4, <2>3 DEF IInv, ModeKept, RoutedTrees, TreesRead, FlagsPriced,
                            StopsOutsidePreconditions
<1>5. CASE pc' = "ripup"
  <2>1. /\ ThreadNum >= 1 /\ \E N \in Served : tree' \in NewTrees(N, input.trees)
        /\ passing' = FlagsFor(tree', Net, passing)
    <3>1. ThreadNum \in Int
      BY ThreadNumFacts DEF IInv, TypeOK
    <3> QED
      BY <1>5, <3>1 DEF GroupRoute
  <2>2. PICK N \in Served : tree' \in NewTrees(N, input.trees)
    BY <2>1
  <2>3. /\ N \subseteq Grouped /\ (cmd.limit >= ThreadNum => N = Grouped)
        /\ Grouped # {} => N # {}
    BY <2>1, ServedFacts
  <2>4. /\ tree' \in [Net -> Seq(Edge)] /\ \A n \in Net : IsInjective(tree'[n])
        /\ \A n \in N : {} \notin input.trees[n] => tree'[n] # <<>>
    <3>1. N \in SUBSET Net /\ \A n \in N : input.trees[n] \subseteq SUBSET Edge
      BY <2>3, GroupedNets DEF IInv, TypeOK
    <3>2. tree \in [Net -> Seq(Edge)] /\ \A n \in Net : IsInjective(tree[n])
      BY DEF IInv, TypeOK
    <3> DEFINE allowed == input.trees
               t == tree'
    <3>3. (\A n \in N : allowed[n] \subseteq SUBSET Edge) /\ t \in NewTrees(N, allowed)
      BY <2>2, <3>1
    <3>4. /\ t \in [Net -> Seq(Edge)] /\ \A n \in Net : IsInjective(t[n])
          /\ \A n \in N : {} \notin allowed[n] => t[n] # <<>>
      <4> HIDE DEF allowed, t
      <4> QED
        BY <3>1, <3>2, <3>3, NewTreesFacts
    <3> QED
      BY <3>4
  <2>5. FlagsAgree'
    <3>1. FlagsFor(tree', Net, passing) = [e \in Edge |-> {n \in Net : e \in ToSet(tree'[n])}]
      BY <1>1, FirstFlagsAgree DEF IInv
    <3> QED
      BY <2>1, <3>1 DEF FlagsAgree
  <2>6. RoutedTrees'
    <3>1. cmd.limit >= ThreadNum => \A n \in Grouped : {} \notin input.trees[n] => tree'[n] # <<>>
      BY <2>3, <2>4
    <3>2. Grouped # {} /\ (\A n \in Grouped : {} \notin input.trees[n]) =>
            \E n \in Grouped : tree'[n] # <<>>
      BY <2>3, <2>4
    <3> QED
      BY <1>2, <3>1, <3>2, PreconditionsKept DEF RoutedTrees
  <2>7. TypeOK'
    BY <1>2, <2>4 DEF IInv, TypeOK
  <2> QED
    BY <1>1, <1>2, <1>3, <1>5, <2>5, <2>6, <2>7 DEF IInv, ModeKept, TreesRead, FlagsPriced,
                                        StopsOutsidePreconditions
<1> QED
  BY <1>4, <1>5 DEF GroupRoute

\* Ripping up the nets of a group and routing them again leaves trees and flags agreeing.
LEMMA RipUpRerouteInv == IInv /\ RipUpReroute => IInv'
<1> SUFFICES ASSUME IInv, RipUpReroute PROVE IInv'
  OBVIOUS
<1>1. cmd.topology = "None" /\ pc = "ripup"
  BY DEF RipUpReroute, IInv, ModeKept
<1>2. UNCHANGED <<input, disk, cmd, ratio>>
  BY DEF RipUpReroute
<1>3. FileOfTrees'
  BY <1>2, FileKept DEF IInv
<1>4. CASE /\ \A g \in Gid : ~HasImportance(g)
           /\ pc' = "undefined" /\ UNCHANGED <<tree, passing>>
  <2>1. ~Preconditions
    <3> SUFFICES ASSUME Preconditions PROVE FALSE
      OBVIOUS
    <3>1. Grouped = Net /\ 1 \in Net /\ \A n \in Net : {} \notin input.trees[n]
      BY PipelineAssumption DEF Preconditions, Net
    <3>2. PICK n \in Grouped : tree[n] # <<>>
      BY <1>1, <3>1 DEF IInv, RoutedTrees
    <3>3. PICK g \in Gid : n \in ToSet(input.group[g])
      BY DEF Grouped
    <3> QED
      BY <1>4, <3>2, <3>3 DEF HasImportance
  <2>2. TypeOK' /\ FlagsAgree' /\ ~Preconditions'
    BY <1>2, <1>4, <2>1, PreconditionsKept DEF IInv, TypeOK, FlagsAgree
  <2> QED
    BY <1>3, <1>4, <2>2 DEF IInv, ModeKept, RoutedTrees, TreesRead, FlagsPriced,
                            StopsOutsidePreconditions
<1>5. ASSUME NEW g \in Gid, HasImportance(g),
             tree' \in NewTrees(ToSet(input.group[g]), input.trees),
             passing' = ReroutedFlags(tree', ToSet(input.group[g])),
             pc' = pc
      PROVE  IInv'
  <2> DEFINE N == ToSet(input.group[g])
  <2>1. N \in SUBSET Net /\ \A n \in N : input.trees[n] \subseteq SUBSET Edge
    BY GroupedNets DEF IInv, TypeOK
  <2>2. /\ tree' \in [Net -> Seq(Edge)] /\ \A n \in Net : IsInjective(tree'[n])
        /\ \A n \in Net \ N : tree'[n] = tree[n]
        /\ \A n \in N : {} \notin input.trees[n] => tree'[n] # <<>>
    <3>1. tree \in [Net -> Seq(Edge)] /\ \A n \in Net : IsInjective(tree[n])
      BY DEF IInv, TypeOK
    <3> DEFINE allowed == input.trees
               t == tree'
    <3>2. (\A n \in N : allowed[n] \subseteq SUBSET Edge) /\ t \in NewTrees(N, allowed)
      BY <1>5, <2>1
    <3>3. /\ t \in [Net -> Seq(Edge)] /\ \A n \in Net : IsInjective(t[n])
          /\ \A n \in Net \ N : t[n] = tree[n]
          /\ \A n \in N : {} \notin allowed[n] => t[n] # <<>>
      <4> HIDE DEF N, allowed, t
      <4> QED
        BY <2>1, <3>1, <3>2, NewTreesFacts
    <3> QED
      BY <3>3
  <2>3. FlagsAgree'
    <3>1. ReroutedFlags(tree', N) = [e \in Edge |-> {n \in Net : e \in ToSet(tree'[n])}]
      BY <2>1, <2>2, ReroutedAgree DEF IInv
    <3> QED
      BY <1>5, <3>1 DEF FlagsAgree
  <2>4. TypeOK'
    BY <1>2, <2>2 DEF IInv, TypeOK
  <2>5. RoutedTrees'
    <3>1. \A n \in Grouped : n \in Net
      BY GroupedNets DEF IInv, TypeOK
    <3>2. cmd.limit >= ThreadNum => \A n \in Grouped : {} \notin input.trees[n] => tree'[n] # <<>>
      BY <1>1, <2>2, <3>1 DEF IInv, RoutedTrees
    <3>3. ASSUME \A n \in Grouped : {} \notin input.trees[n]
          PROVE  \E n \in Grouped : tree'[n] # <<>>
      <4>1. PICK n \in N : tree[n] # <<>>
        BY <1>5 DEF HasImportance
      <4>2. n \in Grouped
        BY DEF Grouped
      <4> QED
        BY <2>2, <3>3, <4>2
    <3> QED
      BY <1>2, <3>2, <3>3, PreconditionsKept DEF RoutedTrees
  <2> QED
    BY <1>1, <1>2, <1>3, <1>5, <2>3, <2>4, <2>5 DEF IInv, ModeKept, TreesRead, FlagsPriced,
                                        StopsOutsidePreconditions
<1> QED
  BY <1>4, <1>5 DEF RipUpReroute

\* The assigners enter an even ratio for every flag, or stop the program.
LEMMA AssignTDMInv == IInv /\ AssignTDM => IInv'
<1> SUFFICES ASSUME IInv, AssignTDM PROVE IInv'
  OBVIOUS
<1>1. pc = "assign" /\ UNCHANGED <<input, disk, cmd, tree, passing>>
  BY DEF AssignTDM
<1>2. TypeOK' /\ FlagsAgree' /\ FileOfTrees'
  BY <1>1, FileKept DEF IInv, TypeOK, FlagsAgree
<1>3. RoutedTrees'
  BY <1>1, PreconditionsKept DEF IInv, RoutedTrees
<1>4. StopsOutsidePreconditions'
  <2>1. pc' \in AssignOutcomes
    BY DEF AssignTDM
  <2>2. pc' \in {"aborted", "undefined"} => ~Preconditions
    BY <1>1, <2>1, AssignersGoOn
  <2>3. pc' = "underflow" => cmd.method = 1 /\ MayLoseWeight
    BY <2>1 DEF AssignOutcomes, LrOutcomes, HeuristicOutcomes
  <2> QED
    BY <1>1, <2>2, <2>3, PreconditionsKept DEF StopsOutsidePreconditions
<1>5. pc' \in {"aborted", "undefined", "underflow", "report"}
  BY DEF AssignTDM, AssignOutcomes, LrOutcomes, HeuristicOutcomes
<1>6. CASE pc' # "report"
  BY <1>2, <1>3, <1>4, <1>5, <1>6 DEF IInv, ModeKept, TreesRead, FlagsPriced
<1>7. CASE pc' = "report"
  <2>2. PICK r \in [{p \in Edge \X Net : p[2] \in passing[p[1]]} -> Ratios] :
          ratio' = [e \in Edge |-> [n \in Net |->
                     IF n \in passing[e] THEN r[<<e, n>>] ELSE ratio[e][n]]]
    BY <1>7 DEF AssignTDM
  <2>3. ASSUME NEW e \in Edge, NEW n \in passing[e]
        PROVE  ratio'[e][n] \in Ratios
    <3>1. n \in Net
      BY DEF IInv, FlagsAgree
    <3>2. <<e, n>> \in {p \in Edge \X Net : p[2] \in passing[p[1]]}
      BY <3>1
    <3>3. ratio'[e][n] = r[<<e, n>>]
      BY <2>2, <3>1
    <3> QED
      BY <3>2, <3>3
  <2>4. FlagsPriced'
    BY <1>1, <2>3 DEF FlagsPriced
  <2> QED
    BY <1>2, <1>3, <1>4, <1>7, <2>4 DEF IInv, ModeKept, TreesRead
<1> QED
  BY <1>6, <1>7

\* The report prices the lines with the tables the writer uses.
LEMMA ReportResultInv == IInv /\ ReportResult => IInv'
<1> SUFFICES ASSUME IInv, ReportResult PROVE IInv'
  OBVIOUS
<1>1. pc = "report" /\ UNCHANGED <<input, disk, cmd, tree, passing, ratio>>
  BY DEF ReportResult
<1>2. TypeOK' /\ FlagsAgree' /\ FileOfTrees'
  BY <1>1, FileKept DEF IInv, TypeOK, FlagsAgree
<1>3. RoutedTrees'
  BY <1>1, PreconditionsKept DEF IInv, RoutedTrees
<1>4. \A n \in Net : \A e \in ToSet(tree[n]) : n \in passing[e]
  <2>1. \A n \in Net : ToSet(tree[n]) \subseteq Edge
    BY ElementOfSeq, LenProperties DEF IInv, TypeOK, ToSet
  <2> QED
    BY <2>1 DEF IInv, FlagsAgree
<1>5. pc' = "output" \/ (pc' = "undefined" /\ Len(input.group) < 3 /\ ~cmd.release)
  BY <1>4 DEF ReportResult
<1>6. Len(input.group) < 3 /\ ~cmd.release => ~Preconditions
  BY GroupedNets DEF IInv, TypeOK, Preconditions
<1>7. StopsOutsidePreconditions'
  BY <1>1, <1>5, <1>6, PreconditionsKept DEF StopsOutsidePreconditions
<1>8. FlagsPriced'
  BY <1>1 DEF IInv, FlagsPriced
<1> QED
  BY <1>1, <1>2, <1>3, <1>5, <1>7, <1>8 DEF IInv, ModeKept, TreesRead

\* The writer puts one line per net on the disk, with the tree and the ratios of the tables.
LEMMA OutputResultInv == IInv /\ OutputResult => IInv'
<1> SUFFICES ASSUME IInv, OutputResult PROVE IInv'
  OBVIOUS
<1>1. pc = "output" /\ pc' = "exit" /\ UNCHANGED <<input, cmd, tree, passing, ratio>>
  BY DEF OutputResult, tables
<1>2. TypeOK' /\ FlagsAgree'
  BY <1>1 DEF IInv, TypeOK, FlagsAgree
<1>3. CASE cmd.topology = "None" /\ cmd.output = "writable"
  <2>1. /\ \E whole \in 0 .. NetNum : outFile' = [n \in 1 .. whole |-> Lines(n)]
        /\ written' = tree /\ fullTeam' = (cmd.limit >= ThreadNum)
    BY <1>3 DEF OutputResult
  <2>2. ASSUME NEW n \in Net
        PROVE  /\ Lines(n) = [i \in DOMAIN tree[n] |-> Lines(n)[i]]
               /\ \A i \in DOMAIN tree[n] : Lines(n)[i][1] = tree[n][i] /\ Lines(n)[i][2] \in Ratios
    <3>1. Lines(n) = [i \in DOMAIN tree[n] |-> Lines(n)[i]]
      BY DEF Lines
    <3>2. ASSUME NEW i \in DOMAIN tree[n]
          PROVE  Lines(n)[i][1] = tree[n][i] /\ Lines(n)[i][2] \in Ratios
      <4>1. Lines(n)[i] = <<tree[n][i], ratio[tree[n][i]][n]>>
        BY DEF Lines
      <4>2. tree[n][i] \in Edge /\ tree[n][i] \in ToSet(tree[n])
        BY ElementOfSeq, LenProperties DEF IInv, TypeOK, ToSet
      <4>3. n \in passing[tree[n][i]]
        BY <4>2 DEF IInv, FlagsAgree
      <4>4. ratio[tree[n][i]][n] \in Ratios
        BY <1>1, <4>2, <4>3 DEF IInv, FlagsPriced
      <4> QED
        BY <4>1, <4>4
    <3> QED
      BY <3>1, <3>2
  <2>3. written' \in [Net -> Seq(Edge)] /\ \A n \in Net : IsInjective(written'[n])
    BY <2>1 DEF IInv, TypeOK
  <2>4. fullTeam' => \A n \in Grouped : {} \notin input.trees[n] => written'[n] # <<>>
    BY <1>1, <1>3, <2>1 DEF IInv, RoutedTrees
  <2>5. FileOfTrees'
    <3>1. PICK whole \in 0 .. NetNum : outFile' = [n \in 1 .. whole |-> Lines(n)]
      BY <2>1
    <3>2. DOMAIN outFile' \subseteq Net /\ \A n \in DOMAIN outFile' : outFile'[n] = Lines(n)
      BY <3>1, PipelineAssumption DEF Net
    <3>3. \A n \in DOMAIN outFile' :
            /\ outFile'[n] = [i \in DOMAIN written'[n] |-> outFile'[n][i]]
            /\ \A i \in DOMAIN written'[n] : /\ outFile'[n][i][1] = written'[n][i]
                                             /\ outFile'[n][i][2] \in Ratios
      <4> SUFFICES ASSUME NEW n \in DOMAIN outFile'
                   PROVE  /\ outFile'[n] = [i \in DOMAIN written'[n] |-> outFile'[n][i]]
                          /\ \A i \in DOMAIN written'[n] : /\ outFile'[n][i][1] = written'[n][i]
                                                           /\ outFile'[n][i][2] \in Ratios
        OBVIOUS
      <4>1. n \in Net /\ outFile'[n] = Lines(n) /\ written'[n] = tree[n]
        BY <2>1, <3>2
      <4>2. /\ Lines(n) = [i \in DOMAIN tree[n] |-> Lines(n)[i]]
            /\ \A i \in DOMAIN tree[n] : Lines(n)[i][1] = tree[n][i] /\ Lines(n)[i][2] \in Ratios
        BY <2>2, <4>1
      <4> DEFINE o == outFile'[n]
                 w == written'[n]
                 ln == Lines(n)
      <4>3. o = ln /\ w = tree[n] /\ ln = [i \in DOMAIN w |-> ln[i]]
            /\ \A i \in DOMAIN w : ln[i][1] = w[i] /\ ln[i][2] \in Ratios
        BY <4>1, <4>2
      <4>4. o = [i \in DOMAIN w |-> o[i]] /\ \A i \in DOMAIN w : o[i][1] = w[i] /\ o[i][2] \in Ratios
        <5> HIDE DEF o, w, ln
        <5> QED
          BY <4>3
      <4> QED
        BY <4>4
    <3>4. Grouped' = Grouped
      BY <1>1 DEF Grouped, Gid
    <3> QED
      BY <1>1, <2>3, <2>4, <3>2, <3>3, <3>4 DEF FileOfTrees
  <2> QED
    BY <1>1, <1>2, <2>5 DEF IInv, ModeKept, RoutedTrees, TreesRead, FlagsPriced,
                            StopsOutsidePreconditions
<1>4. CASE ~ (cmd.topology = "None" /\ cmd.output = "writable")
  <2>1. UNCHANGED disk
    BY <1>4 DEF OutputResult
  <2>2. FileOfTrees'
    BY <1>1, <2>1, FileKept DEF IInv
  <2> QED
    BY <1>1, <1>2, <2>2 DEF IInv, ModeKept, RoutedTrees, TreesRead, FlagsPriced,
                            StopsOutsidePreconditions
<1> QED
  BY <1>3, <1>4

-----------------------------------------------------------------------------
(* The theorems.                                                           *)

\* Flags follow the trees, files and reports are priced, and only what is
\* outside the preconditions stops the program, in all reachable states.
THEOREM Invariant == Spec => []IInv
<1>1. IInv /\ [Next]_vars => IInv'
  <2> SUFFICES ASSUME IInv, [Next]_vars PROVE IInv'
    OBVIOUS
  <2>1. CASE Finished \/ UNCHANGED vars
    <3>1. UNCHANGED <<input, disk, cmd, tree, passing, ratio, pc>>
      BY <2>1 DEF Finished, vars, tables
    <3>2. TypeOK' /\ FlagsAgree' /\ ModeKept' /\ FlagsPriced' /\ FileOfTrees'
      BY <3>1, FileKept DEF IInv, TypeOK, FlagsAgree, ModeKept, NoTrees, FlagsPriced
    <3>3. TreesRead'
      BY <3>1, PreconditionsKept DEF IInv, TreesRead, NoTrees, disk
    <3>4. RoutedTrees' /\ StopsOutsidePreconditions'
      BY <3>1, PreconditionsKept DEF IInv, RoutedTrees, StopsOutsidePreconditions
    <3> QED
      BY <3>2, <3>3, <3>4 DEF IInv
  <2> QED
    BY <2>1, RestartInv, MoveOnInv, ReadTopologyInv, GroupRouteInv, RipUpRerouteInv, AssignTDMInv,
       ReportResultInv, OutputResultInv DEF Next
<1> QED
  BY <1>1, InitInv, PTL DEF Spec

\* The assertions and undefined places of main and the phases (mgr::Run, LR, the
\* heuristic, the report) are met only outside the stated preconditions,
\* whatever options are combined and however often the program is run.
THEOREM StopsOnlyOutside == Spec => []StopsOutsidePreconditions
BY Invariant, PTL DEF IInv

\* read_topology gives back the trees of the run whose output_result wrote the
\* file, in the order of their edges, with the flags that go with them.
THEOREM ReadBack == Spec => []ReadsBackTrees
<1>1. IInv => ReadsBackTrees
  BY DEF IInv, TreesRead, FlagsAgree, ReadsBackTrees
<1> QED
  BY <1>1, Invariant, PTL

\* Every line of output_result has a ratio the assigner gave, and with all its threads
\* the run that wrote it left no grouped net between different FPGAs without a line.
THEOREM LinesPriced == Spec => []EveryLinePriced
<1>1. IInv => EveryLinePriced
  <2> SUFFICES ASSUME IInv, written # <<>>, NEW n \in DOMAIN outFile
               PROVE  /\ \A i \in DOMAIN outFile[n] : outFile[n][i][2] \in Ratios
                      /\ fullTeam /\ n \in Grouped /\ {} \notin input.trees[n] => outFile[n] # <<>>
    BY DEF EveryLinePriced
  <2>1. /\ written[n] \in Seq(Edge)
        /\ outFile[n] = [i \in DOMAIN written[n] |-> outFile[n][i]]
        /\ \A i \in DOMAIN written[n] : outFile[n][i][2] \in Ratios
        /\ fullTeam /\ n \in Grouped /\ {} \notin input.trees[n] => written[n] # <<>>
    BY DEF IInv, FileOfTrees
  <2>2. DOMAIN outFile[n] = DOMAIN written[n]
    BY <2>1
  <2>3. written[n] # <<>> => DOMAIN written[n] # {}
    <3> DEFINE w == written[n]
    <3>1. w \in Seq(Edge)
      BY <2>1
    <3> HIDE DEF w
    <3>2. Len(w) \in Nat /\ DOMAIN w = 1 .. Len(w) /\ (Len(w) = 0 => w = <<>>)
      BY <3>1, EmptySeq, LenProperties
    <3>3. w # <<>> => 1 \in DOMAIN w
      BY <3>2
    <3> QED
      BY <3>3 DEF w
  <2>4. DOMAIN <<>> = {}
    OBVIOUS
  <2> QED
    BY <2>1, <2>2, <2>3, <2>4
<1> QED
  BY <1>1, Invariant, PTL

-----------------------------------------------------------------------------
(* The report and the file.                                                *)

\* What the file shows for a group.
FileSum(g) == SumFunction([k \in DOMAIN input.group[g] |-> InFile(input.group[g][k])])

\* There is no report before ReportResult; after it, it lists groups with the sums
\* of what their nets have now, the largest first.
ReportWaits ==
  pc \in {"parse", "read", "topology", "route", "ripup", "assign", "report"} => groupTDMs = <<>>
ReportOfNow == pc = "output" =>
  /\ \A i \in DOMAIN groupTDMs : /\ groupTDMs[i][1] \in Gid
                                 /\ groupTDMs[i][2] = GroupTDM(groupTDMs[i][1])
  /\ \A i, j \in DOMAIN groupTDMs : i < j => groupTDMs[i][2] >= groupTDMs[j][2]

RInv == ReportWaits /\ ReportOfNow /\ ReportMatchesFile

\* The sums of the report are numbers: every edge of a tree has a ratio.
LEMMA PricedSums ==
  ASSUME IInv, pc = "report"
  PROVE  \A g \in Gid : GroupTDM(g) \in Int
<1>1. \A r \in Ratios : r \in Int
  BY PipelineAssumption
<1>2. ASSUME NEW n \in Net PROVE CalcTDM(n) \in Int
  <2> DEFINE q == [i \in DOMAIN tree[n] |-> ratio[tree[n][i]][n]]
             len == Len(tree[n])
  <2>1. tree[n] \in Seq(Edge) /\ len \in Nat /\ DOMAIN tree[n] = 1 .. len
    BY LenProperties DEF IInv, TypeOK
  <2>2. \A i \in 1 .. len : ratio[tree[n][i]][n] \in Int
    <3> SUFFICES ASSUME NEW i \in 1 .. len PROVE ratio[tree[n][i]][n] \in Int
      OBVIOUS
    <3>1. tree[n][i] \in Edge /\ tree[n][i] \in ToSet(tree[n])
      BY <2>1, ElementOfSeq DEF ToSet
    <3>2. n \in passing[tree[n][i]]
      BY <3>1 DEF IInv, FlagsAgree
    <3>3. ratio[tree[n][i]][n] \in Ratios
      BY <3>1, <3>2 DEF IInv, FlagsPriced
    <3> QED
      BY <1>1, <3>3
  <2>3. q \in [1 .. len -> Int] /\ CalcTDM(n) = SumFunction(q)
    BY <2>1, <2>2 DEF CalcTDM
  <2> HIDE DEF q, len
  <2> QED
    BY <2>1, <2>3, PartialSums
<1>3. ASSUME NEW g \in Gid PROVE GroupTDM(g) \in Int
  <2> DEFINE nets == input.group[g]
             len == Len(nets)
             q == [i \in DOMAIN nets |-> CalcTDM(nets[i])]
  <2>1. nets \in Seq(Net)
    BY PipelineAssumption, ElementOfSeq, LenProperties DEF Gid, IInv, TypeOK
  <2> HIDE DEF nets
  <2>2. len \in Nat /\ DOMAIN nets = 1 .. len /\ \A i \in 1 .. len : nets[i] \in Net
    BY <2>1, LenProperties, ElementOfSeq
  <2> HIDE DEF len
  <2>3. q \in [1 .. len -> Int]
    BY <1>2, <2>2
  <2>4. GroupTDM(g) = SumFunction(q)
    BY DEF GroupTDM, nets
  <2> HIDE DEF q
  <2> QED
    BY <2>2, <2>3, <2>4, PartialSums
<1> QED
  BY <1>3

\* The lines of a net add up to its TDM.
LEMMA FileSums ==
  ASSUME IInv, pc = "output", \A n \in Net : outFile'[n] = Lines(n)
  PROVE  \A n \in Net : InFile(n)' = CalcTDM(n)
<1> SUFFICES ASSUME NEW n \in Net PROVE InFile(n)' = CalcTDM(n)
  OBVIOUS
<1>1. outFile'[n] = [i \in DOMAIN tree[n] |-> <<tree[n][i], ratio[tree[n][i]][n]>>]
  BY DEF Lines
<1>2. [i \in DOMAIN outFile'[n] |-> outFile'[n][i][2]] = [i \in DOMAIN tree[n] |-> ratio[tree[n][i]][n]]
  BY <1>1
<1> QED
  BY <1>2 DEF InFile, CalcTDM

\* The report is in order and holds the sums of the nets.
LEMMA ReportResultOrder == IInv /\ ReportResult => ReportOfNow'
<1> SUFFICES ASSUME IInv, ReportResult, pc' = "output" PROVE ReportOfNow'
  BY DEF ReportOfNow
<1>1. pc = "report" /\ UNCHANGED <<input, tree, ratio>>
  BY DEF ReportResult
<1>2. CASE groupTDMs' = <<>>
  BY <1>2 DEF ReportOfNow
<1>3. CASE groupTDMs' \in Sorted([g \in Gid |-> <<g, GroupTDM(g)>>], LAMBDA x, y : x[2] > y[2])
  <2> DEFINE s == [g \in Gid |-> <<g, GroupTDM(g)>>]
  <2>1. PICK p \in Injection(Gid, Gid) :
          /\ groupTDMs' = [i \in Gid |-> s[p[i]]]
          /\ \A i, j \in Gid : i < j => ~(s[p[j]][2] > s[p[i]][2])
    <3>1. DOMAIN s = Gid
      OBVIOUS
    <3> QED
      BY <1>3, <3>1 DEF Sorted
  <2>2. p \in [Gid -> Gid]
    BY DEF Injection
  <2>3. \A i \in Gid : groupTDMs'[i] = <<p[i], GroupTDM(p[i])>>
    BY <2>1, <2>2
  <2>4. \A g \in Gid : GroupTDM(g) \in Int
    BY <1>1, PricedSums
  <2>5. ASSUME NEW i \in Gid, NEW j \in Gid, i < j
        PROVE  groupTDMs'[i][2] >= groupTDMs'[j][2]
    <3>1. ~(GroupTDM(p[j]) > GroupTDM(p[i]))
      BY <2>1, <2>2, <2>5
    <3>2. groupTDMs'[i][2] = GroupTDM(p[i]) /\ groupTDMs'[j][2] = GroupTDM(p[j])
      BY <2>3
    <3>3. GroupTDM(p[i]) \in Int /\ GroupTDM(p[j]) \in Int
      BY <2>2, <2>4
    <3> QED
      BY <3>1, <3>2, <3>3
  <2>6. \A g \in Gid : GroupTDM(g)' = GroupTDM(g)
    BY <1>1 DEF GroupTDM, CalcTDM
  <2>7. DOMAIN groupTDMs' = Gid /\ Gid' = Gid
    BY <1>1, <2>1 DEF Gid
  <2>8. \A i \in Gid : groupTDMs'[i][1] \in Gid /\ groupTDMs'[i][2] = GroupTDM(groupTDMs'[i][1])
    BY <2>2, <2>3
  <2> QED
    BY <2>5, <2>6, <2>7, <2>8 DEF ReportOfNow
<1> QED
  BY <1>2, <1>3 DEF ReportResult

\* The file repeats the sums of the report.
LEMMA OutputResultSums == IInv /\ RInv /\ OutputResult => ReportMatchesFile'
<1> DEFINE Sums == \A i \in DOMAIN groupTDMs : groupTDMs[i][2] = FileSum(groupTDMs[i][1])
           Whole == cmd.topology = "None" /\ cmd.output = "writable" /\ DOMAIN outFile = Net
           Order == \A i, j \in DOMAIN groupTDMs : i < j => groupTDMs[i][2] >= groupTDMs[j][2]
<1>1. (Whole => Sums /\ Order) => ReportMatchesFile
  <2>1. Sums /\ Order => ReportMatchesFile
    BY DEF ReportMatchesFile, FileSum
  <2>2. ~Whole => ReportMatchesFile
    BY DEF ReportMatchesFile
  <2> QED
    BY <2>1, <2>2
<1>2. ASSUME IInv, RInv, OutputResult, Whole'
      PROVE  Sums' /\ Order'
  <2>1. /\ pc = "output" /\ input' = input /\ groupTDMs' = groupTDMs /\ cmd' = cmd
        /\ \A n \in Net : outFile'[n] = Lines(n)
    <3>1. /\ pc = "output" /\ input' = input /\ groupTDMs' = groupTDMs /\ cmd' = cmd
          /\ DOMAIN outFile' = Net
      BY <1>2 DEF OutputResult, tables
    <3>2. \E whole \in 0 .. NetNum : outFile' = [n \in 1 .. whole |-> Lines(n)]
      BY <1>2, <3>1 DEF OutputResult
    <3> QED
      BY <3>1, <3>2
  <2>2. ReportOfNow
    BY <1>2 DEF RInv
  <2>3. ASSUME NEW g \in Gid PROVE FileSum(g)' = GroupTDM(g)
    <3> DEFINE nets == input.group[g]
    <3>1. nets \in Seq(Net)
      BY <1>2, PipelineAssumption, ElementOfSeq, LenProperties DEF Gid, IInv, TypeOK
    <3>2. \A k \in DOMAIN nets : nets[k] \in Net
      <4> HIDE DEF nets
      <4> QED
        BY <3>1, ElementOfSeq, LenProperties
    <3>3. \A k \in DOMAIN nets : InFile(nets[k])' = CalcTDM(nets[k])
      BY <1>2, <2>1, <3>2, FileSums
    <3>4. [k \in DOMAIN nets |-> InFile(nets[k])'] = [k \in DOMAIN nets |-> CalcTDM(nets[k])]
      BY <3>3
    <3> QED
      BY <2>1, <3>4 DEF GroupTDM, FileSum
  <2>4. ASSUME NEW i \in DOMAIN groupTDMs
        PROVE  groupTDMs[i][2] = FileSum(groupTDMs[i][1])'
    <3>1. groupTDMs[i][1] \in Gid /\ groupTDMs[i][2] = GroupTDM(groupTDMs[i][1])
      BY <2>1, <2>2 DEF ReportOfNow
    <3>2. FileSum(groupTDMs[i][1])' = GroupTDM(groupTDMs[i][1])
      <4> PICK g \in Gid : g = groupTDMs[i][1]
        BY <3>1
      <4> QED
        BY <2>1, <2>3
    <3> QED
      BY <3>1, <3>2
  <2>5. Sums'
    BY <2>1, <2>4
  <2>6. Order'
    BY <2>1, <2>2 DEF ReportOfNow
  <2> QED
    BY <2>5, <2>6
<1> HIDE DEF Whole, Sums, Order
<1> QED
  BY <1>1, <1>2, PTL

\* What print_group_info reports for a group is what the lines of output_result add
\* up to for its nets, mention by mention, and the groups come largest first.
THEOREM ReportIsFile == Spec => []ReportMatchesFile
<1>1. Init => RInv
  BY DEF Init, RInv, ReportWaits, ReportOfNow, ReportMatchesFile
<1>2. IInv /\ RInv /\ [Next]_vars => RInv'
  <2> SUFFICES ASSUME IInv, RInv, [Next]_vars PROVE RInv'
    OBVIOUS
  <2>1. CASE Restart
    BY <2>1 DEF Restart, EmptyTables, RInv, ReportWaits, ReportOfNow, ReportMatchesFile
  <2>2. CASE ParseArguments \/ ReadInfile \/ ReadTopology \/ GroupRoute \/ RipUpReroute
             \/ RoutingDone \/ AssignTDM
    <3>1. groupTDMs' = groupTDMs /\ groupTDMs = <<>>
      BY <2>2 DEF ParseArguments, ReadInfile, ReadTopology, GroupRoute, RipUpReroute, RoutingDone,
                  AssignTDM, tables, RInv, ReportWaits
    <3> QED
      BY <3>1 DEF RInv, ReportWaits, ReportOfNow, ReportMatchesFile
  <2>3. CASE ReportResult
    <3>1. pc' \in {"aborted", "undefined", "output"}
      BY <2>3 DEF ReportResult
    <3> QED
      BY <2>3, <3>1, ReportResultOrder DEF RInv, ReportWaits, ReportMatchesFile
  <2>4. CASE OutputResult
    <3>1. pc' = "exit"
      BY <2>4 DEF OutputResult
    <3> QED
      BY <2>4, <3>1, OutputResultSums DEF RInv, ReportWaits, ReportOfNow
  <2>5. CASE Finished \/ UNCHANGED vars
    <3>1. UNCHANGED <<input, outFile, cmd, tree, ratio, groupTDMs, pc>>
      BY <2>5 DEF Finished, vars, tables, disk
    <3>2. Gid' = Gid /\ (\A g : GroupTDM(g)' = GroupTDM(g)) /\ \A n : InFile(n)' = InFile(n)
      BY <3>1 DEF GroupTDM, CalcTDM, InFile, Gid
    <3>3. ReportWaits' /\ ReportOfNow'
      BY <3>1, <3>2 DEF RInv, ReportWaits, ReportOfNow
    <3>4. ReportMatchesFile'
      BY <3>1, <3>2 DEF RInv, ReportMatchesFile
    <3> QED
      BY <3>3, <3>4 DEF RInv
  <2> QED
    BY <2>1, <2>2, <2>3, <2>4, <2>5 DEF Next
<1>3. RInv => ReportMatchesFile
  BY DEF RInv
<1> QED
  BY <1>1, <1>2, <1>3, Invariant, PTL DEF Spec
=============================================================================
