----------------------------- MODULE TextFormat -----------------------------
(***************************************************************************)
(* The result file as text: output_result writes it number by number, and  *)
(* read_topology reads it line by line.  The writer does not ask whether   *)
(* the text reached the disk, so any prefix of it may be what is read.     *)
(*                                                                         *)
(* A text is a sequence of digits (0 .. 9), Blank and Eol.                 *)
(***************************************************************************)
EXTENDS Integers, SequencesExt, FiniteSetsExt

CONSTANTS
  NetNum,      \* nets 1 .. NetNum, in the order of the file
  EdgeNum,     \* edges 0 .. EdgeNum - 1
  Trees,       \* edge sequences a net may have
  TdmOf(_, _), \* ratio of an edge and a net
  Width        \* bits of an int

Net == 1 .. NetNum
Edge == 0 .. EdgeNum - 1
Blank == -1
Eol == -2

ASSUME TextAssumption ==
  /\ NetNum \in Nat /\ Width \in Nat \ {0}
  /\ EdgeNum <= 2 ^ (Width - 1)
  /\ \A t \in Trees : ToSet(t) \subseteq Edge /\ IsInjective(t)

VARIABLES
  tree,        \* _topologies of the program that wrote the file
  file,        \* what is still to be read of the text
  size,        \* characters of the text on disk
  eof,         \* the stream has met the end of the file
  buffer,      \* the line read last
  curNet, newtree, edgeNum,  \* variables of read_topology
  topology,    \* _topologies of the program that reads it
  pc

vars == <<tree, file, size, eof, buffer, curNet, newtree, edgeNum, topology, pc>>

-----------------------------------------------------------------------------
(* file_writer                                                             *)

\* The last digit first, and not turned round (for mutation only).
AppendIntsReversed(text, data) ==
  LET digits[n \in Nat] == IF n < 10 THEN <<n>> ELSE <<n % 10>> \o digits[n \div 10]
  IN  text \o digits[data]

\* The digits are found from the last to the first and pushed back in reverse.
AppendInts(text, data) ==
  LET digits[n \in Nat] == IF n < 10 THEN <<n>> ELSE Append(digits[n \div 10], n % 10)
  IN  text \o digits[data]

EdgeLine(text, e, n) ==
  Append(AppendInts(Append(AppendInts(text, e), Blank), TdmOf(e, n)), Eol)

\* The size of the tree on a line of its own, then a line for every edge.
WriteNet(text, n) ==
  FoldLeft(LAMBDA out, e : EdgeLine(out, e, n),
           Append(AppendInts(text, Len(tree[n])), Eol), tree[n])

\* The text of the nets 1 .. n.
Written(n) == FoldLeft(WriteNet, <<>>, [i \in 1 .. n |-> i])

-----------------------------------------------------------------------------
(* str2ints: a cell for every delimiter and one more.  The container has   *)
(* as many cells as the line has characters; integers wrap around.         *)

Wrap(x) == ((x + 2 ^ (Width - 1)) % 2 ^ Width) - 2 ^ (Width - 1)

Str2Ints(line) ==
  FoldLeft(LAMBDA cells, c :
             IF c = Blank THEN Append(cells, 0)
             ELSE [cells EXCEPT ![Len(cells)] = Wrap(@ * 10 + c)],
           <<0>>, line)

\* The ratio instead of the edge (for mutation only).
LastNumber(line) == Last(Str2Ints(line))

FirstNumber(line) == Head(Str2Ints(line))

\* A cell past the end of the container is written.
Overrun(line) == Len(Str2Ints(line)) > Len(line)

\* getline: at the end of the file the buffer is emptied, after it kept.
LineEnd == IF Eol \in ToSet(file) THEN SelectInSeq(file, LAMBDA c : c = Eol) ELSE Len(file) + 1

Getline ==
  /\ buffer' = IF eof THEN buffer ELSE SubSeq(file, 1, LineEnd - 1)
  /\ eof' = (eof \/ LineEnd > Len(file))
  /\ file' = SubSeq(file, LineEnd + 1, Len(file))

-----------------------------------------------------------------------------
(* read_topology                                                           *)

\* The disk holds the first cut characters.
Init ==
  /\ tree \in [Net -> Trees]
  /\ \E cut \in 0 .. Len(Written(NetNum)) :
       file = SubSeq(Written(NetNum), 1, cut) /\ size = cut
  /\ eof = FALSE /\ buffer = <<>>
  /\ curNet = 1 /\ newtree = <<>> /\ edgeNum = 0
  /\ topology = [n \in Net |-> <<>>]
  /\ pc = "net"

ReadHead ==
  /\ pc = "net" /\ curNet <= NetNum
  /\ Getline
  /\ edgeNum' = FirstNumber(buffer')
  /\ newtree' = <<>>
  /\ pc' = "edges"
  /\ UNCHANGED <<tree, size, curNet, topology>>

ReadEdge ==
  /\ pc = "edges" /\ Len(newtree) < edgeNum
  /\ Getline
  /\ newtree' = Append(newtree, FirstNumber(buffer'))
  /\ UNCHANGED <<tree, size, curNet, edgeNum, topology, pc>>

\* set_tree and add_tree_to_edge, which asserts that no edge comes twice.
EnterTree ==
  /\ pc = "edges" /\ Len(newtree) >= edgeNum
  /\ topology' = [topology EXCEPT ![curNet] = newtree]
  /\ curNet' = curNet + 1
  /\ pc' = IF IsInjective(newtree) THEN "net" ELSE "aborted"
  /\ UNCHANGED <<tree, file, size, eof, buffer, newtree, edgeNum>>

Stop == (pc = "aborted" \/ (pc = "net" /\ curNet > NetNum)) /\ UNCHANGED vars

Next == ReadHead \/ ReadEdge \/ EnterTree \/ Stop

Spec == Init /\ [][Next]_vars

-----------------------------------------------------------------------------
\* Net n is complete on disk, its last line end excepted.
Complete(n) == size >= Len(Written(n)) - 1

\* However short the file fell, the nets that are complete in it are read back
\* with their edges in the order of the tree: neither a number of several digits,
\* nor a ratio wider than an int, nor the cut behind them reaches them.
CompleteNetsSurvive ==
  \A n \in 1 .. curNet - 1 : Complete(n) => topology[n] = tree[n]

\* Only a file that was cut trips the assertion or writes past the container:
\* the one line without room is the empty one.
OnlyCutFilesMisread ==
  pc = "aborted" \/ ((pc = "edges" \/ curNet > 1) /\ Overrun(buffer)) => ~Complete(NetNum)
=============================================================================
