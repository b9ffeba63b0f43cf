----------------------------- MODULE MCPipeline -----------------------------
(* Two nets on two edges, inputs that meet the expectations of the program and *)
(* inputs that miss one each; the options varied one or two at a time.         *)
EXTENDS Pipeline

Spanning == [n \in Net |-> {{1}, {1, 2}}]
File(groups, trees, targets) == [group |-> groups, trees |-> trees, targets |-> targets]

MCInputs == {
  File(<<<<1, 1, 2>>, <<1, 1>>, <<2>>>>, Spanning,  <<1, 2>>),
  File(<<<<1>>, <<2>>, <<2, 2>>>>,    <<{{2}}, {{2}}>>, <<1, 2>>),
  File(<<<<1, 2>>>>,                  Spanning, <<1, 1>>),
  File(<<<<1>>, <<1>>, <<1>>>>,       Spanning, <<1, 1>>),
  File(<<>>,                          Spanning, <<1, 1>>),
  File(<<<<1>>, <<2>>, <<1, 2>>>>,    Spanning, <<0, 1>>),
  File(<<<<1>>, <<2>>, <<2>>>>,       <<{{}}, {{1}}>>, <<1, 1>>),
  File(<<<<1>>, <<2>>, <<2>>>>,       <<{{}}, {{}}>>,  <<1, 1>>)}

MCListings == {<<>>, <<2>>, <<1, 1>>, <<3>>}

Base == [help |-> FALSE, input |-> "here", output |-> "writable", topology |-> "None",
         given |-> <<<<1>>, <<2, 1>>>>,
         limit |-> 8, thread |-> 8, method |-> 1, refine |-> TRUE, release |-> FALSE, ripUp |-> 1]

MCCommandLines ==
  {[Base EXCEPT !.topology = t, !.method = m, !.release = r] :
     t \in {"None", "missing", "written", "given"}, m \in 0 .. 1, r \in BOOLEAN} \cup
  {[Base EXCEPT !.topology = "given", !.given = <<l, <<1>>>>, !.method = m] :
     l \in {<<>>, <<1, 1>>, <<3>>}, m \in 0 .. 1} \cup
  {[Base EXCEPT !.limit = 1, !.method = m, !.ripUp = k] : m \in 0 .. 1, k \in 0 .. 1} \cup
  {[Base EXCEPT !.thread = t, !.release = r] : t \in {0, 9}, r \in BOOLEAN} \cup
  {[Base EXCEPT !.ripUp = 0], [Base EXCEPT !.method = 2],
   [Base EXCEPT !.method = 0, !.refine = FALSE],
   [Base EXCEPT !.help = TRUE], [Base EXCEPT !.input = "None"],
   [Base EXCEPT !.input = "missing"], [Base EXCEPT !.output = "None"],
   [Base EXCEPT !.output = "locked"]}
=============================================================================
